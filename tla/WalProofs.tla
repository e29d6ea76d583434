----------------------------- MODULE WalProofs -----------------------------
(***************************************************************************)
(* The bytes of the log: the table-driven checksum is the CRC32 that a     *)
(* division bit by bit yields, decoding undoes encoding, and a record that *)
(* is whole in the file is read back as it was appended.  Where no other   *)
(* record passes the checksum, the reader stops at the first that is not   *)
(* whole, and truncating there loses nothing that was acknowledged.        *)
(***************************************************************************)
EXTENDS WalFile, WellFoundedInduction, TLAPS

----------------------------------------------------------------------------
(* Induction up to n, and functions defined by recursion on 0..n. *)

USE Zenon

\* A nonempty set of naturals has a least element.
LEMMA LeastNat ==
    ASSUME NEW T, T \subseteq Nat, T # {}
    PROVE  \E x \in T : \A y \in T : x <= y
<1>1. IsWellFoundedOn({ss \in Nat \X Nat : ss[1] < ss[2]}, Nat)
  BY NatLessThanWellFounded, SMT DEF OpToRel
<1>2. PICK x \in T : \A y \in T : ~ (<<y, x>> \in {ss \in Nat \X Nat : ss[1] < ss[2]})
  BY <1>1, WFMin
<1>3. \A y \in T : ~ (y < x)
  BY <1>2
<1> QED
  BY <1>3, SMT

\* The runs of a sequence of n steps from base: entry i is what step i makes
\* of entry i - 1.
Runs(X, base, n, step) ==
    {r \in [0 .. n -> X] :
        r[0] = base /\ \A i \in 1 .. n : r[i] = step[i][r[i - 1]]}

\* Every finite sequence of steps has a run.
LEMMA FiniteRecursion ==
    ASSUME NEW X, NEW base \in X, NEW n \in Nat, NEW step \in [1 .. n -> [X -> X]]
    PROVE  Runs(X, base, n, step) # {}
<1> DEFINE Run(r, m) == /\ r \in [0 .. m -> X]
                        /\ r[0] = base
                        /\ \A i \in 1 .. m : r[i] = step[i][r[i - 1]]
           T == {m \in 0 .. n : ~ \E r : Run(r, m)}
<1>0. SUFFICES ASSUME T # {} PROVE FALSE
  <2>1. CASE T = {}
    <3>1. n \in 0 .. n /\ n \notin T
      BY <2>1, SMTT(30)
    <3>2. PICK r : Run(r, n)
      BY <3>1, SMT
    <3> QED
      BY <3>2, SMT DEF Runs
  <2> QED
    BY <2>1, SMT
<1>1. PICK m \in T : \A y \in T : m <= y
  <2>1. T \subseteq Nat
    BY SMT
  <2> HIDE DEF T
  <2> QED
    BY <1>0, <2>1, LeastNat
<1>2. m # 0
  <2>1. Run([i \in 0 .. 0 |-> base], 0)
    BY SMT
  <2> QED
    BY <2>1
<1>3. PICK r : Run(r, m - 1)
  <2>1. m \in 0 .. n /\ m - 1 \in 0 .. n /\ ~ (m <= m - 1)
    <3>1. m \in 0 .. n
      BY SMT
    <3> QED
      BY <1>2, <3>1, SMT
  <2>2. m - 1 \notin T
    <3> HIDE DEF T
    <3> QED
      BY <1>1, <2>1, SMT
  <2> QED
    BY <2>1, <2>2, SMT
<1> DEFINE g == [i \in 0 .. m |-> IF i = m THEN step[m][r[m - 1]] ELSE r[i]]
<1>4. Run(g, m)
  <2>1. m \in 1 .. n /\ m - 1 \in 0 .. m - 1 /\ r[m - 1] \in X
    BY <1>2, <1>3, SMT
  <2>2. step[m][r[m - 1]] \in X
    <3>1. step[m] \in [X -> X]
      BY <2>1, SMT
    <3> QED
      BY <2>1, <3>1, SMT
  <2>3. g \in [0 .. m -> X] /\ g[0] = base
    BY <1>3, <2>1, <2>2, SMT
  <2>4. ASSUME NEW i \in 1 .. m PROVE g[i] = step[i][g[i - 1]]
    <3>1. i - 1 \in 0 .. m /\ i - 1 # m /\ g[i - 1] = r[i - 1]
      BY <2>1, SMT
    <3>2. CASE i = m
      BY <2>1, <3>1, <3>2, SMT
    <3>3. CASE i # m
      <4>1. i \in 1 .. m - 1 /\ i \in 0 .. m /\ g[i] = r[i]
        BY <2>1, <3>3, SMT
      <4> QED
        BY <1>3, <3>1, <4>1, SMT
    <3> QED
      BY <3>2, <3>3, SMT
  <2> QED
    BY <2>3, <2>4
<1> QED
  BY <1>4

\* Induction up to n, stated with a set in place of a predicate.
LEMMA BoundedInduction ==
    ASSUME NEW T, NEW n \in Nat, 0 \in T, \A i \in 1 .. n : i - 1 \in T => i \in T
    PROVE  \A i \in 0 .. n : i \in T
<1> DEFINE U == {i \in 0 .. n : i \notin T}
<1> SUFFICES ASSUME U # {} PROVE FALSE
  BY SMT
<1>1. PICK m \in U : \A y \in U : m <= y
  <2>1. U \subseteq Nat
    BY SMT
  <2> HIDE DEF U
  <2> QED
    BY <2>1, LeastNat
<1>2. m \in 1 .. n /\ m - 1 \in 0 .. n /\ m - 1 \notin U
  BY <1>1, SMT
<1> QED
  BY <1>2, SMT

----------------------------------------------------------------------------
(* Registers as sets of bits. *)

LEMMA SameElements ==
    ASSUME NEW S, NEW T, \A x : x \in S <=> x \in T
    PROVE  S = T
  OBVIOUS

LEMMA InSymDiff == \A A, B, x : x \in SymDiff(A, B) <=> ~ (x \in A <=> x \in B)
  BY DEF SymDiff

LEMMA InShifted ==
    ASSUME NEW c \in SUBSET Nat, NEW n \in Nat
    PROVE  \A x : x \in Shifted(c, n) <=> x \in Nat /\ x + n \in c
<1> SUFFICES ASSUME NEW x PROVE x \in Shifted(c, n) <=> x \in Nat /\ x + n \in c
  OBVIOUS
<1>1. ASSUME x \in Shifted(c, n) PROVE x \in Nat /\ x + n \in c
  <2>1. PICK b \in c : b >= n /\ x = b - n
    BY <1>1 DEF Shifted
  <2> QED
    BY <2>1, SMT
<1>2. ASSUME x \in Nat, x + n \in c PROVE x \in Shifted(c, n)
  <2>1. x + n >= n /\ x = (x + n) - n
    BY <1>2, SMT
  <2> QED
    BY <1>2, <2>1 DEF Shifted
<1> QED
  BY <1>1, <1>2

LEMMA ShiftedType == \A c \in Register, n \in Nat : Shifted(c, n) \in Register
<1> SUFFICES ASSUME NEW c \in Register, NEW n \in Nat, NEW x \in Shifted(c, n)
             PROVE  x \in 0 .. 31
  BY DEF Register
<1>1. c \in SUBSET Nat /\ \A b \in c : b <= 31
  BY SMT DEF Register
<1>2. x \in Nat /\ x + n \in c
  BY <1>1, InShifted
<1> QED
  BY <1>1, <1>2, SMT

LEMMA SymDiffType == \A a, b \in Register : SymDiff(a, b) \in Register
  BY DEF SymDiff, Register

\* What a round leaves of a register, bit by bit.
LEMMA InRound ==
    ASSUME NEW c \in Register
    PROVE  /\ Round[c] \in Register
           /\ \A x : x \in Round[c] <=> ~ ((0 \in c /\ x \in kPolynomial) <=> x \in Shifted(c, 1))
<1>1. Round[c] = IF 0 \in c THEN SymDiff(kPolynomial, Shifted(c, 1)) ELSE Shifted(c, 1)
  BY DEF Round
<1>2. kPolynomial \in Register
  BY SMT DEF kPolynomial, Register
<1>3. 1 \in Nat
  BY SMT
<1>4. Round[c] \in Register
  BY <1>1, <1>2, <1>3, ShiftedType, SymDiffType
<1>5. ASSUME NEW x
      PROVE  x \in Round[c] <=> ~ ((0 \in c /\ x \in kPolynomial) <=> x \in Shifted(c, 1))
  <2>1. x \in SymDiff(kPolynomial, Shifted(c, 1)) <=> ~ (x \in kPolynomial <=> x \in Shifted(c, 1))
    BY InSymDiff
  <2>2. CASE 0 \in c
    BY <1>1, <2>1, <2>2
  <2>3. CASE 0 \notin c
    BY <1>1, <2>3
  <2> QED
    BY <2>2, <2>3
<1> QED
  BY <1>4, <1>5

LEMMA ShiftedLinear ==
    ASSUME NEW a \in Register, NEW b \in Register, NEW n \in Nat
    PROVE  Shifted(SymDiff(a, b), n) = SymDiff(Shifted(a, n), Shifted(b, n))
<1>1. a \in SUBSET Nat /\ b \in SUBSET Nat
  BY SMT DEF Register
<1>2. SymDiff(a, b) \in SUBSET Nat
  BY <1>1 DEF SymDiff
<1> DEFINE S == Shifted(SymDiff(a, b), n)
           T == SymDiff(Shifted(a, n), Shifted(b, n))
<1>3. ASSUME NEW x PROVE x \in S <=> x \in T
  <2>1. x \in S <=> x \in Nat /\ x + n \in SymDiff(a, b)
    BY <1>2, InShifted
  <2>2. x \in Shifted(a, n) <=> x \in Nat /\ x + n \in a
    BY <1>1, InShifted
  <2>3. x \in Shifted(b, n) <=> x \in Nat /\ x + n \in b
    BY <1>1, InShifted
  <2>4. x + n \in SymDiff(a, b) <=> ~ (x + n \in a <=> x + n \in b)
    BY InSymDiff, SMT
  <2>5. x \in T <=> ~ (x \in Shifted(a, n) <=> x \in Shifted(b, n))
    BY InSymDiff, SMT
  <2> QED
    BY <2>1, <2>2, <2>3, <2>4, <2>5, PTL
<1> HIDE DEF S, T
<1>4. S = T
  BY <1>3, SameElements
<1> QED
  BY <1>4 DEF S, T

\* A round is linear.
LEMMA RoundLinear ==
    ASSUME NEW a \in Register, NEW b \in Register
    PROVE  Round[SymDiff(a, b)] = SymDiff(Round[a], Round[b])
<1> DEFINE S == Round[SymDiff(a, b)]
           T == SymDiff(Round[a], Round[b])
<1>1. 1 \in Nat
  BY SMT
<1>2. Shifted(SymDiff(a, b), 1) = SymDiff(Shifted(a, 1), Shifted(b, 1))
  BY <1>1, ShiftedLinear
<1>3. SymDiff(a, b) \in Register
  BY SymDiffType
<1>4. ASSUME NEW x PROVE x \in S <=> x \in T
  <2>1. x \in Round[a] <=> ~ ((0 \in a /\ x \in kPolynomial) <=> x \in Shifted(a, 1))
    BY InRound
  <2>2. x \in Round[b] <=> ~ ((0 \in b /\ x \in kPolynomial) <=> x \in Shifted(b, 1))
    BY InRound
  <2>3. x \in S <=> ~ ((0 \in SymDiff(a, b) /\ x \in kPolynomial) <=> x \in Shifted(SymDiff(a, b), 1))
    BY <1>3, InRound
  <2>4. 0 \in SymDiff(a, b) <=> ~ (0 \in a <=> 0 \in b)
    BY InSymDiff
  <2>5. x \in Shifted(SymDiff(a, b), 1) <=> ~ (x \in Shifted(a, 1) <=> x \in Shifted(b, 1))
    BY <1>2, InSymDiff, SMT
  <2>6. x \in T <=> ~ (x \in Round[a] <=> x \in Round[b])
    BY InSymDiff
  <2> QED
    BY <2>1, <2>2, <2>3, <2>4, <2>5, <2>6, PTL
<1> HIDE DEF S, T
<1>5. S = T
  BY <1>4, SameElements
<1> QED
  BY <1>5 DEF S, T

\* A function that follows the steps as long as it stays within X is a run.
Follows(f, X, base, n, step) ==
    /\ f = [i \in 0 .. n |-> f[i]]
    /\ f[0] = base
    /\ \A i \in 1 .. n : f[i - 1] \in X => f[i] = step[i][f[i - 1]]

LEMMA FollowsRuns ==
    ASSUME NEW X, NEW base \in X, NEW n \in Nat, NEW step \in [1 .. n -> [X -> X]],
           NEW f, Follows(f, X, base, n, step)
    PROVE  f \in Runs(X, base, n, step)
<1> DEFINE T == {i \in 0 .. n : f[i] \in X}
<1>1. 0 \in T
  BY SMT DEF Follows
<1>2. ASSUME NEW i \in 1 .. n, i - 1 \in T PROVE i \in T
  <2>1. f[i] = step[i][f[i - 1]] /\ f[i - 1] \in X
    BY <1>2 DEF Follows
  <2>2. step[i] \in [X -> X]
    BY SMT
  <2>3. f[i] \in X
    BY <2>1, <2>2, SMT
  <2> QED
    BY <2>3, SMT
<1>3. \A i \in 0 .. n : i \in T
  <2> HIDE DEF T
  <2> QED
    BY <1>1, <1>2, BoundedInduction
<1>4. \A i \in 0 .. n : f[i] \in X
  BY <1>3, SMT
<1>5. f \in [0 .. n -> X]
  <2>1. f = [i \in 0 .. n |-> f[i]]
    BY DEF Follows
  <2> QED
    BY <1>4, <2>1, SMT
<1>6. \A i \in 1 .. n : f[i] = step[i][f[i - 1]]
  <2> SUFFICES ASSUME NEW i \in 1 .. n PROVE f[i] = step[i][f[i - 1]]
    OBVIOUS
  <2>1. i - 1 \in 0 .. n
    BY SMT
  <2> QED
    BY <1>4, <2>1 DEF Follows
<1> QED
  BY <1>5, <1>6 DEF Runs, Follows

\* A bit that is 1 is added to the low bit of the register, one that is 0 not.
LEMMA DivideBitIs ==
    ASSUME NEW c \in Register, NEW q \in BOOLEAN
    PROVE  DivideBit[<<c, q>>] = IF 0 \in c <=> q THEN Shifted(c, 1)
                                                  ELSE SymDiff(kPolynomial, Shifted(c, 1))
  BY DEF DivideBit

LEMMA DivideByZero ==
    ASSUME NEW c \in Register, NEW k, NEW bits, k \notin bits
    PROVE  DivideBit[<<c, k \in bits>>] = Round[c]
<1>1. Round[c] = IF 0 \in c THEN SymDiff(kPolynomial, Shifted(c, 1)) ELSE Shifted(c, 1)
  BY DEF Round
<1>2. (k \in bits) = FALSE
  BY SMT
<1>3. DivideBit[<<c, FALSE>>] = Round[c]
  BY <1>1, DivideBitIs
<1> QED
  BY <1>2, <1>3

LEMMA DivideByOne ==
    ASSUME NEW c \in Register, NEW k, NEW bits, k \in bits
    PROVE  DivideBit[<<c, k \in bits>>] = Round[SymDiff(c, {0})]
<1> DEFINE d == SymDiff(c, {0})
<1>1. (k \in bits) = TRUE
  BY SMT
<1>2. {0} \in Register /\ 1 \in Nat
  BY SMT DEF Register
<1>3. d \in Register /\ (0 \in d <=> ~ 0 \in c)
  BY <1>2, SymDiffType DEF SymDiff
<1>4. Round[d] = IF 0 \in d THEN SymDiff(kPolynomial, Shifted(d, 1)) ELSE Shifted(d, 1)
  BY <1>3 DEF Round
<1>5. Shifted(d, 1) = Shifted(c, 1)
  <2>1. c \in SUBSET Nat /\ d \in SUBSET Nat
    BY <1>3, SMT DEF Register
  <2>2. ASSUME NEW x PROVE x \in Shifted(d, 1) <=> x \in Shifted(c, 1)
    <3>1. x \in Nat => (x + 1 \in d <=> x + 1 \in c)
      <4>1. x \in Nat => x + 1 # 0
        BY SMT
      <4> QED
        BY <4>1 DEF SymDiff
    <3> QED
      BY <1>2, <2>1, <3>1, InShifted
  <2> QED
    BY <2>2, SameElements
<1> HIDE DEF d
<1>6. DivideBit[<<c, TRUE>>] = IF 0 \in c <=> TRUE THEN Shifted(c, 1)
                                                   ELSE SymDiff(kPolynomial, Shifted(c, 1))
  <2>1. TRUE \in BOOLEAN
    OBVIOUS
  <2> QED
    BY <2>1, DivideBitIs
<1>7. CASE 0 \in c
  BY <1>1, <1>3, <1>4, <1>5, <1>6, <1>7 DEF d
<1>8. CASE 0 \notin c
  BY <1>1, <1>3, <1>4, <1>5, <1>6, <1>8 DEF d
<1> QED
  BY <1>7, <1>8

\* The rounds of a table entry's computation.
IsRounds(f, c, n) ==
    /\ f \in [0 .. n -> Register] /\ f[0] = c
    /\ \A i \in 1 .. n : f[i] = Round[f[i - 1]]
    /\ Rounds(c, n) = f[n]

LEMMA RoundsRun ==
    ASSUME NEW c \in Register, NEW n \in Nat
    PROVE  \E f : IsRounds(f, c, n)
<1> DEFINE Body(f) == [i \in 0 .. n |-> IF i = 0 THEN c ELSE Round[f[i - 1]]]
           step == [i \in 1 .. n |-> [x \in Register |-> Round[x]]]
           R == CHOOSE f : f = Body(f)
<1>1. n \in Nat /\ c \in Register
  BY SMT
<1>2. \A i \in 1 .. n, x \in Register : Round[x] \in Register
  BY InRound
<1>3. step \in [1 .. n -> [Register -> Register]]
  BY <1>2
<1>4. \A i \in 1 .. n, x \in Register : step[i][x] = Round[x]
  OBVIOUS
<1>5. PICK g : g \in Runs(Register, c, n, step)
  <2> HIDE DEF step
  <2> QED
    <3>1. Runs(Register, c, n, step) # {}
      BY <1>1, <1>3, FiniteRecursion
    <3> QED
      BY <3>1
<1>6. g = Body(g)
  <2>1. /\ g \in [0 .. n -> Register] /\ g[0] = c
        /\ \A i \in 1 .. n : g[i] = step[i][g[i - 1]]
    BY <1>5 DEF Runs
  <2> HIDE DEF step
  <2>2. ASSUME NEW i \in 0 .. n PROVE g[i] = IF i = 0 THEN c ELSE Round[g[i - 1]]
    <3>1. CASE i = 0
      BY <2>1, <3>1
    <3>2. CASE i # 0
      <4>1. i \in 1 .. n /\ i - 1 \in 0 .. n
        BY <1>1, <3>2, SMT
      <4>2. g[i - 1] \in Register /\ g[i] = step[i][g[i - 1]]
        BY <2>1, <4>1
      <4> QED
        BY <1>4, <3>2, <4>1, <4>2
    <3> QED
      BY <3>1, <3>2
  <2> QED
    BY <2>1, <2>2
<1>7. R = Body(R)
  <2> HIDE DEF Body
  <2> QED
    BY <1>6
<1>8. Rounds(c, n) = R[n]
  BY DEF Rounds
<1> HIDE DEF R
<1>9. 0 \in 0 .. n /\ \A i \in 1 .. n : i \in 0 .. n /\ i # 0
  BY <1>1, SMT
<1>10. R = [i \in 0 .. n |-> R[i]] /\ R[0] = c
  BY <1>7, <1>9
<1>11. \A i \in 1 .. n : R[i] = Round[R[i - 1]]
  BY <1>7, <1>9
<1>12. \A i \in 1 .. n : R[i - 1] \in Register => R[i] = step[i][R[i - 1]]
  <2> HIDE DEF step
  <2> QED
    BY <1>4, <1>11
<1>13. R \in Runs(Register, c, n, step)
  <2> HIDE DEF step
  <2>1. Follows(R, Register, c, n, step)
    BY <1>10, <1>12 DEF Follows
  <2> QED
    BY <1>1, <1>3, <2>1, FollowsRuns
<1>14. R \in [0 .. n -> Register]
  BY <1>13 DEF Runs
<1> QED
  BY <1>8, <1>10, <1>11, <1>14 DEF IsRounds

\* The division of a byte, bit by bit.
IsDivision(f, register, bits) ==
    /\ f \in [0 .. 8 -> Register] /\ f[0] = register
    /\ \A i \in 1 .. 8 : f[i] = DivideBit[<<f[i - 1], i - 1 \in bits>>]
    /\ DivideBits(register, bits) = f[8]

LEMMA DivideRun ==
    ASSUME NEW register \in Register, NEW bits
    PROVE  \E f : IsDivision(f, register, bits)
<1> DEFINE Body(f) == [i \in 0 .. 8 |-> IF i = 0 THEN register ELSE DivideBit[<<f[i - 1], i - 1 \in bits>>]]
           step == [i \in 1 .. 8 |-> [x \in Register |-> DivideBit[<<x, i - 1 \in bits>>]]]
           R == CHOOSE f : f = Body(f)
<1>1. 8 \in Nat /\ register \in Register
  BY SMT
<1>2. \A i \in 1 .. 8, x \in Register : DivideBit[<<x, i - 1 \in bits>>] \in Register
  <2> SUFFICES ASSUME NEW i \in 1 .. 8, NEW x \in Register
               PROVE  DivideBit[<<x, i - 1 \in bits>>] \in Register
    OBVIOUS
  <2>1. {0} \in Register
    BY SMT DEF Register
  <2>2. SymDiff(x, {0}) \in Register
    BY <2>1, SymDiffType
  <2>3. Round[x] \in Register /\ Round[SymDiff(x, {0})] \in Register
    BY <2>2, InRound
  <2>4. CASE i - 1 \in bits
    BY <2>3, <2>4, DivideByOne
  <2>5. CASE i - 1 \notin bits
    BY <2>3, <2>5, DivideByZero
  <2> QED
    BY <2>4, <2>5
<1>3. step \in [1 .. 8 -> [Register -> Register]]
  BY <1>2
<1>4. \A i \in 1 .. 8, x \in Register : step[i][x] = DivideBit[<<x, i - 1 \in bits>>]
  OBVIOUS
<1>5. PICK g : g \in Runs(Register, register, 8, step)
  <2> HIDE DEF step
  <2> QED
    <3>1. Runs(Register, register, 8, step) # {}
      BY <1>1, <1>3, FiniteRecursion
    <3> QED
      BY <3>1
<1>6. g = Body(g)
  <2>1. /\ g \in [0 .. 8 -> Register] /\ g[0] = register
        /\ \A i \in 1 .. 8 : g[i] = step[i][g[i - 1]]
    BY <1>5 DEF Runs
  <2> HIDE DEF step
  <2>2. ASSUME NEW i \in 0 .. 8 PROVE g[i] = IF i = 0 THEN register ELSE DivideBit[<<g[i - 1], i - 1 \in bits>>]
    <3>1. CASE i = 0
      BY <2>1, <3>1
    <3>2. CASE i # 0
      <4>1. i \in 1 .. 8 /\ i - 1 \in 0 .. 8
        BY <1>1, <3>2, SMT
      <4>2. g[i - 1] \in Register /\ g[i] = step[i][g[i - 1]]
        BY <2>1, <4>1
      <4> QED
        BY <1>4, <3>2, <4>1, <4>2
    <3> QED
      BY <3>1, <3>2
  <2> QED
    BY <2>1, <2>2
<1>7. R = Body(R)
  <2> HIDE DEF Body
  <2> QED
    BY <1>6
<1>8. DivideBits(register, bits) = R[8]
  BY DEF DivideBits
<1> HIDE DEF R
<1>9. 0 \in 0 .. 8 /\ \A i \in 1 .. 8 : i \in 0 .. 8 /\ i # 0
  BY <1>1, SMT
<1>10. R = [i \in 0 .. 8 |-> R[i]] /\ R[0] = register
  BY <1>7, <1>9
<1>11. \A i \in 1 .. 8 : R[i] = DivideBit[<<R[i - 1], i - 1 \in bits>>]
  BY <1>7, <1>9
<1>12. \A i \in 1 .. 8 : R[i - 1] \in Register => R[i] = step[i][R[i - 1]]
  <2> HIDE DEF step
  <2> QED
    BY <1>4, <1>11
<1>13. R \in Runs(Register, register, 8, step)
  <2> HIDE DEF step
  <2>1. Follows(R, Register, register, 8, step)
    BY <1>10, <1>12 DEF Follows
  <2> QED
    BY <1>1, <1>3, <2>1, FollowsRuns
<1>14. R \in [0 .. 8 -> Register]
  BY <1>13 DEF Runs
<1> QED
  BY <1>8, <1>10, <1>11, <1>14 DEF IsDivision

Rolls(f, c) ==
    f \in [0 .. 8 -> Register] /\ f[0] = c /\ \A i \in 1 .. 8 : f[i] = Round[f[i - 1]]

LEMMA RoundsRolls ==
    ASSUME NEW c \in Register
    PROVE  \E f : Rolls(f, c) /\ Rounds(c, 8) = f[8]
<1>1. 8 \in Nat
  BY SMT
<1>2. PICK f : IsRounds(f, c, 8)
  BY <1>1, RoundsRun
<1> QED
  BY <1>2 DEF Rolls, IsRounds

Adds(h, f, g) == \A i \in 0 .. 8 : h[i] = SymDiff(f[i], g[i])

LEMMA RollsLinear ==
    ASSUME NEW a \in Register, NEW b \in Register, NEW f, NEW g, NEW h,
           Rolls(f, a), Rolls(g, b), Rolls(h, SymDiff(a, b))
    PROVE  Adds(h, f, g)
<1> DEFINE T == {i \in 0 .. 8 : h[i] = SymDiff(f[i], g[i])}
<1>1. 0 \in T
  <2>1. h[0] = SymDiff(f[0], g[0])
    BY DEF Rolls
  <2> QED
    BY <2>1, SMT
<1>2. ASSUME NEW i \in 1 .. 8, i - 1 \in T PROVE i \in T
  <2>1. i \in 0 .. 8 /\ i - 1 \in 0 .. 8
    BY SMT
  <2>2. f[i - 1] \in Register /\ g[i - 1] \in Register
    BY <2>1 DEF Rolls
  <2>3. f[i] = Round[f[i - 1]] /\ g[i] = Round[g[i - 1]] /\ h[i] = Round[h[i - 1]]
    BY DEF Rolls
  <2>4. h[i - 1] = SymDiff(f[i - 1], g[i - 1])
    BY <1>2
  <2>5. Round[SymDiff(f[i - 1], g[i - 1])] = SymDiff(Round[f[i - 1]], Round[g[i - 1]])
    BY <2>2, RoundLinear
  <2>6. h[i] = SymDiff(f[i], g[i])
    BY <2>3, <2>4, <2>5
  <2> QED
    BY <2>1, <2>6
<1>3. 8 \in Nat
  BY SMT
<1>4. \A i \in 0 .. 8 : i \in T
  <2> HIDE DEF T
  <2> QED
    BY <1>1, <1>2, <1>3, BoundedInduction
<1> QED
  BY <1>4 DEF Adds

\* Bits above the first m are only shifted by m rounds.
From(c, m) == \A x \in c : x >= m

Shifts(f, c, m) == \A i \in 0 .. m : f[i] = Shifted(c, i)

LEMMA RollsShift ==
    ASSUME NEW c \in Register, NEW m \in 0 .. 8, From(c, m), NEW f, Rolls(f, c)
    PROVE  Shifts(f, c, m)
<1> DEFINE T == {i \in 0 .. m : f[i] = Shifted(c, i)}
<1>1. c \in SUBSET Nat
  BY SMT DEF Register
<1>2. 0 \in T
  <2>1. \A x : x \in Shifted(c, 0) <=> x \in Nat /\ x + 0 \in c
    BY <1>1, InShifted, SMT
  <2>2. \A x : x \in Shifted(c, 0) <=> x \in c
    <3>1. \A x \in Nat : x + 0 = x
      BY SMT
    <3> QED
      BY <1>1, <2>1, <3>1
  <2>3. f[0] = Shifted(c, 0)
    BY <2>2, SameElements DEF Rolls
  <2> QED
    BY <2>3, SMT
<1>3. ASSUME NEW i \in 1 .. m, i - 1 \in T PROVE i \in T
  <2>1. i \in Nat /\ i - 1 \in Nat /\ i \in 0 .. m /\ i \in 1 .. 8 /\ 1 \in Nat
    BY SMT
  <2> DEFINE d == Shifted(c, i - 1)
  <2>2. f[i] = Round[d]
    BY <1>3, <2>1 DEF Rolls
  <2>3. d \in Register
    BY <2>1, ShiftedType
  <2>4. 0 \notin d
    <3>1. 0 \in d => 0 + (i - 1) \in c
      BY <1>1, <2>1, InShifted
    <3> QED
      BY <3>1, SMT DEF From
  <2>5. \A x : x \in d <=> x \in Nat /\ x + (i - 1) \in c
    BY <1>1, <2>1, InShifted
  <2> HIDE DEF d
  <2>6. Round[d] = Shifted(d, 1)
    BY <2>3, <2>4 DEF Round
  <2>7. ASSUME NEW x PROVE x \in Shifted(d, 1) <=> x \in Shifted(c, i)
    <3>1. d \in SUBSET Nat
      BY <2>3, SMT DEF Register
    <3>2. x \in Shifted(d, 1) <=> x \in Nat /\ x + 1 \in d
      BY <2>1, <3>1, InShifted
    <3>3. x \in Shifted(c, i) <=> x \in Nat /\ x + i \in c
      BY <1>1, <2>1, InShifted
    <3>4. x \in Nat => x + 1 \in Nat /\ (x + 1) + (i - 1) = x + i
      BY <2>1, SMT
    <3> QED
      BY <2>5, <3>2, <3>3, <3>4
  <2>8. Shifted(d, 1) = Shifted(c, i)
    BY <2>7, SameElements
  <2> QED
    BY <2>1, <2>2, <2>6, <2>8
<1>4. m \in Nat
  BY SMT
<1>5. \A i \in 0 .. m : i \in T
  <2> HIDE DEF T
  <2> QED
    BY <1>2, <1>3, <1>4, BoundedInduction
<1> QED
  BY <1>5 DEF Shifts

\* Dividing by eight bits in turn is adding them and then rolling.
LEMMA DivideBitsIs ==
    ASSUME NEW crc \in Register, NEW bits \in SUBSET (0 .. 7)
    PROVE  DivideBits(crc, bits) = Rounds(SymDiff(crc, bits), 8)
<1> DEFINE X(k) == SymDiff(crc, bits \cap (0 .. k - 1))
<1>0. PICK A : IsDivision(A, crc, bits)
  BY DivideRun
<1>1. /\ A \in [0 .. 8 -> Register] /\ A[0] = crc
      /\ \A i \in 1 .. 8 : A[i] = DivideBit[<<A[i - 1], i - 1 \in bits>>]
      /\ DivideBits(crc, bits) = A[8]
  BY <1>0 DEF IsDivision
<1> DEFINE T == {k \in 0 .. 8 : \A f : Rolls(f, X(k)) => f[k] = A[k]}
<1>2. \A k \in 0 .. 8 : X(k) \in Register
  <2> SUFFICES ASSUME NEW k \in 0 .. 8 PROVE bits \cap (0 .. k - 1) \in Register
    BY SymDiffType
  <2> QED
    BY SMT DEF Register
<1>3. 0 \in T
  <2>1. bits \cap (0 .. 0 - 1) = {}
    BY SMT
  <2>2. X(0) = crc
    BY <2>1 DEF SymDiff
  <2>3. \A f : Rolls(f, X(0)) => f[0] = A[0]
    BY <1>1, <2>2 DEF Rolls
  <2> QED
    BY <2>3, SMT
<1>4. ASSUME NEW k \in 1 .. 8, k - 1 \in T PROVE k \in T
  <2>1. k \in 0 .. 8 /\ k - 1 \in 0 .. 8 /\ k - 1 \in 0 .. 7 /\ k - 1 \in 0 .. k - 1
    BY SMT
  <2> SUFFICES ASSUME NEW f, Rolls(f, X(k)) PROVE f[k] = A[k]
    BY <2>1
  <2>2. f[k] = Round[f[k - 1]] /\ A[k] = DivideBit[<<A[k - 1], k - 1 \in bits>>]
    <3>1. f[k] = Round[f[k - 1]]
      BY DEF Rolls
    <3>2. A[k] = DivideBit[<<A[k - 1], k - 1 \in bits>>]
      BY <1>1
    <3> QED
      BY <3>1, <3>2
  <2>3. A[k - 1] \in Register /\ X(k - 1) \in Register
    BY <1>1, <1>2, <2>1
  <2>4. \A g : Rolls(g, X(k - 1)) => g[k - 1] = A[k - 1]
    BY <1>4
  <2>5. CASE k - 1 \notin bits
    <3>1. bits \cap (0 .. k - 1) = bits \cap (0 .. (k - 1) - 1)
      BY <2>5, SMT
    <3>2. Rolls(f, X(k - 1))
      BY <3>1
    <3> HIDE DEF X
    <3>3. DivideBit[<<A[k - 1], k - 1 \in bits>>] = Round[A[k - 1]]
      BY <2>3, <2>5, DivideByZero
    <3> QED
      BY <2>2, <2>4, <3>2, <3>3
  <2>6. CASE k - 1 \in bits
    <3>1. \A x : x \in bits \cap (0 .. k - 1) <=> x \in bits \cap (0 .. (k - 1) - 1) \/ x = k - 1
      BY <2>6, SMT
    <3>2. k - 1 \notin bits \cap (0 .. (k - 1) - 1)
      BY SMT
    <3>3. ASSUME NEW x PROVE x \in X(k) <=> x \in SymDiff(X(k - 1), {k - 1})
      <4>1. x \in X(k) <=> ~ (x \in crc <=> x \in bits \cap (0 .. k - 1))
        BY InSymDiff, SMT
      <4>2. x \in X(k - 1) <=> ~ (x \in crc <=> x \in bits \cap (0 .. (k - 1) - 1))
        BY InSymDiff, SMT
      <4>3. x \in SymDiff(X(k - 1), {k - 1}) <=> ~ (x \in X(k - 1) <=> x = k - 1)
        BY InSymDiff, SMT
      <4>4. x \in bits \cap (0 .. k - 1) <=> x \in bits \cap (0 .. (k - 1) - 1) \/ x = k - 1
        BY <3>1
      <4>5. ~ (x \in bits \cap (0 .. (k - 1) - 1) /\ x = k - 1)
        BY <3>2
      <4> QED
        BY <4>1, <4>2, <4>3, <4>4, <4>5, PTL
    <3> HIDE DEF X
    <3>4. X(k) = SymDiff(X(k - 1), {k - 1})
      BY <3>3, SameElements
    <3>5. {k - 1} \in Register
      BY <2>1, SMT DEF Register
    <3>6. PICK g : Rolls(g, X(k - 1))
      BY <2>3, RoundsRolls
    <3>7. PICK h : Rolls(h, {k - 1})
      BY <3>5, RoundsRolls
    <3>8. f[k - 1] = SymDiff(g[k - 1], h[k - 1])
      <4>1. Adds(f, g, h)
        BY <2>3, <3>4, <3>5, <3>6, <3>7, RollsLinear
      <4> QED
        BY <2>1, <4>1 DEF Adds
    <3>9. h[k - 1] = {0}
      <4>1. From({k - 1}, k - 1) /\ k - 1 \in 0 .. k - 1
        BY SMT DEF From
      <4>2. h[k - 1] = Shifted({k - 1}, k - 1)
        <5>1. Shifts(h, {k - 1}, k - 1)
          BY <2>1, <3>5, <3>7, <4>1, RollsShift
        <5> QED
          BY <4>1, <5>1 DEF Shifts
      <4>3. {k - 1} \in SUBSET Nat /\ k - 1 \in Nat
        BY SMT
      <4>4. \A x : x \in Shifted({k - 1}, k - 1) <=> x \in Nat /\ x + (k - 1) \in {k - 1}
        BY <4>3, InShifted
      <4>5. \A x : x \in Shifted({k - 1}, k - 1) <=> x \in {0}
        <5>1. \A x \in Nat : x + (k - 1) = k - 1 <=> x = 0
          BY <4>3, SMT
        <5>2. 0 \in Nat
          BY SMT
        <5> QED
          BY <4>4, <5>1, <5>2
      <4> QED
        BY <4>2, <4>5, SameElements
    <3>10. f[k - 1] = SymDiff(A[k - 1], {0})
      BY <2>4, <3>6, <3>8, <3>9
    <3>11. DivideBit[<<A[k - 1], k - 1 \in bits>>] = Round[SymDiff(A[k - 1], {0})]
      BY <2>3, <2>6, DivideByOne
    <3> QED
      BY <2>2, <3>10, <3>11
  <2> QED
    BY <2>5, <2>6
<1>5. 8 \in Nat /\ 8 \in 0 .. 8
  BY SMT
<1>6. 8 \in T
  <2> HIDE DEF T
  <2> QED
    <3>1. \A k \in 0 .. 8 : k \in T
      BY <1>3, <1>4, <1>5, BoundedInduction
    <3> QED
      BY <1>5, <3>1
<1>7. bits \cap (0 .. 8 - 1) = bits
  <2>1. 8 - 1 = 7
    BY SMT
  <2> QED
    BY <2>1
<1>8. X(8) = SymDiff(crc, bits)
  BY <1>7
<1>9. PICK f : Rolls(f, X(8)) /\ Rounds(X(8), 8) = f[8]
  BY <1>2, <1>5, RoundsRolls
<1>10. f[8] = A[8]
  BY <1>6, <1>9
<1> QED
  BY <1>1, <1>8, <1>9, <1>10

\* The loop's body, with the table, divides by a byte.
LEMMA UpdateDivides ==
    ASSUME NEW crc \in Register, NEW b \in Byte
    PROVE  /\ Update[<<crc, b>>] = DivideByte[<<crc, b>>]
           /\ Update[<<crc, b>>] \in Register
<1> DEFINE bits == Bits(b)
           low == crc \cap (0 .. 7)
           high == crc \cap (8 .. 31)
           index == SymDiff(low, bits)
<1>1. Update[<<crc, b>>] = SymDiff(kTable[index], Shifted(crc, 8))
  BY DEF Update
<1>2. DivideByte[<<crc, b>>] = DivideBits(crc, bits)
  BY DEF DivideByte
<1>3. bits \in SUBSET (0 .. 7)
  BY DEF Bits
<1> HIDE DEF bits
<1>4. index \in SUBSET (0 .. 7)
  BY <1>3 DEF SymDiff
<1>5. kTable[index] = Rounds(index, 8)
  BY <1>4 DEF kTable, make_table
<1>6. index \in Register /\ high \in Register
  <2>1. (0 .. 7) \subseteq (0 .. 31)
    BY SMT
  <2> QED
    BY <1>4, <2>1 DEF Register
<1>7. SymDiff(crc, bits) = SymDiff(index, high)
  <2>1. ASSUME NEW x PROVE x \in SymDiff(crc, bits) <=> x \in SymDiff(index, high)
    <3>1. x \in crc <=> x \in low \/ x \in high
      <4>1. x \in 0 .. 31 => x \in 0 .. 7 \/ x \in 8 .. 31
        BY SMT
      <4> QED
        BY <4>1 DEF Register
    <3>2. ~ (x \in low /\ x \in high) /\ ~ (x \in bits /\ x \in high)
      BY <1>3, SMT
    <3> HIDE DEF low, high
    <3>3. x \in index <=> ~ (x \in low <=> x \in bits)
      BY InSymDiff, SMT
    <3> HIDE DEF index
    <3>4. x \in SymDiff(crc, bits) <=> ~ (x \in crc <=> x \in bits)
      BY InSymDiff, SMT
    <3>5. x \in SymDiff(index, high) <=> ~ (x \in index <=> x \in high)
      BY InSymDiff, SMT
    <3> QED
      BY <3>1, <3>2, <3>3, <3>4, <3>5, PTL
  <2> QED
    BY <2>1, SameElements
<1>8. Shifted(high, 8) = Shifted(crc, 8)
  <2>1. crc \in SUBSET Nat /\ high \in SUBSET Nat /\ 8 \in Nat
    BY SMT DEF Register
  <2>2. ASSUME NEW x PROVE x \in Shifted(high, 8) <=> x \in Shifted(crc, 8)
    <3>1. x \in Shifted(high, 8) <=> x \in Nat /\ x + 8 \in high
      BY <2>1, InShifted
    <3>2. x \in Shifted(crc, 8) <=> x \in Nat /\ x + 8 \in crc
      BY <2>1, InShifted
    <3>3. x \in Nat => (x + 8 \in crc <=> x + 8 \in high)
      BY SMT DEF Register
    <3> QED
      BY <3>1, <3>2, <3>3
  <2> QED
    BY <2>2, SameElements
<1>9. From(high, 8) /\ 8 \in 0 .. 8
  BY SMT DEF From
<1> HIDE DEF index, high
<1>10. SymDiff(index, high) \in Register
  BY <1>6, SymDiffType
<1>11. PICK f : Rolls(f, index) /\ Rounds(index, 8) = f[8]
  BY <1>6, RoundsRolls
<1>12. PICK g : Rolls(g, high)
  BY <1>6, RoundsRolls
<1>13. PICK h : Rolls(h, SymDiff(index, high)) /\ Rounds(SymDiff(index, high), 8) = h[8]
  BY <1>10, RoundsRolls
<1>14. h[8] = SymDiff(f[8], g[8])
  <2>1. Adds(h, f, g)
    BY <1>6, <1>11, <1>12, <1>13, RollsLinear
  <2> QED
    BY <1>9, <2>1 DEF Adds
<1>15. g[8] = Shifted(high, 8)
  <2>1. Shifts(g, high, 8)
    BY <1>6, <1>9, <1>12, RollsShift
  <2> QED
    BY <1>9, <2>1 DEF Shifts
<1>16. DivideBits(crc, bits) = Rounds(SymDiff(crc, bits), 8)
  BY <1>3, DivideBitsIs
<1>17. Update[<<crc, b>>] = h[8]
  BY <1>1, <1>5, <1>8, <1>11, <1>14, <1>15
<1>18. DivideByte[<<crc, b>>] = h[8]
  BY <1>2, <1>7, <1>13, <1>16
<1>19. h[8] \in Register
  BY <1>9, <1>13 DEF Rolls
<1> QED
  BY <1>17, <1>18, <1>19

\* The loop of compute.
IsComputation(f, data) ==
    /\ f \in [0 .. Len(data) -> Register] /\ f[0] = (0 .. 31)
    /\ \A i \in 1 .. Len(data) : f[i] = Update[<<f[i - 1], data[i]>>]
    /\ compute(data) = SymDiff(f[Len(data)], 0 .. 31)

LEMMA ComputeRun ==
    ASSUME NEW data \in Seq(Byte)
    PROVE  \E f : IsComputation(f, data)
<1> DEFINE Body(f) == [i \in 0 .. Len(data) |-> IF i = 0 THEN (0 .. 31) ELSE Update[<<f[i - 1], data[i]>>]]
           step == [i \in 1 .. Len(data) |-> [x \in Register |-> Update[<<x, data[i]>>]]]
           R == CHOOSE f : f = Body(f)
<1>1. Len(data) \in Nat /\ (0 .. 31) \in Register
  BY SMT DEF Register
<1>2. \A i \in 1 .. Len(data), x \in Register : Update[<<x, data[i]>>] \in Register
  <2> SUFFICES ASSUME NEW i \in 1 .. Len(data), NEW x \in Register
               PROVE  Update[<<x, data[i]>>] \in Register
    OBVIOUS
  <2>1. data[i] \in Byte
    BY SMT
  <2> QED
    BY <2>1, UpdateDivides
<1>3. step \in [1 .. Len(data) -> [Register -> Register]]
  BY <1>2
<1>4. \A i \in 1 .. Len(data), x \in Register : step[i][x] = Update[<<x, data[i]>>]
  OBVIOUS
<1>5. PICK g : g \in Runs(Register, (0 .. 31), Len(data), step)
  <2> HIDE DEF step
  <2> QED
    <3>1. Runs(Register, (0 .. 31), Len(data), step) # {}
      BY <1>1, <1>3, FiniteRecursion
    <3> QED
      BY <3>1
<1>6. g = Body(g)
  <2>1. /\ g \in [0 .. Len(data) -> Register] /\ g[0] = (0 .. 31)
        /\ \A i \in 1 .. Len(data) : g[i] = step[i][g[i - 1]]
    BY <1>5 DEF Runs
  <2> HIDE DEF step
  <2>2. ASSUME NEW i \in 0 .. Len(data) PROVE g[i] = IF i = 0 THEN (0 .. 31) ELSE Update[<<g[i - 1], data[i]>>]
    <3>1. CASE i = 0
      BY <2>1, <3>1
    <3>2. CASE i # 0
      <4>1. i \in 1 .. Len(data) /\ i - 1 \in 0 .. Len(data)
        BY <1>1, <3>2, SMT
      <4>2. g[i - 1] \in Register /\ g[i] = step[i][g[i - 1]]
        BY <2>1, <4>1
      <4> QED
        BY <1>4, <3>2, <4>1, <4>2
    <3> QED
      BY <3>1, <3>2
  <2> QED
    BY <2>1, <2>2
<1>7. R = Body(R)
  <2> HIDE DEF Body
  <2> QED
    BY <1>6
<1>8. compute(data) = SymDiff(R[Len(data)], 0 .. 31)
  BY DEF compute
<1> HIDE DEF R
<1>9. 0 \in 0 .. Len(data) /\ \A i \in 1 .. Len(data) : i \in 0 .. Len(data) /\ i # 0
  BY <1>1, SMT
<1>10. R = [i \in 0 .. Len(data) |-> R[i]] /\ R[0] = (0 .. 31)
  BY <1>7, <1>9
<1>11. \A i \in 1 .. Len(data) : R[i] = Update[<<R[i - 1], data[i]>>]
  BY <1>7, <1>9
<1>12. \A i \in 1 .. Len(data) : R[i - 1] \in Register => R[i] = step[i][R[i - 1]]
  <2> HIDE DEF step
  <2> QED
    BY <1>4, <1>11
<1>13. R \in Runs(Register, (0 .. 31), Len(data), step)
  <2> HIDE DEF step
  <2>1. Follows(R, Register, (0 .. 31), Len(data), step)
    BY <1>10, <1>12 DEF Follows
  <2> QED
    BY <1>1, <1>3, <2>1, FollowsRuns
<1>14. R \in [0 .. Len(data) -> Register]
  BY <1>13 DEF Runs
<1> QED
  BY <1>8, <1>10, <1>11, <1>14 DEF IsComputation

\* The division of all bytes.
IsRemainder(f, bytes) ==
    /\ f \in [0 .. Len(bytes) -> Register] /\ f[0] = (0 .. 31)
    /\ \A i \in 1 .. Len(bytes) : f[i] = DivideByte[<<f[i - 1], bytes[i]>>]
    /\ Remainder(bytes) = f[Len(bytes)]

LEMMA RemainderRun ==
    ASSUME NEW bytes \in Seq(Byte)
    PROVE  \E f : IsRemainder(f, bytes)
<1> DEFINE Body(f) == [i \in 0 .. Len(bytes) |-> IF i = 0 THEN (0 .. 31) ELSE DivideByte[<<f[i - 1], bytes[i]>>]]
           step == [i \in 1 .. Len(bytes) |-> [x \in Register |-> DivideByte[<<x, bytes[i]>>]]]
           R == CHOOSE f : f = Body(f)
<1>1. Len(bytes) \in Nat /\ (0 .. 31) \in Register
  BY SMT DEF Register
<1>2. \A i \in 1 .. Len(bytes), x \in Register : DivideByte[<<x, bytes[i]>>] \in Register
  <2> SUFFICES ASSUME NEW i \in 1 .. Len(bytes), NEW x \in Register
               PROVE  DivideByte[<<x, bytes[i]>>] \in Register
    OBVIOUS
  <2>1. bytes[i] \in Byte
    BY SMT
  <2> QED
    BY <2>1, UpdateDivides
<1>3. step \in [1 .. Len(bytes) -> [Register -> Register]]
  BY <1>2
<1>4. \A i \in 1 .. Len(bytes), x \in Register : step[i][x] = DivideByte[<<x, bytes[i]>>]
  OBVIOUS
<1>5. PICK g : g \in Runs(Register, (0 .. 31), Len(bytes), step)
  <2> HIDE DEF step
  <2> QED
    <3>1. Runs(Register, (0 .. 31), Len(bytes), step) # {}
      BY <1>1, <1>3, FiniteRecursion
    <3> QED
      BY <3>1
<1>6. g = Body(g)
  <2>1. /\ g \in [0 .. Len(bytes) -> Register] /\ g[0] = (0 .. 31)
        /\ \A i \in 1 .. Len(bytes) : g[i] = step[i][g[i - 1]]
    BY <1>5 DEF Runs
  <2> HIDE DEF step
  <2>2. ASSUME NEW i \in 0 .. Len(bytes) PROVE g[i] = IF i = 0 THEN (0 .. 31) ELSE DivideByte[<<g[i - 1], bytes[i]>>]
    <3>1. CASE i = 0
      BY <2>1, <3>1
    <3>2. CASE i # 0
      <4>1. i \in 1 .. Len(bytes) /\ i - 1 \in 0 .. Len(bytes)
        BY <1>1, <3>2, SMT
      <4>2. g[i - 1] \in Register /\ g[i] = step[i][g[i - 1]]
        BY <2>1, <4>1
      <4> QED
        BY <1>4, <3>2, <4>1, <4>2
    <3> QED
      BY <3>1, <3>2
  <2> QED
    BY <2>1, <2>2
<1>7. R = Body(R)
  <2> HIDE DEF Body
  <2> QED
    BY <1>6
<1>8. Remainder(bytes) = R[Len(bytes)]
  BY DEF Remainder
<1> HIDE DEF R
<1>9. 0 \in 0 .. Len(bytes) /\ \A i \in 1 .. Len(bytes) : i \in 0 .. Len(bytes) /\ i # 0
  BY <1>1, SMT
<1>10. R = [i \in 0 .. Len(bytes) |-> R[i]] /\ R[0] = (0 .. 31)
  BY <1>7, <1>9
<1>11. \A i \in 1 .. Len(bytes) : R[i] = DivideByte[<<R[i - 1], bytes[i]>>]
  BY <1>7, <1>9
<1>12. \A i \in 1 .. Len(bytes) : R[i - 1] \in Register => R[i] = step[i][R[i - 1]]
  <2> HIDE DEF step
  <2> QED
    BY <1>4, <1>11
<1>13. R \in Runs(Register, (0 .. 31), Len(bytes), step)
  <2> HIDE DEF step
  <2>1. Follows(R, Register, (0 .. 31), Len(bytes), step)
    BY <1>10, <1>12 DEF Follows
  <2> QED
    BY <1>1, <1>3, <2>1, FollowsRuns
<1>14. R \in [0 .. Len(bytes) -> Register]
  BY <1>13 DEF Runs
<1> QED
  BY <1>8, <1>10, <1>11, <1>14 DEF IsRemainder

\* The table-driven loop computes the CRC32 that the division defines, of any
\* bytes (crc32.cpp:8).
THEOREM TableMatchesDivision ==
    \A data \in Seq(Byte) : compute(data) = (0 .. 31) \ Remainder(data)
<1> SUFFICES ASSUME NEW data \in Seq(Byte) PROVE compute(data) = (0 .. 31) \ Remainder(data)
  OBVIOUS
<1> DEFINE n == Len(data)
<1>1. PICK f : IsComputation(f, data)
  BY ComputeRun
<1>2. PICK g : IsRemainder(g, data)
  BY RemainderRun
<1> DEFINE T == {i \in 0 .. n : f[i] = g[i]}
<1>3. n \in Nat /\ n \in 0 .. n /\ 0 \in 0 .. n
  BY SMT
<1>4. 0 \in T
  <2>1. f[0] = g[0]
    BY <1>1, <1>2 DEF IsComputation, IsRemainder
  <2> QED
    BY <1>3, <2>1
<1>5. ASSUME NEW i \in 1 .. n, i - 1 \in T PROVE i \in T
  <2>1. i \in 0 .. n /\ i - 1 \in 0 .. n /\ data[i] \in Byte
    BY SMT
  <2>2. f[i - 1] \in Register /\ f[i] = Update[<<f[i - 1], data[i]>>]
    BY <1>1, <2>1 DEF IsComputation
  <2>3. g[i] = DivideByte[<<g[i - 1], data[i]>>]
    BY <1>2 DEF IsRemainder
  <2>4. Update[<<f[i - 1], data[i]>>] = DivideByte[<<f[i - 1], data[i]>>]
    BY <2>1, <2>2, UpdateDivides
  <2>5. f[i - 1] = g[i - 1]
    BY <1>5
  <2> QED
    BY <2>1, <2>2, <2>3, <2>4, <2>5
<1>6. f[n] = g[n]
  <2>1. \A i \in 0 .. n : i \in T
    <3> HIDE DEF T, n
    <3> QED
      BY <1>3, <1>4, <1>5, BoundedInduction
  <2> QED
    BY <1>3, <2>1
<1>7. compute(data) = SymDiff(f[n], 0 .. 31) /\ f[n] \in Register
  BY <1>1, <1>3 DEF IsComputation
<1>8. Remainder(data) = g[n]
  BY <1>2 DEF IsRemainder
<1> QED
  BY <1>6, <1>7, <1>8 DEF SymDiff, Register

----------------------------------------------------------------------------
(* put and get. *)

LEMMA ByteSplit ==
    ASSUME NEW x \in Int
    PROVE  /\ x \div 256 \in Int /\ x % 256 \in Int
           /\ 0 <= x % 256 /\ x % 256 <= 255
           /\ x = 256 * (x \div 256) + (x % 256)
  BY SMT

\* What put shifts out.
IsPut(f, value, width) ==
    /\ f \in [0 .. width -> Int] /\ f[0] = value
    /\ \A i \in 1 .. width : f[i] = f[i - 1] \div 256
    /\ put(value, width) = [i \in 1 .. width |-> f[i - 1] % 256]

LEMMA PutRun ==
    ASSUME NEW value \in Int, NEW width \in Nat
    PROVE  \E f : IsPut(f, value, width)
<1> DEFINE Body(f) == [i \in 0 .. width |-> IF i = 0 THEN value ELSE f[i - 1] \div 256]
           step == [i \in 1 .. width |-> [x \in Int |-> x \div 256]]
           R == CHOOSE f : f = Body(f)
<1>1. width \in Nat /\ value \in Int
  BY SMT
<1>2. \A i \in 1 .. width, x \in Int : x \div 256 \in Int
  BY ByteSplit
<1>3. step \in [1 .. width -> [Int -> Int]]
  BY <1>2
<1>4. \A i \in 1 .. width, x \in Int : step[i][x] = x \div 256
  OBVIOUS
<1>5. PICK g : g \in Runs(Int, value, width, step)
  <2> HIDE DEF step
  <2> QED
    <3>1. Runs(Int, value, width, step) # {}
      BY <1>1, <1>3, FiniteRecursion
    <3> QED
      BY <3>1
<1>6. g = Body(g)
  <2>1. /\ g \in [0 .. width -> Int] /\ g[0] = value
        /\ \A i \in 1 .. width : g[i] = step[i][g[i - 1]]
    BY <1>5 DEF Runs
  <2> HIDE DEF step
  <2>2. ASSUME NEW i \in 0 .. width PROVE g[i] = IF i = 0 THEN value ELSE g[i - 1] \div 256
    <3>1. CASE i = 0
      BY <2>1, <3>1
    <3>2. CASE i # 0
      <4>1. i \in 1 .. width /\ i - 1 \in 0 .. width
        BY <1>1, <3>2, SMT
      <4>2. g[i - 1] \in Int /\ g[i] = step[i][g[i - 1]]
        BY <2>1, <4>1
      <4> QED
        BY <1>4, <3>2, <4>1, <4>2, SMT
    <3> QED
      BY <3>1, <3>2
  <2> QED
    BY <2>1, <2>2, SMT
<1>7. R = Body(R)
  <2> HIDE DEF Body
  <2> QED
    BY <1>6
<1>8. put(value, width) = [i \in 1 .. width |-> R[i - 1] % 256]
  BY DEF put
<1> HIDE DEF R
<1>9. 0 \in 0 .. width /\ \A i \in 1 .. width : i \in 0 .. width /\ i # 0
  BY <1>1, SMT
<1>10. R = [i \in 0 .. width |-> R[i]] /\ R[0] = value
  BY <1>7, <1>9
<1>11. \A i \in 1 .. width : R[i] = R[i - 1] \div 256
  BY <1>7, <1>9
<1>12. \A i \in 1 .. width : R[i - 1] \in Int => R[i] = step[i][R[i - 1]]
  <2> HIDE DEF step
  <2> QED
    BY <1>4, <1>11, SMT
<1>13. R \in Runs(Int, value, width, step)
  <2> HIDE DEF step
  <2>1. Follows(R, Int, value, width, step)
    BY <1>10, <1>12 DEF Follows
  <2> QED
    BY <1>1, <1>3, <2>1, FollowsRuns
<1>14. R \in [0 .. width -> Int]
  BY <1>13 DEF Runs
<1> QED
  BY <1>8, <1>10, <1>11, <1>14 DEF IsPut

\* What get has read after i of the bytes.
IsGet(f, bytes, offset, width) ==
    /\ f \in [0 .. width -> Nat] /\ f[0] = 0
    /\ \A i \in 1 .. width : f[i] = bytes[offset + width + 1 - i] + 256 * f[i - 1]
    /\ get(bytes, offset, width) = f[width]

LEMMA GetRun ==
    ASSUME NEW bytes, NEW offset, NEW width \in Nat,
           \A i \in 1 .. width : bytes[offset + width + 1 - i] \in Byte
    PROVE  \E f : IsGet(f, bytes, offset, width)
<1> DEFINE Body(f) == [i \in 0 .. width |-> IF i = 0 THEN 0 ELSE bytes[offset + width + 1 - i] + 256 * f[i - 1]]
           step == [i \in 1 .. width |-> [x \in Nat |-> bytes[offset + width + 1 - i] + 256 * x]]
           R == CHOOSE f : f = Body(f)
<1>1. width \in Nat /\ 0 \in Nat
  BY SMT
<1>2. \A i \in 1 .. width, x \in Nat : bytes[offset + width + 1 - i] + 256 * x \in Nat
  BY SMT DEF Byte
<1>3. step \in [1 .. width -> [Nat -> Nat]]
  BY <1>2
<1>4. \A i \in 1 .. width, x \in Nat : step[i][x] = bytes[offset + width + 1 - i] + 256 * x
  OBVIOUS
<1>5. PICK g : g \in Runs(Nat, 0, width, step)
  <2> HIDE DEF step
  <2> QED
    <3>1. Runs(Nat, 0, width, step) # {}
      BY <1>1, <1>3, FiniteRecursion
    <3> QED
      BY <3>1
<1>6. g = Body(g)
  <2>1. /\ g \in [0 .. width -> Nat] /\ g[0] = 0
        /\ \A i \in 1 .. width : g[i] = step[i][g[i - 1]]
    BY <1>5 DEF Runs
  <2> HIDE DEF step
  <2>2. ASSUME NEW i \in 0 .. width PROVE g[i] = IF i = 0 THEN 0 ELSE bytes[offset + width + 1 - i] + 256 * g[i - 1]
    <3>1. CASE i = 0
      BY <2>1, <3>1
    <3>2. CASE i # 0
      <4>1. i \in 1 .. width /\ i - 1 \in 0 .. width
        BY <1>1, <3>2, SMT
      <4>2. g[i - 1] \in Nat /\ g[i] = step[i][g[i - 1]]
        BY <2>1, <4>1
      <4> QED
        BY <1>4, <3>2, <4>1, <4>2, SMT
    <3> QED
      BY <3>1, <3>2
  <2> QED
    BY <2>1, <2>2, SMT
<1>7. R = Body(R)
  <2> HIDE DEF Body
  <2> QED
    BY <1>6
<1>8. get(bytes, offset, width) = R[width]
  BY DEF get
<1> HIDE DEF R
<1>9. 0 \in 0 .. width /\ \A i \in 1 .. width : i \in 0 .. width /\ i # 0
  BY <1>1, SMT
<1>10. R = [i \in 0 .. width |-> R[i]] /\ R[0] = 0
  BY <1>7, <1>9
<1>11. \A i \in 1 .. width : R[i] = bytes[offset + width + 1 - i] + 256 * R[i - 1]
  BY <1>7, <1>9
<1>12. \A i \in 1 .. width : R[i - 1] \in Nat => R[i] = step[i][R[i - 1]]
  <2> HIDE DEF step
  <2> QED
    BY <1>4, <1>11, SMT
<1>13. R \in Runs(Nat, 0, width, step)
  <2> HIDE DEF step
  <2>1. Follows(R, Nat, 0, width, step)
    BY <1>10, <1>12 DEF Follows
  <2> QED
    BY <1>1, <1>3, <2>1, FollowsRuns
<1>14. R \in [0 .. width -> Nat]
  BY <1>13 DEF Runs
<1> QED
  BY <1>8, <1>10, <1>11, <1>14 DEF IsGet

\* The number of values of the last i bytes.
IsValues(f, width) ==
    /\ f \in [0 .. width -> Nat] /\ f[0] = 1
    /\ \A i \in 1 .. width : f[i] = 256 * f[i - 1]
    /\ Values(width) = f[width]

LEMMA ValuesRun ==
    ASSUME NEW width \in Nat
    PROVE  \E f : IsValues(f, width)
<1> DEFINE Body(f) == [i \in 0 .. width |-> IF i = 0 THEN 1 ELSE 256 * f[i - 1]]
           step == [i \in 1 .. width |-> [x \in Nat |-> 256 * x]]
           R == CHOOSE f : f = Body(f)
<1>1. width \in Nat /\ 1 \in Nat
  BY SMT
<1>2. \A i \in 1 .. width, x \in Nat : 256 * x \in Nat
  BY SMT
<1>3. step \in [1 .. width -> [Nat -> Nat]]
  BY <1>2
<1>4. \A i \in 1 .. width, x \in Nat : step[i][x] = 256 * x
  OBVIOUS
<1>5. PICK g : g \in Runs(Nat, 1, width, step)
  <2> HIDE DEF step
  <2> QED
    <3>1. Runs(Nat, 1, width, step) # {}
      BY <1>1, <1>3, FiniteRecursion
    <3> QED
      BY <3>1
<1>6. g = Body(g)
  <2>1. /\ g \in [0 .. width -> Nat] /\ g[0] = 1
        /\ \A i \in 1 .. width : g[i] = step[i][g[i - 1]]
    BY <1>5 DEF Runs
  <2> HIDE DEF step
  <2>2. ASSUME NEW i \in 0 .. width PROVE g[i] = IF i = 0 THEN 1 ELSE 256 * g[i - 1]
    <3>1. CASE i = 0
      BY <2>1, <3>1
    <3>2. CASE i # 0
      <4>1. i \in 1 .. width /\ i - 1 \in 0 .. width
        BY <1>1, <3>2, SMT
      <4>2. g[i - 1] \in Nat /\ g[i] = step[i][g[i - 1]]
        BY <2>1, <4>1
      <4> QED
        BY <1>4, <3>2, <4>1, <4>2, SMT
    <3> QED
      BY <3>1, <3>2
  <2> QED
    BY <2>1, <2>2, SMT
<1>7. R = Body(R)
  <2> HIDE DEF Body
  <2> QED
    BY <1>6
<1>8. Values(width) = R[width]
  BY DEF Values
<1> HIDE DEF R
<1>9. 0 \in 0 .. width /\ \A i \in 1 .. width : i \in 0 .. width /\ i # 0
  BY <1>1, SMT
<1>10. R = [i \in 0 .. width |-> R[i]] /\ R[0] = 1
  BY <1>7, <1>9
<1>11. \A i \in 1 .. width : R[i] = 256 * R[i - 1]
  BY <1>7, <1>9
<1>12. \A i \in 1 .. width : R[i - 1] \in Nat => R[i] = step[i][R[i - 1]]
  <2> HIDE DEF step
  <2> QED
    BY <1>4, <1>11, SMT
<1>13. R \in Runs(Nat, 1, width, step)
  <2> HIDE DEF step
  <2>1. Follows(R, Nat, 1, width, step)
    BY <1>10, <1>12 DEF Follows
  <2> QED
    BY <1>1, <1>3, <2>1, FollowsRuns
<1>14. R \in [0 .. width -> Nat]
  BY <1>13 DEF Runs
<1> QED
  BY <1>8, <1>10, <1>11, <1>14 DEF IsValues

LEMMA PutType ==
    ASSUME NEW value \in Int, NEW width \in Nat
    PROVE  put(value, width) \in Seq(Byte) /\ Len(put(value, width)) = width
<1>1. PICK f : IsPut(f, value, width)
  BY PutRun
<1>2. \A i \in 1 .. width : f[i - 1] % 256 \in Byte
  <2> SUFFICES ASSUME NEW i \in 1 .. width PROVE f[i - 1] % 256 \in Byte
    OBVIOUS
  <2>1. i - 1 \in 0 .. width
    BY SMT
  <2>2. f[i - 1] \in Int
    BY <1>1, <2>1 DEF IsPut
  <2> QED
    BY <2>2, ByteSplit, SMT DEF Byte
<1>3. put(value, width) = [i \in 1 .. width |-> f[i - 1] % 256]
  BY <1>1 DEF IsPut
<1> QED
  BY <1>2, <1>3, SMT

\* The bytes of s follow offset.
Holds(bytes, offset, s) == \A j \in 1 .. Len(s) : bytes[offset + j] = s[j]

\* get undoes put up to a multiple of the number of values.
LEMMA GetPut ==
    ASSUME NEW value \in Int, NEW width \in Nat, NEW bytes, NEW offset \in Nat,
           Holds(bytes, offset, put(value, width)),
           NEW p, IsPut(p, value, width), p[width] \in {0, -1}
    PROVE  get(bytes, offset, width) = IF p[width] = 0 THEN value ELSE value + Values(width)
<1>1. /\ p \in [0 .. width -> Int] /\ p[0] = value
      /\ \A i \in 1 .. width : p[i] = p[i - 1] \div 256
      /\ put(value, width) = [i \in 1 .. width |-> p[i - 1] % 256]
  BY DEF IsPut
<1>2. \A j \in 1 .. width : bytes[offset + j] = p[j - 1] % 256
  <2>1. Len(put(value, width)) = width
    BY PutType
  <2> QED
    BY <1>1, <2>1 DEF Holds
<1>3. ASSUME NEW i \in 1 .. width
      PROVE  /\ width - i \in 0 .. width /\ width - (i - 1) \in 1 .. width /\ i - 1 \in 0 .. width
             /\ p[width - i] \in Int /\ p[width - (i - 1)] = p[width - i] \div 256
             /\ bytes[offset + width + 1 - i] = p[width - i] % 256
  <2> DEFINE j == width + 1 - i
  <2>1. /\ j \in 1 .. width /\ offset + width + 1 - i = offset + j /\ j - 1 = width - i
        /\ width - (i - 1) = j /\ width - i \in 0 .. width /\ i - 1 \in 0 .. width
    BY SMT
  <2> HIDE DEF j
  <2>2. bytes[offset + j] = p[j - 1] % 256 /\ p[j] = p[j - 1] \div 256
    BY <1>1, <1>2, <2>1
  <2>3. p[width - i] \in Int
    BY <1>1, <2>1
  <2> QED
    BY <2>1, <2>2, <2>3
<1>4. ASSUME NEW i \in 1 .. width PROVE bytes[offset + width + 1 - i] \in Byte
  <2>1. p[width - i] \in Int /\ bytes[offset + width + 1 - i] = p[width - i] % 256
    BY <1>3
  <2> QED
    BY <2>1, ByteSplit, SMT DEF Byte
<1>5. PICK g : IsGet(g, bytes, offset, width)
  BY <1>4, GetRun
<1>6. PICK v : IsValues(v, width)
  BY ValuesRun
<1> DEFINE q == p[width]
           T == {i \in 0 .. width : g[i] = IF q = 0 THEN p[width - i] ELSE p[width - i] + v[i]}
<1>7. 0 \in T
  <2>1. g[0] = 0 /\ v[0] = 1
    BY <1>5, <1>6 DEF IsGet, IsValues
  <2>2. width - 0 = width /\ 0 \in 0 .. width
    BY SMT
  <2> QED
    BY <2>1, <2>2, SMT
<1>8. ASSUME NEW i \in 1 .. width, i - 1 \in T PROVE i \in T
  <2> DEFINE x == p[width - i]
             y == p[width - (i - 1)]
  <2>1. /\ x \in Int /\ y = x \div 256 /\ bytes[offset + width + 1 - i] = x % 256
        /\ i \in 0 .. width /\ i - 1 \in 0 .. width
    <3>1. i \in 0 .. width
      BY SMT
    <3> QED
      BY <1>3, <3>1
  <2>2. g[i] = (x % 256) + 256 * g[i - 1]
    <3>1. g[i] = bytes[offset + width + 1 - i] + 256 * g[i - 1]
      BY <1>5 DEF IsGet
    <3> QED
      BY <2>1, <3>1
  <2>3. v[i] = 256 * v[i - 1] /\ v[i - 1] \in Nat
    BY <1>6, <2>1 DEF IsValues
  <2>4. g[i - 1] = IF q = 0 THEN y ELSE y + v[i - 1]
    BY <1>8
  <2> HIDE DEF x, y, q
  <2>5. y \in Int /\ x % 256 \in Int /\ x = 256 * y + (x % 256)
    BY <2>1, ByteSplit, SMT
  <2> DEFINE r == x % 256
  <2> HIDE DEF r
  <2>6. g[i] = IF q = 0 THEN x ELSE x + v[i]
    <3>1. r \in Int /\ x = 256 * y + r /\ g[i] = r + 256 * g[i - 1]
      BY <2>2, <2>5 DEF r
    <3>2. CASE q = 0
      BY <2>4, <2>5, <3>1, <3>2, SMT
    <3>3. CASE q # 0
      <4>1. g[i - 1] = y + v[i - 1]
        BY <2>4, <3>3
      <4>2. g[i] = x + v[i]
        <5> DEFINE w == v[i - 1]
        <5> HIDE DEF w
        <5>1. y \in Int /\ w \in Int
          BY <2>3, <2>5, SMT DEF w
        <5>2. r + 256 * (y + w) = (256 * y + r) + 256 * w
          BY <3>1, <5>1, SMT
        <5> QED
          BY <2>3, <3>1, <4>1, <5>2 DEF w
      <4> QED
        BY <3>3, <4>2
    <3> QED
      BY <3>2, <3>3
  <2> QED
    BY <2>1, <2>6 DEF x
<1>9. width \in T
  <2>1. width \in 0 .. width
    BY SMT
  <2>2. \A i \in 0 .. width : i \in T
    <3> HIDE DEF T
    <3> QED
      BY <1>7, <1>8, BoundedInduction
  <2> QED
    BY <2>1, <2>2
<1>10. width - width = 0
  BY SMT
<1> QED
  BY <1>1, <1>5, <1>6, <1>9, <1>10 DEF IsGet, IsValues

LEMMA GetUnsigned ==
    ASSUME NEW width \in Nat, NEW value \in 0 .. Values(width) - 1, NEW bytes, NEW offset \in Nat,
           Holds(bytes, offset, put(value, width))
    PROVE  get(bytes, offset, width) = value
<1>1. PICK v : IsValues(v, width)
  BY ValuesRun
<1>2. /\ v \in [0 .. width -> Nat] /\ v[0] = 1 /\ Values(width) = v[width]
      /\ \A i \in 1 .. width : v[i] = 256 * v[i - 1]
  BY <1>1 DEF IsValues
<1>3. width \in 0 .. width /\ 0 \in 0 .. width
  BY SMT
<1>4. value \in Int /\ 0 <= value /\ value < v[width]
  BY <1>2, <1>3, SMT
<1>5. PICK p : IsPut(p, value, width)
  BY <1>4, PutRun
<1>6. /\ p \in [0 .. width -> Int] /\ p[0] = value
      /\ \A i \in 1 .. width : p[i] = p[i - 1] \div 256
  BY <1>5 DEF IsPut
<1> DEFINE T == {i \in 0 .. width : 0 <= p[i] /\ p[i] < v[width - i]}
<1>7. 0 \in T
  <2>1. width - 0 = width
    BY SMT
  <2> QED
    BY <1>3, <1>4, <1>6, <2>1
<1>8. ASSUME NEW i \in 1 .. width, i - 1 \in T PROVE i \in T
  <2> DEFINE x == p[i - 1]
             w == v[width - i]
  <2>1. i - 1 \in 0 .. width /\ i \in 0 .. width /\ width - i \in 0 .. width
        /\ width - (i - 1) \in 1 .. width /\ (width - (i - 1)) - 1 = width - i
    BY SMT
  <2>2. x \in Int /\ w \in Nat /\ p[i] = x \div 256 /\ v[width - (i - 1)] = 256 * w
    <3>1. x \in Int /\ w \in Nat
      BY <1>2, <1>6, <2>1, SMT
    <3>2. p[i] = x \div 256
      BY <1>6
    <3>3. v[width - (i - 1)] = 256 * w
      BY <1>2, <2>1
    <3> QED
      BY <3>1, <3>2, <3>3
  <2>3. 0 <= x /\ x < v[width - (i - 1)]
    BY <1>8
  <2> HIDE DEF x, w
  <2>4. /\ x \div 256 \in Int /\ x % 256 \in Int /\ 0 <= x % 256 /\ x % 256 <= 255
        /\ x = 256 * (x \div 256) + (x % 256)
    BY <2>2, ByteSplit, SMT
  <2>5. 0 <= x \div 256 /\ x \div 256 < w
    BY <2>2, <2>3, <2>4, SMT
  <2> QED
    BY <2>1, <2>2, <2>5 DEF w
<1>9. \A i \in 0 .. width : i \in T
  <2> HIDE DEF T
  <2> QED
    BY <1>7, <1>8, BoundedInduction
<1>10. p[width] = 0
  <2>1. width - width = 0
    BY SMT
  <2>2. p[width] \in Int /\ 0 <= p[width] /\ p[width] < v[0]
    BY <1>3, <1>6, <1>9, <2>1
  <2> QED
    BY <1>2, <2>2, SMT
<1>11. p[width] \in {0, -1}
  BY <1>10
<1> QED
  BY <1>4, <1>5, <1>10, <1>11, GetPut

LEMMA GetSigned ==
    ASSUME NEW width \in Nat \ {0}, NEW bytes, NEW offset \in Nat,
           NEW value \in -(Values(width) \div 2) .. Values(width) \div 2 - 1,
           Holds(bytes, offset, put(value, width))
    PROVE  getSigned(bytes, offset, width) = value
<1> DEFINE u == width - 1
<1>0. width \in Nat /\ u \in 0 .. width /\ u \in Nat /\ width \in 1 .. width /\ width - 1 = u
      /\ width \in 0 .. width /\ u \in 0 .. u /\ 0 \in 0 .. u
  BY SMT
<1>1. PICK v : IsValues(v, width)
  BY <1>0, ValuesRun
<1>2. /\ v \in [0 .. width -> Nat] /\ v[0] = 1 /\ Values(width) = v[width]
      /\ \A i \in 1 .. width : v[i] = 256 * v[i - 1]
  BY <1>1 DEF IsValues
<1>3. v[u] \in Nat /\ Values(width) = 256 * v[u]
  BY <1>0, <1>2, SMT
<1>4. value \in Int /\ -(128 * v[u]) <= value /\ value < 128 * v[u]
  <2> DEFINE w == v[u]
             V == Values(width)
  <2>1. value \in -(V \div 2) .. V \div 2 - 1
    BY SMT
  <2> HIDE DEF w, V
  <2>2. w \in Nat /\ V = 256 * w
    BY <1>3, SMT DEF w, V
  <2>3. V \div 2 = 128 * w
    BY <2>2, SMT
  <2>4. value \in Int /\ -(128 * w) <= value /\ value < 128 * w
    BY <2>1, <2>2, <2>3, SMT
  <2> QED
    BY <2>4, SMT DEF w
<1>5. PICK p : IsPut(p, value, width)
  BY <1>0, <1>4, PutRun
<1>6. /\ p \in [0 .. width -> Int] /\ p[0] = value
      /\ \A i \in 1 .. width : p[i] = p[i - 1] \div 256
      /\ put(value, width) = [i \in 1 .. width |-> p[i - 1] % 256]
  BY <1>5 DEF IsPut
<1> DEFINE T == {i \in 0 .. u : /\ -(128 * v[u - i]) <= p[i] /\ p[i] < 128 * v[u - i]
                                /\ (p[i] < 0 <=> value < 0)}
<1>7. 0 \in T
  <2>1. u - 0 = u
    BY <1>0, SMT
  <2>2. /\ -(128 * v[u - 0]) <= p[0] /\ p[0] < 128 * v[u - 0] /\ (p[0] < 0 <=> value < 0)
    BY <1>4, <1>6, <2>1, SMT
  <2> HIDE DEF u
  <2> QED
    BY <1>0, <2>2, SMT
<1>8. ASSUME NEW i \in 1 .. u, i - 1 \in T PROVE i \in T
  <2> DEFINE x == p[i - 1]
             w == v[u - i]
  <2>1. /\ i \in 0 .. u /\ i \in 1 .. width /\ i - 1 \in 0 .. width /\ u - i \in 0 .. width
        /\ u - (i - 1) \in 1 .. width /\ (u - (i - 1)) - 1 = u - i
    BY <1>0, SMT
  <2> HIDE DEF u
  <2>2. x \in Int /\ p[i] = x \div 256 /\ w \in Nat
    <3>1. x \in Int /\ w \in Nat
      BY <1>2, <1>6, <2>1, SMT
    <3>2. p[i] = x \div 256
      BY <1>6, <2>1
    <3> QED
      BY <3>1, <3>2
  <2>3. v[u - (i - 1)] = 256 * w
    BY <1>2, <2>1
  <2>4. -(128 * v[u - (i - 1)]) <= x /\ x < 128 * v[u - (i - 1)] /\ (x < 0 <=> value < 0)
    BY <1>8
  <2> HIDE DEF x, w
  <2>5. /\ x \div 256 \in Int /\ x % 256 \in Int /\ 0 <= x % 256 /\ x % 256 <= 255
        /\ x = 256 * (x \div 256) + (x % 256)
    BY <2>2, ByteSplit, SMT
  <2> DEFINE d == x \div 256
             r == x % 256
  <2>6. d \in Int /\ r \in Int /\ 0 <= r /\ r <= 255 /\ x = 256 * d + r
    BY <2>5, SMT
  <2>7. -(128 * (256 * w)) <= x /\ x < 128 * (256 * w)
    BY <2>3, <2>4, SMT
  <2>8. p[i] = d
    BY <2>2, SMT
  <2> HIDE DEF d, r
  <2>9. -(128 * w) <= d /\ d < 128 * w /\ (d < 0 <=> x < 0)
    <3>1. w \in Nat
      BY <2>2, SMT
    <3>2. -(128 * w) <= d
      BY <2>6, <2>7, <3>1, SMT
    <3>3. d < 128 * w
      BY <2>6, <2>7, <3>1, SMT
    <3>4. d < 0 <=> x < 0
      BY <2>6, SMT
    <3> QED
      BY <3>2, <3>3, <3>4, SMT
  <2> QED
    <3>1. /\ -(128 * v[u - i]) <= p[i] /\ p[i] < 128 * v[u - i]
          /\ (p[i] < 0 <=> value < 0)
      BY <2>4, <2>8, <2>9, SMT DEF w
    <3> QED
      BY <2>1, <3>1, SMT
<1>9. u \in T
  <2>1. \A i \in 0 .. u : i \in T
    <3> HIDE DEF T, u
    <3> QED
      BY <1>0, <1>7, <1>8, BoundedInduction
  <2> HIDE DEF T, u
  <2> QED
    BY <1>0, <2>1
<1> DEFINE x == p[u]
<1>10. x \in Int /\ -128 <= x /\ x < 128 /\ (x < 0 <=> value < 0)
  <2>1. u - u = 0
    BY <1>0, SMT
  <2>2. p[u] \in Int
    BY <1>0, <1>6, SMT
  <2>3. /\ -(128 * v[u - u]) <= p[u] /\ p[u] < 128 * v[u - u]
        /\ (p[u] < 0 <=> value < 0)
    <3> HIDE DEF u
    <3> QED
      BY <1>9
  <2>4. v[u - u] = 1
    BY <1>2, <2>1, SMT
  <2> DEFINE w == v[u - u]
  <2> HIDE DEF u, w
  <2>5. -(128 * w) <= x /\ x < 128 * w /\ (x < 0 <=> value < 0) /\ w = 1
    BY <2>3, <2>4, SMT DEF w
  <2> HIDE DEF x
  <2>6. x \in Int
    BY <2>2 DEF x
  <2> QED
    BY <2>5, <2>6, SMT
<1>11. p[width] = x \div 256 /\ bytes[offset + width] = x % 256
  <2>1. Len(put(value, width)) = width
    BY <1>0, <1>4, PutType
  <2> HIDE DEF u
  <2>2. bytes[offset + width] = put(value, width)[width]
    BY <1>0, <2>1 DEF Holds
  <2>3. put(value, width)[width] = p[u] % 256 /\ p[width] = p[u] \div 256
    BY <1>0, <1>6
  <2> QED
    BY <2>2, <2>3
<1> HIDE DEF x
<1>12. CASE value < 0
  <2>1. x \div 256 = -1 /\ x % 256 >= 128
    BY <1>10, <1>12, SMT
  <2>2. p[width] \in {0, -1} /\ p[width] # 0
    BY <1>11, <2>1, SMT
  <2>3. get(bytes, offset, width) = value + Values(width)
    BY <1>0, <1>4, <1>5, <2>2, GetPut
  <2>4. bytes[offset + width] >= 128
    BY <1>11, <2>1, SMT
  <2>5. (value + Values(width)) - Values(width) = value
    BY <1>3, <1>4, SMT
  <2> QED
    BY <2>3, <2>4, <2>5 DEF getSigned
<1>13. CASE ~ (value < 0)
  <2>1. x \div 256 = 0 /\ ~ (x % 256 >= 128)
    BY <1>10, <1>13, SMT
  <2>2. p[width] \in {0, -1} /\ p[width] = 0
    BY <1>11, <2>1, SMT
  <2>3. get(bytes, offset, width) = value
    BY <1>0, <1>4, <1>5, <2>2, GetPut
  <2>4. ~ (bytes[offset + width] >= 128)
    BY <1>11, <2>1, SMT
  <2> QED
    BY <2>3, <2>4 DEF getSigned
<1> QED
  BY <1>12, <1>13

----------------------------------------------------------------------------
(* Sequences of bytes, one after the other. *)

LEMMA Concatenation ==
    ASSUME NEW s \in Seq(Byte), NEW t \in Seq(Byte)
    PROVE  /\ s \o t \in Seq(Byte) /\ Len(s \o t) = Len(s) + Len(t) /\ Len(s) \in Nat /\ Len(t) \in Nat
           /\ \A j \in 1 .. Len(s) : (s \o t)[j] = s[j]
           /\ \A j \in 1 .. Len(t) : (s \o t)[Len(s) + j] = t[j]
  BY SMT

LEMMA ConcatenationType == \A s, t \in Seq(Byte) : s \o t \in Seq(Byte)
  BY SMT

LEMMA ConcatenationLength == \A s, t \in Seq(Byte) : Len(s \o t) = Len(s) + Len(t)
  BY SMT

LEMMA HoldsConcatenation ==
    ASSUME NEW s \in Seq(Byte), NEW t \in Seq(Byte), NEW bytes, NEW offset \in Nat
    PROVE  Holds(bytes, offset, s \o t) <=> Holds(bytes, offset, s) /\ Holds(bytes, offset + Len(s), t)
<1>1. /\ Len(s \o t) = Len(s) + Len(t) /\ Len(s) \in Nat /\ Len(t) \in Nat
      /\ \A j \in 1 .. Len(s) : (s \o t)[j] = s[j]
      /\ \A j \in 1 .. Len(t) : (s \o t)[Len(s) + j] = t[j]
  BY Concatenation
<1>2. ASSUME Holds(bytes, offset, s \o t) PROVE Holds(bytes, offset, s) /\ Holds(bytes, offset + Len(s), t)
  <2>1. ASSUME NEW j \in 1 .. Len(s) PROVE bytes[offset + j] = s[j]
    <3>1. j \in 1 .. Len(s \o t)
      BY <1>1, SMT
    <3> QED
      BY <1>1, <1>2, <3>1 DEF Holds
  <2>2. ASSUME NEW j \in 1 .. Len(t) PROVE bytes[(offset + Len(s)) + j] = t[j]
    <3>1. Len(s) + j \in 1 .. Len(s \o t) /\ offset + (Len(s) + j) = (offset + Len(s)) + j
      BY <1>1, SMT
    <3> QED
      BY <1>1, <1>2, <3>1 DEF Holds
  <2> QED
    BY <2>1, <2>2 DEF Holds
<1>3. ASSUME Holds(bytes, offset, s), Holds(bytes, offset + Len(s), t) PROVE Holds(bytes, offset, s \o t)
  <2>1. ASSUME NEW j \in 1 .. Len(s \o t) PROVE bytes[offset + j] = (s \o t)[j]
    <3>1. CASE j \in 1 .. Len(s)
      BY <1>1, <1>3, <3>1 DEF Holds
    <3>2. CASE j \notin 1 .. Len(s)
      <4> DEFINE k == j - Len(s)
      <4>1. k \in 1 .. Len(t) /\ Len(s) + k = j /\ (offset + Len(s)) + k = offset + j
        BY <1>1, <3>2, SMT
      <4> HIDE DEF k
      <4> QED
        BY <1>1, <1>3, <4>1 DEF Holds
    <3> QED
      BY <3>1, <3>2
  <2> QED
    BY <2>1 DEF Holds
<1> QED
  BY <1>2, <1>3

\* The bytes that lie at an offset are a subsequence.
LEMMA HeldBytes ==
    ASSUME NEW s \in Seq(Byte), NEW bytes \in Seq(Byte), NEW offset \in Nat,
           Holds(bytes, offset, s), offset + Len(s) <= Len(bytes)
    PROVE  SubSeq(bytes, offset + 1, offset + Len(s)) = s
<1> DEFINE u == SubSeq(bytes, offset + 1, offset + Len(s))
<1>1. Len(s) \in Nat /\ Len(bytes) \in Nat
  BY SMT
<1>2. u \in Seq(Byte) /\ Len(u) = Len(s)
  BY <1>1, SMT
<1>3. ASSUME NEW j \in 1 .. Len(s) PROVE u[j] = s[j]
  <2>1. u[j] = bytes[offset + 1 + j - 1] /\ offset + 1 + j - 1 = offset + j
    BY <1>1, SMT
  <2> QED
    BY <2>1 DEF Holds
<1> HIDE DEF u
<1>4. u = s
  BY <1>2, <1>3, SMT
<1> QED
  BY <1>4, SMT DEF u

\* Every sequence lies at the start of itself.
LEMMA HoldsItself == \A s : Holds(s, 0, s)
<1> SUFFICES ASSUME NEW s, NEW j \in 1 .. Len(s) PROVE s[0 + j] = s[j]
  BY DEF Holds
<1>1. 0 + j = j
  BY SMT
<1> QED
  BY <1>1

----------------------------------------------------------------------------
(* The payload. *)

LEMMA FieldTypes ==
    /\ Wide \in Nat \ {0} /\ Wide \in Nat /\ Values(Wide) \in Nat /\ LegSize \in Nat /\ MinSize \in Nat
    /\ Field \subseteq Int /\ SignedField \subseteq Int
<1>1. Wide \in Nat \ {0} /\ Wide \in Nat
  BY CodecAssumption, SMT
<1>2. PICK f : IsValues(f, Wide)
  BY <1>1, ValuesRun
<1>3. Wide \in 0 .. Wide
  BY <1>1, SMT
<1>4. Values(Wide) \in Nat
  BY <1>2, <1>3, SMT DEF IsValues
<1>5. LegSize \in Nat /\ MinSize \in Nat
  BY <1>1, SMT DEF LegSize, MinSize
<1>6. Field \subseteq Int /\ SignedField \subseteq Int
  BY <1>4, SMT DEF Field, SignedField
<1> QED
  BY <1>1, <1>4, <1>5, <1>6, SMT

\* The byte of a direction.
DirectionByte(leg) == <<IF leg.direction = "Debit" THEN 0 ELSE 1>>

LEMMA DirectionByteType ==
    ASSUME NEW leg \in Leg
    PROVE  /\ DirectionByte(leg) \in Seq(Byte) /\ Len(DirectionByte(leg)) = 1
           /\ Direction[DirectionByte(leg)[1] + 1] = leg.direction
           /\ ~ (DirectionByte(leg)[1] > 1)
<1>1. leg.direction \in {"Debit", "Credit"}
  BY DEF Leg
<1>2. CASE leg.direction = "Debit"
  <2>1. DirectionByte(leg) = <<0>>
    BY <1>2 DEF DirectionByte
  <2> QED
    BY <1>2, <2>1, SMT DEF Direction, Byte
<1>3. CASE leg.direction = "Credit"
  <2>1. leg.direction # "Debit"
    BY <1>3, SMT
  <2>2. DirectionByte(leg) = <<1>>
    BY <2>1 DEF DirectionByte
  <2> QED
    BY <1>3, <2>2, SMT DEF Direction, Byte
<1> QED
  BY <1>1, <1>2, <1>3

LEMMA LegFields ==
    ASSUME NEW leg \in Leg
    PROVE  leg.account_id \in Field /\ leg.amount \in SignedField /\ leg.direction \in {"Debit", "Credit"}
           /\ leg = [account_id |-> leg.account_id, direction |-> leg.direction, amount |-> leg.amount]
  BY SMT DEF Leg

\* A leg takes LegSize bytes: the account, the direction, the amount.
LEMMA LegBytes ==
    ASSUME NEW leg \in Leg
    PROVE  /\ EncodedLeg(leg) \in Seq(Byte) /\ Len(EncodedLeg(leg)) = LegSize
           /\ \A bytes : \A offset \in Nat : Holds(bytes, offset, EncodedLeg(leg)) =>
                /\ Holds(bytes, offset, put(leg.account_id, Wide))
                /\ bytes[offset + Wide + 1] = DirectionByte(leg)[1]
                /\ Holds(bytes, offset + Wide + 1, put(leg.amount, Wide))
<1> DEFINE a == put(leg.account_id, Wide)
           d == DirectionByte(leg)
           m == put(leg.amount, Wide)
<1>1. leg.account_id \in Int /\ leg.amount \in Int /\ Wide \in Nat
  BY LegFields, FieldTypes
<1>2. a \in Seq(Byte) /\ Len(a) = Wide /\ m \in Seq(Byte) /\ Len(m) = Wide
  BY <1>1, PutType
<1>3. d \in Seq(Byte) /\ Len(d) = 1
  BY DirectionByteType
<1>4. EncodedLeg(leg) = (a \o d) \o m
  BY DEF EncodedLeg, DirectionByte
<1> HIDE DEF a, d, m
<1>5. a \o d \in Seq(Byte) /\ Len(a \o d) = Wide + 1
  <2>1. a \o d \in Seq(Byte) /\ Len(a \o d) = Len(a) + Len(d)
    BY <1>2, <1>3, ConcatenationType, ConcatenationLength
  <2> QED
    BY <1>2, <1>3, <2>1
<1>6. (a \o d) \o m \in Seq(Byte) /\ Len((a \o d) \o m) = (Wide + 1) + Wide
  <2>1. (a \o d) \o m \in Seq(Byte) /\ Len((a \o d) \o m) = Len(a \o d) + Len(m)
    BY <1>2, <1>5, ConcatenationType, ConcatenationLength
  <2> QED
    BY <1>2, <1>5, <2>1
<1>7. LegSize = (Wide + 1) + Wide
  BY <1>1, SMT DEF LegSize
<1>8. ASSUME NEW bytes, NEW offset \in Nat, Holds(bytes, offset, EncodedLeg(leg))
      PROVE  /\ Holds(bytes, offset, a) /\ bytes[offset + Wide + 1] = d[1]
             /\ Holds(bytes, offset + Wide + 1, m)
  <2>1. Holds(bytes, offset, (a \o d) \o m)
    BY <1>4, <1>8
  <2>2. Holds(bytes, offset, a \o d) /\ Holds(bytes, offset + (Wide + 1), m)
    BY <1>2, <1>5, <2>1, HoldsConcatenation
  <2>3. Holds(bytes, offset, a) /\ Holds(bytes, offset + Wide, d)
    BY <1>2, <1>3, <2>2, HoldsConcatenation
  <2>4. 1 \in 1 .. Len(d)
    BY <1>3, SMT
  <2>5. bytes[(offset + Wide) + 1] = d[1]
    BY <2>3, <2>4 DEF Holds
  <2>6. offset + (Wide + 1) = offset + Wide + 1
    BY <1>1, SMT
  <2> QED
    BY <2>2, <2>3, <2>5, <2>6
<1> QED
  BY <1>4, <1>6, <1>7, <1>8 DEF a, d, m

\* The bytes of the first i legs.
IsLegs(f, legs) ==
    /\ f \in [0 .. Len(legs) -> Seq(Byte)] /\ f[0] = <<>>
    /\ \A i \in 1 .. Len(legs) : f[i] = f[i - 1] \o EncodedLeg(legs[i])
    /\ EncodedLegs(legs) = f[Len(legs)]

LEMMA LegsRun ==
    ASSUME NEW legs \in Seq(Leg)
    PROVE  \E f : IsLegs(f, legs)
<1> DEFINE Body(f) == [i \in 0 .. Len(legs) |-> IF i = 0 THEN <<>> ELSE f[i - 1] \o EncodedLeg(legs[i])]
           step == [i \in 1 .. Len(legs) |-> [x \in Seq(Byte) |-> x \o EncodedLeg(legs[i])]]
           R == CHOOSE f : f = Body(f)
<1>1. Len(legs) \in Nat /\ <<>> \in Seq(Byte)
  BY SMT
<1>2. \A i \in 1 .. Len(legs), x \in Seq(Byte) : x \o EncodedLeg(legs[i]) \in Seq(Byte)
  <2> SUFFICES ASSUME NEW i \in 1 .. Len(legs), NEW x \in Seq(Byte)
               PROVE  x \o EncodedLeg(legs[i]) \in Seq(Byte)
    OBVIOUS
  <2>1. legs[i] \in Leg
    BY SMT
  <2>2. EncodedLeg(legs[i]) \in Seq(Byte)
    BY <2>1, LegBytes
  <2> QED
    BY <2>2, ConcatenationType
<1>3. step \in [1 .. Len(legs) -> [Seq(Byte) -> Seq(Byte)]]
  BY <1>2
<1>4. \A i \in 1 .. Len(legs), x \in Seq(Byte) : step[i][x] = x \o EncodedLeg(legs[i])
  OBVIOUS
<1>5. PICK g : g \in Runs(Seq(Byte), <<>>, Len(legs), step)
  <2> HIDE DEF step
  <2> QED
    <3>1. Runs(Seq(Byte), <<>>, Len(legs), step) # {}
      BY <1>1, <1>3, FiniteRecursion
    <3> QED
      BY <3>1
<1>6. g = Body(g)
  <2>1. /\ g \in [0 .. Len(legs) -> Seq(Byte)] /\ g[0] = <<>>
        /\ \A i \in 1 .. Len(legs) : g[i] = step[i][g[i - 1]]
    BY <1>5 DEF Runs
  <2> HIDE DEF step
  <2>2. ASSUME NEW i \in 0 .. Len(legs) PROVE g[i] = IF i = 0 THEN <<>> ELSE g[i - 1] \o EncodedLeg(legs[i])
    <3>1. CASE i = 0
      BY <2>1, <3>1
    <3>2. CASE i # 0
      <4>1. i \in 1 .. Len(legs) /\ i - 1 \in 0 .. Len(legs)
        BY <1>1, <3>2, SMT
      <4>2. g[i - 1] \in Seq(Byte) /\ g[i] = step[i][g[i - 1]]
        BY <2>1, <4>1
      <4> QED
        BY <1>4, <3>2, <4>1, <4>2
    <3> QED
      BY <3>1, <3>2
  <2> QED
    BY <2>1, <2>2
<1>7. R = Body(R)
  <2> HIDE DEF Body
  <2> QED
    BY <1>6
<1>8. EncodedLegs(legs) = R[Len(legs)]
  BY DEF EncodedLegs
<1> HIDE DEF R
<1>9. 0 \in 0 .. Len(legs) /\ \A i \in 1 .. Len(legs) : i \in 0 .. Len(legs) /\ i # 0
  BY <1>1, SMT
<1>10. R = [i \in 0 .. Len(legs) |-> R[i]] /\ R[0] = <<>>
  BY <1>7, <1>9
<1>11. \A i \in 1 .. Len(legs) : R[i] = R[i - 1] \o EncodedLeg(legs[i])
  BY <1>7, <1>9
<1>12. \A i \in 1 .. Len(legs) : R[i - 1] \in Seq(Byte) => R[i] = step[i][R[i - 1]]
  <2> HIDE DEF step
  <2> QED
    BY <1>4, <1>11
<1>13. R \in Runs(Seq(Byte), <<>>, Len(legs), step)
  <2> HIDE DEF step
  <2>1. Follows(R, Seq(Byte), <<>>, Len(legs), step)
    BY <1>10, <1>12 DEF Follows
  <2> QED
    BY <1>1, <1>3, <2>1, FollowsRuns
<1>14. R \in [0 .. Len(legs) -> Seq(Byte)]
  BY <1>13 DEF Runs
<1> QED
  BY <1>8, <1>10, <1>11, <1>14 DEF IsLegs

LEMMA Times ==
    ASSUME NEW i \in Int, NEW n \in Int
    PROVE  i * n = (i - 1) * n + n /\ 0 * n = 0 /\ i * n \in Int
  BY SMT

LEMMA TimesNat == \A i, n \in Nat : i * n \in Nat
  BY SMT

\* The legs follow each other at distances of LegSize.
LEMMA LegsBytes ==
    ASSUME NEW legs \in Seq(Leg)
    PROVE  /\ EncodedLegs(legs) \in Seq(Byte) /\ Len(EncodedLegs(legs)) = Len(legs) * LegSize
           /\ \A bytes : \A offset \in Nat : Holds(bytes, offset, EncodedLegs(legs)) =>
                \A i \in 1 .. Len(legs) :
                   Holds(bytes, offset + (i - 1) * LegSize, EncodedLeg(legs[i]))
<1>1. PICK f : IsLegs(f, legs)
  BY LegsRun
<1> DEFINE n == Len(legs)
<1>2. /\ f \in [0 .. n -> Seq(Byte)] /\ f[0] = <<>>
      /\ \A i \in 1 .. n : f[i] = f[i - 1] \o EncodedLeg(legs[i])
      /\ EncodedLegs(legs) = f[n]
  BY <1>1 DEF IsLegs
<1>3. n \in Nat /\ n \in 0 .. n /\ 0 \in 0 .. n /\ \A i \in 1 .. n : i \in 0 .. n /\ i - 1 \in 0 .. n /\ i \in Int
  BY SMT
<1>4. \A i \in 1 .. n : legs[i] \in Leg
  BY SMT
<1> HIDE DEF n
<1>5. LegSize \in Nat /\ LegSize \in Int
  BY FieldTypes, SMT
<1> DEFINE T == {i \in 0 .. n : Len(f[i]) = i * LegSize}
<1>6. 0 \in T
  <2>1. Len(f[0]) = 0 * LegSize
    BY <1>2, <1>5, SMT
  <2> QED
    BY <1>3, <2>1
<1>7. ASSUME NEW i \in 1 .. n, i - 1 \in T PROVE i \in T
  <2>1. i \in 0 .. n /\ i - 1 \in 0 .. n /\ i \in Int /\ legs[i] \in Leg /\ f[i - 1] \in Seq(Byte)
    BY <1>2, <1>3, <1>4
  <2>2. EncodedLeg(legs[i]) \in Seq(Byte) /\ Len(EncodedLeg(legs[i])) = LegSize
    BY <2>1, LegBytes
  <2>3. Len(f[i]) = Len(f[i - 1]) + Len(EncodedLeg(legs[i]))
    <3>1. f[i] = f[i - 1] \o EncodedLeg(legs[i])
      BY <1>2
    <3>2. Len(f[i - 1] \o EncodedLeg(legs[i])) = Len(f[i - 1]) + Len(EncodedLeg(legs[i]))
      BY <2>1, <2>2, ConcatenationLength
    <3> QED
      BY <3>1, <3>2
  <2>4. Len(f[i - 1]) = (i - 1) * LegSize
    BY <1>7
  <2>5. Len(f[i]) = i * LegSize
    <3>1. i * LegSize = (i - 1) * LegSize + LegSize
      BY <1>5, <2>1, Times
    <3> QED
      BY <2>2, <2>3, <2>4, <3>1
  <2> QED
    BY <2>1, <2>5
<1>8. \A i \in 0 .. n : Len(f[i]) = i * LegSize
  <2>1. \A i \in 0 .. n : i \in T
    <3> HIDE DEF T
    <3> QED
      BY <1>3, <1>6, <1>7, BoundedInduction
  <2> QED
    BY <2>1
<1>9. ASSUME NEW bytes, NEW offset \in Nat, Holds(bytes, offset, EncodedLegs(legs)),
             NEW i \in 1 .. n
      PROVE  Holds(bytes, offset + (i - 1) * LegSize, EncodedLeg(legs[i]))
  <2> DEFINE U == {k \in 0 .. n : Holds(bytes, offset, f[n - k])}
  <2>1. 0 \in U
    <3>1. n - 0 = n
      BY <1>3, SMT
    <3> QED
      BY <1>2, <1>3, <1>9, <3>1
  <2>2. ASSUME NEW j \in 1 .. n, Holds(bytes, offset, f[j])
        PROVE  Holds(bytes, offset, f[j - 1]) /\ Holds(bytes, offset + (j - 1) * LegSize, EncodedLeg(legs[j]))
    <3>1. f[j - 1] \in Seq(Byte) /\ EncodedLeg(legs[j]) \in Seq(Byte)
      BY <1>2, <1>3, <1>4, LegBytes
    <3>2. Holds(bytes, offset, f[j - 1] \o EncodedLeg(legs[j]))
      BY <1>2, <2>2
    <3>3. Holds(bytes, offset, f[j - 1]) /\ Holds(bytes, offset + Len(f[j - 1]), EncodedLeg(legs[j]))
      BY <3>1, <3>2, HoldsConcatenation
    <3> QED
      BY <1>3, <1>8, <3>3
  <2>3. ASSUME NEW k \in 1 .. n, k - 1 \in U PROVE k \in U
    <3>1. n - (k - 1) \in 1 .. n /\ (n - (k - 1)) - 1 = n - k /\ k \in 0 .. n
      BY <1>3, SMT
    <3>2. Holds(bytes, offset, f[n - (k - 1)])
      BY <2>3
    <3>3. Holds(bytes, offset, f[n - k])
      BY <2>2, <3>1, <3>2
    <3> QED
      BY <3>1, <3>3
  <2>4. \A k \in 0 .. n : k \in U
    <3> HIDE DEF U
    <3> QED
      BY <1>3, <2>1, <2>3, BoundedInduction
  <2>5. n - i \in 0 .. n /\ n - (n - i) = i
    BY <1>3, SMT
  <2>6. Holds(bytes, offset, f[i])
    BY <2>4, <2>5
  <2> QED
    BY <2>2, <2>6
<1> QED
  BY <1>2, <1>3, <1>8, <1>9 DEF n

LEMMA TimesMonotone == \A a, b, n \in Nat : a <= b => a * n <= b * n
<1> SUFFICES ASSUME NEW a \in Nat, NEW b \in Nat, NEW n \in Nat, a <= b PROVE a * n <= b * n
  OBVIOUS
<1>1. b - a \in Nat
  BY SMT
<1>2. (b - a) * n \in Nat
  BY <1>1, TimesNat
<1>3. b * n = a * n + (b - a) * n /\ a * n \in Int
  BY SMT
<1> QED
  BY <1>2, <1>3, SMT

LEMMA CodecBounds ==
    /\ kMaxLegsPerTransaction \in Nat /\ kMaxLegsPerTransaction <= 255
    /\ kMaxPayloadSize \in Nat /\ kMaxPayloadSize < 65536
    /\ MinSize + kMaxLegsPerTransaction * LegSize <= kMaxPayloadSize
  BY CodecAssumption, SMT

\* The longest payload fits.
LEMMA LegsFit ==
    ASSUME NEW n \in Nat, n <= kMaxLegsPerTransaction
    PROVE  /\ n * LegSize \in Nat /\ MinSize + n * LegSize <= kMaxPayloadSize
           /\ ~ (MinSize + n * LegSize > kMaxPayloadSize) /\ ~ (MinSize + n * LegSize < MinSize)
<1> DEFINE x == n * LegSize
           y == kMaxLegsPerTransaction * LegSize
<1>1. kMaxLegsPerTransaction \in Nat /\ LegSize \in Nat /\ MinSize \in Nat /\ kMaxPayloadSize \in Nat
      /\ MinSize + y <= kMaxPayloadSize
  BY CodecBounds, FieldTypes, SMT
<1>2. x <= y /\ x \in Nat /\ y \in Nat
  BY <1>1, TimesMonotone, TimesNat
<1> HIDE DEF x, y
<1>3. x \in Nat /\ MinSize + x <= kMaxPayloadSize /\ ~ (MinSize + x > kMaxPayloadSize)
      /\ ~ (MinSize + x < MinSize)
  BY <1>1, <1>2, SMT
<1> QED
  BY <1>3 DEF x

LEMMA TransactionFields ==
    ASSUME NEW tx \in Transaction
    PROVE  /\ tx.id \in Field /\ tx.created_at_ns \in SignedField
           /\ tx.idempotency_key.high \in Field /\ tx.idempotency_key.low \in Field
           /\ tx.legs \in Seq(Leg) /\ Len(tx.legs) \in Nat /\ Len(tx.legs) <= kMaxLegsPerTransaction
           /\ tx = [id |-> tx.id, created_at_ns |-> tx.created_at_ns,
                    idempotency_key |-> [high |-> tx.idempotency_key.high, low |-> tx.idempotency_key.low],
                    legs |-> tx.legs]
<1>1. /\ tx.id \in Field /\ tx.created_at_ns \in SignedField
      /\ tx.idempotency_key \in [high : Field, low : Field]
      /\ tx.legs \in {legs \in Seq(Leg) : Len(legs) <= kMaxLegsPerTransaction}
      /\ tx = [id |-> tx.id, created_at_ns |-> tx.created_at_ns,
               idempotency_key |-> tx.idempotency_key, legs |-> tx.legs]
  BY SMT DEF Transaction
<1>2. /\ tx.idempotency_key.high \in Field /\ tx.idempotency_key.low \in Field
      /\ tx.idempotency_key = [high |-> tx.idempotency_key.high, low |-> tx.idempotency_key.low]
  BY <1>1, SMT
<1>3. tx.legs \in Seq(Leg) /\ Len(tx.legs) <= kMaxLegsPerTransaction
  BY <1>1
<1>4. Len(tx.legs) \in Nat
  BY <1>3, SMT
<1> QED
  BY <1>1, <1>2, <1>3, <1>4

\* The one byte of the leg count.
LEMMA PutByte ==
    ASSUME NEW n \in 0 .. 255
    PROVE  put(n, 1) \in Seq(Byte) /\ Len(put(n, 1)) = 1 /\ put(n, 1)[1] = n
<1>1. n \in Int /\ 1 \in Nat /\ 1 \in 1 .. 1 /\ 1 - 1 = 0 /\ n % 256 = n
  BY SMT
<1>2. PICK f : IsPut(f, n, 1)
  BY <1>1, PutRun
<1>3. f[0] = n /\ put(n, 1) = [i \in 1 .. 1 |-> f[i - 1] % 256]
  BY <1>2 DEF IsPut
<1>4. put(n, 1)[1] = n
  BY <1>1, <1>3, SMT
<1> QED
  BY <1>1, <1>4, PutType

Payload(tx) ==
    put(tx.idempotency_key.high, Wide) \o put(tx.idempotency_key.low, Wide)
      \o put(Len(tx.legs), 1) \o EncodedLegs(tx.legs)

\* A payload fits, and holds the key, the leg count and the legs.
LEMMA PayloadBytes ==
    ASSUME NEW tx \in Transaction
    PROVE  /\ encode_transaction_payload(tx) = Value(Payload(tx))
           /\ Payload(tx) \in Seq(Byte)
           /\ Len(Payload(tx)) = MinSize + Len(tx.legs) * LegSize
           /\ Len(Payload(tx)) <= kMaxPayloadSize
           /\ Holds(Payload(tx), 0, put(tx.idempotency_key.high, Wide))
           /\ Holds(Payload(tx), Wide, put(tx.idempotency_key.low, Wide))
           /\ Payload(tx)[MinSize] = Len(tx.legs)
           /\ \A i \in 1 .. Len(tx.legs) :
                 Holds(Payload(tx), MinSize + (i - 1) * LegSize, EncodedLeg(tx.legs[i]))
<1> DEFINE P == Payload(tx)
           n == Len(tx.legs)
           h == put(tx.idempotency_key.high, Wide)
           l == put(tx.idempotency_key.low, Wide)
           c == put(n, 1)
           e == EncodedLegs(tx.legs)
<1>1. /\ tx.idempotency_key.high \in Int /\ tx.idempotency_key.low \in Int
      /\ tx.legs \in Seq(Leg) /\ n \in Nat /\ n <= kMaxLegsPerTransaction
      /\ Wide \in Nat /\ LegSize \in Nat /\ MinSize \in Nat
  BY TransactionFields, FieldTypes
<1>2. h \in Seq(Byte) /\ Len(h) = Wide /\ l \in Seq(Byte) /\ Len(l) = Wide
  BY <1>1, PutType
<1>3. c \in Seq(Byte) /\ Len(c) = 1 /\ c[1] = n
  <2>1. n \in 0 .. 255
    <3> HIDE DEF n
    <3> QED
      BY <1>1, CodecBounds, SMT
  <2> QED
    BY <2>1, PutByte
<1>4. e \in Seq(Byte) /\ Len(e) = n * LegSize
  BY <1>1, LegsBytes
<1>5. P = ((h \o l) \o c) \o e
  BY DEF Payload
<1>6. \A bytes : \A offset \in Nat : Holds(bytes, offset, e) =>
        \A i \in 1 .. n : Holds(bytes, offset + (i - 1) * LegSize, EncodedLeg(tx.legs[i]))
  BY <1>1, LegsBytes
<1>7. MinSize + n * LegSize <= kMaxPayloadSize
  BY <1>1, LegsFit
<1> HIDE DEF h, l, c, e
<1>8. encode_transaction_payload(tx) = Value(P)
  <2>1. ~ (MinSize + n * LegSize > kMaxPayloadSize)
    BY <1>1, LegsFit
  <2> HIDE DEF P
  <2>2. P = put(tx.idempotency_key.high, Wide) \o put(tx.idempotency_key.low, Wide)
              \o put(Len(tx.legs), 1) \o EncodedLegs(tx.legs)
    BY DEF P, Payload
  <2> QED
    BY <2>1, <2>2 DEF encode_transaction_payload
<1> HIDE DEF P, n, h, l, c, e
<1>9. h \o l \in Seq(Byte) /\ Len(h \o l) = 2 * Wide
  <2>1. h \o l \in Seq(Byte) /\ Len(h \o l) = Len(h) + Len(l)
    BY <1>2, ConcatenationType, ConcatenationLength
  <2> QED
    BY <1>1, <1>2, <2>1, SMT
<1>10. (h \o l) \o c \in Seq(Byte) /\ Len((h \o l) \o c) = MinSize
  <2>1. (h \o l) \o c \in Seq(Byte) /\ Len((h \o l) \o c) = Len(h \o l) + Len(c)
    BY <1>3, <1>9, ConcatenationType, ConcatenationLength
  <2> QED
    BY <1>3, <1>9, <2>1 DEF MinSize
<1>11. P \in Seq(Byte) /\ Len(P) = MinSize + n * LegSize
  <2>1. P \in Seq(Byte) /\ Len(P) = Len((h \o l) \o c) + Len(e)
    BY <1>4, <1>5, <1>10, ConcatenationType, ConcatenationLength
  <2> QED
    BY <1>4, <1>10, <2>1
<1>12. Holds(P, 0, ((h \o l) \o c) \o e) /\ 0 \in Nat
  BY <1>5, HoldsItself, SMT
<1>13. Holds(P, 0, (h \o l) \o c) /\ Holds(P, 0 + MinSize, e)
  BY <1>4, <1>10, <1>12, HoldsConcatenation
<1>14. Holds(P, 0, h \o l) /\ Holds(P, 0 + 2 * Wide, c)
  BY <1>3, <1>9, <1>12, <1>13, HoldsConcatenation
<1>15. Holds(P, 0, h) /\ Holds(P, 0 + Wide, l)
  BY <1>2, <1>12, <1>14, HoldsConcatenation
<1>16. 0 + MinSize = MinSize /\ 0 + Wide = Wide /\ (0 + 2 * Wide) + 1 = MinSize
  BY <1>1, SMT DEF MinSize
<1>17. P[MinSize] = n
  <2>1. 1 \in 1 .. Len(c)
    BY <1>3, SMT
  <2>2. P[(0 + 2 * Wide) + 1] = c[1]
    BY <1>14, <2>1 DEF Holds
  <2> QED
    BY <1>3, <1>16, <2>2
<1>18. \A i \in 1 .. n : Holds(P, MinSize + (i - 1) * LegSize, EncodedLeg(tx.legs[i]))
  <2>1. Holds(P, MinSize, e)
    BY <1>13, <1>16
  <2> QED
    BY <1>1, <1>6, <2>1
<1>19. Holds(P, 0, h) /\ Holds(P, Wide, l)
  BY <1>15, <1>16
<1>20. Len(P) <= kMaxPayloadSize
  BY <1>7, <1>11
<1> QED
  BY <1>8, <1>11, <1>17, <1>18, <1>19, <1>20 DEF P, n, h, l

\* A leg's bytes are read as the leg.
LEMMA DecodedLeg ==
    ASSUME NEW leg \in Leg, NEW bytes, NEW offset \in Nat, Holds(bytes, offset, EncodedLeg(leg))
    PROVE  /\ ~ (bytes[offset + Wide + 1] > 1)
           /\ leg = [account_id |-> get(bytes, offset, Wide),
                     direction |-> Direction[bytes[offset + Wide + 1] + 1],
                     amount |-> getSigned(bytes, offset + Wide + 1, Wide)]
<1>1. /\ Holds(bytes, offset, put(leg.account_id, Wide))
      /\ bytes[offset + Wide + 1] = DirectionByte(leg)[1]
      /\ Holds(bytes, offset + Wide + 1, put(leg.amount, Wide))
  BY LegBytes
<1>2. Wide \in Nat \ {0} /\ Wide \in Nat
  BY FieldTypes
<1>3. offset + Wide + 1 \in Nat
  BY <1>2, SMT
<1>4. get(bytes, offset, Wide) = leg.account_id
  <2>1. leg.account_id \in 0 .. Values(Wide) - 1
    BY LegFields DEF Field
  <2> QED
    BY <1>1, <1>2, <2>1, GetUnsigned
<1>5. getSigned(bytes, offset + Wide + 1, Wide) = leg.amount
  <2>1. leg.amount \in -(Values(Wide) \div 2) .. Values(Wide) \div 2 - 1
    BY LegFields DEF SignedField
  <2> QED
    BY <1>1, <1>2, <1>3, <2>1, GetSigned
<1>6. ~ (DirectionByte(leg)[1] > 1) /\ Direction[DirectionByte(leg)[1] + 1] = leg.direction
  BY DirectionByteType
<1>7. leg = [account_id |-> leg.account_id, direction |-> leg.direction, amount |-> leg.amount]
  BY LegFields
<1> QED
  BY <1>1, <1>4, <1>5, <1>6, <1>7

\* What lies at leg i's place, and what decoding yields when no check fails.
LegOffset(i) == MinSize + (i - 1) * LegSize

LegAt(payload, i) ==
    [account_id |-> get(payload, LegOffset(i), Wide),
     direction |-> Direction[payload[LegOffset(i) + Wide + 1] + 1],
     amount |-> getSigned(payload, LegOffset(i) + Wide + 1, Wide)]

Decoded(payload, id, timestamp_ns, n) ==
    [id |-> id, created_at_ns |-> timestamp_ns,
     idempotency_key |-> [high |-> get(payload, 0, Wide), low |-> get(payload, Wide, Wide)],
     legs |-> [i \in 1 .. n |-> LegAt(payload, i)]]

LEMMA DecodeAccepts ==
    ASSUME NEW payload, NEW id, NEW timestamp_ns,
           ~ (Len(payload) < MinSize), ~ (payload[MinSize] > kMaxLegsPerTransaction),
           Len(payload) = MinSize + payload[MinSize] * LegSize,
           \A i \in 1 .. payload[MinSize] : ~ (payload[LegOffset(i) + Wide + 1] > 1)
    PROVE  decode_transaction_payload(payload, id, timestamp_ns) =
             Value(Decoded(payload, id, timestamp_ns, payload[MinSize]))
  BY DEF decode_transaction_payload, Decoded, LegAt, LegOffset

\* Decoding undoes encoding (wal_codec.cpp): what is read back is exactly the
\* transaction, its 64-bit fields, its leg count and every leg included, and no
\* check of the decoder rejects what the encoder made, whatever the widths.
THEOREM DecodeUndoesEncode ==
    ASSUME NEW tx \in Transaction
    PROVE  /\ encode_transaction_payload(tx).ok
           /\ decode_transaction_payload(encode_transaction_payload(tx).value, tx.id, tx.created_at_ns)
                = Value(tx)
<1> DEFINE P == Payload(tx)
           n == Len(tx.legs)
<1>1. /\ encode_transaction_payload(tx) = Value(P) /\ P \in Seq(Byte)
      /\ Len(P) = MinSize + n * LegSize
      /\ Holds(P, 0, put(tx.idempotency_key.high, Wide))
      /\ Holds(P, Wide, put(tx.idempotency_key.low, Wide))
      /\ P[MinSize] = n
      /\ \A i \in 1 .. n : Holds(P, LegOffset(i), EncodedLeg(tx.legs[i]))
  BY PayloadBytes DEF LegOffset
<1>2. /\ tx.id \in Field /\ tx.idempotency_key.high \in Field /\ tx.idempotency_key.low \in Field
      /\ tx.legs \in Seq(Leg) /\ n \in Nat /\ n <= kMaxLegsPerTransaction
      /\ tx = [id |-> tx.id, created_at_ns |-> tx.created_at_ns,
               idempotency_key |-> [high |-> tx.idempotency_key.high, low |-> tx.idempotency_key.low],
               legs |-> tx.legs]
  BY TransactionFields
<1>3. Wide \in Nat \ {0} /\ Wide \in Nat /\ LegSize \in Nat /\ MinSize \in Nat /\ 0 \in Nat
  BY FieldTypes, SMT
<1>4. tx.legs = [i \in 1 .. n |-> tx.legs[i]] /\ \A i \in 1 .. n : tx.legs[i] \in Leg
  BY <1>2, SMT
<1>5. \A i \in 1 .. n : LegOffset(i) \in Nat
  <2> SUFFICES ASSUME NEW i \in 1 .. n PROVE LegOffset(i) \in Nat
    OBVIOUS
  <2> HIDE DEF n
  <2>1. i - 1 \in Nat
    BY <1>2, SMT
  <2>2. (i - 1) * LegSize \in Nat
    BY <1>3, <2>1, TimesNat
  <2> QED
    BY <1>3, <2>2, SMT DEF LegOffset
<1> HIDE DEF P, n
<1>6. ASSUME NEW i \in 1 .. n
      PROVE  /\ ~ (P[LegOffset(i) + Wide + 1] > 1)
             /\ tx.legs[i] = LegAt(P, i)
  <2>1. tx.legs[i] \in Leg /\ LegOffset(i) \in Nat /\ Holds(P, LegOffset(i), EncodedLeg(tx.legs[i]))
    BY <1>1, <1>4, <1>5
  <2> QED
    BY <2>1, DecodedLeg DEF LegAt
<1>7. get(P, 0, Wide) = tx.idempotency_key.high /\ get(P, Wide, Wide) = tx.idempotency_key.low
  <2>1. /\ tx.idempotency_key.high \in 0 .. Values(Wide) - 1
        /\ tx.idempotency_key.low \in 0 .. Values(Wide) - 1
    BY <1>2 DEF Field
  <2> QED
    <3>1. get(P, 0, Wide) = tx.idempotency_key.high
      BY <1>1, <1>3, <2>1, GetUnsigned
    <3>2. get(P, Wide, Wide) = tx.idempotency_key.low
      BY <1>1, <1>3, <2>1, GetUnsigned
    <3> QED
      BY <3>1, <3>2
<1>8. ~ (Len(P) < MinSize) /\ ~ (n > kMaxLegsPerTransaction)
  <2>1. ~ (MinSize + n * LegSize < MinSize)
    BY <1>2, LegsFit
  <2>2. ~ (n > kMaxLegsPerTransaction)
    BY <1>2, CodecBounds, SMT
  <2> QED
    BY <1>1, <2>1, <2>2
<1>9. [i \in 1 .. n |-> LegAt(P, i)] = tx.legs
  BY <1>4, <1>6
<1>10. \A i \in 1 .. n : ~ (P[LegOffset(i) + Wide + 1] > 1)
  BY <1>6
<1>11. decode_transaction_payload(P, tx.id, tx.created_at_ns) =
         Value(Decoded(P, tx.id, tx.created_at_ns, n))
  <2>1. /\ ~ (P[MinSize] > kMaxLegsPerTransaction) /\ Len(P) = MinSize + P[MinSize] * LegSize
        /\ \A i \in 1 .. P[MinSize] : ~ (P[LegOffset(i) + Wide + 1] > 1)
    BY <1>1, <1>8, <1>10
  <2>2. decode_transaction_payload(P, tx.id, tx.created_at_ns) =
          Value(Decoded(P, tx.id, tx.created_at_ns, P[MinSize]))
    BY <1>8, <2>1, DecodeAccepts
  <2> QED
    BY <1>1, <2>2
<1>12. Decoded(P, tx.id, tx.created_at_ns, n) = tx
  BY <1>2, <1>7, <1>9 DEF Decoded
<1>13. encode_transaction_payload(tx).ok /\ encode_transaction_payload(tx).value = P
  BY <1>1, SMT DEF Value
<1> QED
  BY <1>11, <1>12, <1>13

----------------------------------------------------------------------------
(* A record, and reading it. *)

\* The byte of the i highest bits.
IsNumber(f, bits) ==
    /\ f \in [0 .. 8 -> Nat] /\ f[0] = 0
    /\ \A i \in 1 .. 8 : f[i] = (IF 8 - i \in bits THEN 1 ELSE 0) + 2 * f[i - 1]
    /\ Number(bits) = f[8]

LEMMA NumberRun ==
    ASSUME NEW bits
    PROVE  \E f : IsNumber(f, bits)
<1> DEFINE Body(f) == [i \in 0 .. 8 |-> IF i = 0 THEN 0 ELSE (IF 8 - i \in bits THEN 1 ELSE 0) + 2 * f[i - 1]]
           step == [i \in 1 .. 8 |-> [x \in Nat |-> (IF 8 - i \in bits THEN 1 ELSE 0) + 2 * x]]
           R == CHOOSE f : f = Body(f)
<1>1. 8 \in Nat /\ 0 \in Nat
  BY SMT
<1>2. \A i \in 1 .. 8, x \in Nat : (IF 8 - i \in bits THEN 1 ELSE 0) + 2 * x \in Nat
  BY SMT
<1>3. step \in [1 .. 8 -> [Nat -> Nat]]
  BY <1>2
<1>4. \A i \in 1 .. 8, x \in Nat : step[i][x] = (IF 8 - i \in bits THEN 1 ELSE 0) + 2 * x
  OBVIOUS
<1>5. PICK g : g \in Runs(Nat, 0, 8, step)
  <2> HIDE DEF step
  <2> QED
    <3>1. Runs(Nat, 0, 8, step) # {}
      BY <1>1, <1>3, FiniteRecursion
    <3> QED
      BY <3>1
<1>6. g = Body(g)
  <2>1. /\ g \in [0 .. 8 -> Nat] /\ g[0] = 0
        /\ \A i \in 1 .. 8 : g[i] = step[i][g[i - 1]]
    BY <1>5 DEF Runs
  <2> HIDE DEF step
  <2>2. ASSUME NEW i \in 0 .. 8 PROVE g[i] = IF i = 0 THEN 0 ELSE (IF 8 - i \in bits THEN 1 ELSE 0) + 2 * g[i - 1]
    <3>1. CASE i = 0
      BY <2>1, <3>1
    <3>2. CASE i # 0
      <4>1. i \in 1 .. 8 /\ i - 1 \in 0 .. 8
        BY <1>1, <3>2, SMT
      <4>2. g[i - 1] \in Nat /\ g[i] = step[i][g[i - 1]]
        BY <2>1, <4>1
      <4> QED
        BY <1>4, <3>2, <4>1, <4>2
    <3> QED
      BY <3>1, <3>2
  <2> QED
    BY <2>1, <2>2
<1>7. R = Body(R)
  <2> HIDE DEF Body
  <2> QED
    BY <1>6
<1>8. Number(bits) = R[8]
  BY DEF Number
<1> HIDE DEF R
<1>9. 0 \in 0 .. 8 /\ \A i \in 1 .. 8 : i \in 0 .. 8 /\ i # 0
  BY <1>1, SMT
<1>10. R = [i \in 0 .. 8 |-> R[i]] /\ R[0] = 0
  BY <1>7, <1>9
<1>11. \A i \in 1 .. 8 : R[i] = (IF 8 - i \in bits THEN 1 ELSE 0) + 2 * R[i - 1]
  BY <1>7, <1>9
<1>12. \A i \in 1 .. 8 : R[i - 1] \in Nat => R[i] = step[i][R[i - 1]]
  <2> HIDE DEF step
  <2> QED
    BY <1>4, <1>11
<1>13. R \in Runs(Nat, 0, 8, step)
  <2> HIDE DEF step
  <2>1. Follows(R, Nat, 0, 8, step)
    BY <1>10, <1>12 DEF Follows
  <2> QED
    BY <1>1, <1>3, <2>1, FollowsRuns
<1>14. R \in [0 .. 8 -> Nat]
  BY <1>13 DEF Runs
<1> QED
  BY <1>8, <1>10, <1>11, <1>14 DEF IsNumber

LEMMA NumberType == \A bits : Number(bits) \in Byte
<1> SUFFICES ASSUME NEW bits PROVE Number(bits) \in Byte
  OBVIOUS
<1>1. PICK f : IsNumber(f, bits)
  BY NumberRun
<1>2. /\ f \in [0 .. 8 -> Nat] /\ f[0] = 0 /\ Number(bits) = f[8]
      /\ \A i \in 1 .. 8 : f[i] = (IF 8 - i \in bits THEN 1 ELSE 0) + 2 * f[i - 1]
  BY <1>1 DEF IsNumber
<1>3. \A i \in 1 .. 8 : f[i] \in Nat /\ f[i - 1] \in Nat /\ f[i] <= 1 + 2 * f[i - 1]
  <2> SUFFICES ASSUME NEW i \in 1 .. 8
               PROVE  f[i] \in Nat /\ f[i - 1] \in Nat /\ f[i] <= 1 + 2 * f[i - 1]
    OBVIOUS
  <2>1. i \in 0 .. 8 /\ i - 1 \in 0 .. 8
    BY SMT
  <2>2. f[i] \in Nat /\ f[i - 1] \in Nat
    BY <1>2, <2>1
  <2> DEFINE b == IF 8 - i \in bits THEN 1 ELSE 0
  <2>3. b \in 0 .. 1
    BY SMT
  <2>4. f[i] = b + 2 * f[i - 1]
    BY <1>2
  <2> HIDE DEF b
  <2> QED
    BY <2>2, <2>3, <2>4, SMT
<1>4. f[1] \in Nat /\ f[1] <= 1
  BY <1>2, <1>3, SMT
<1>5. f[2] \in Nat /\ f[2] <= 3
  BY <1>3, <1>4, SMT
<1>6. f[3] \in Nat /\ f[3] <= 7
  BY <1>3, <1>5, SMT
<1>7. f[4] \in Nat /\ f[4] <= 15
  BY <1>3, <1>6, SMT
<1>8. f[5] \in Nat /\ f[5] <= 31
  BY <1>3, <1>7, SMT
<1>9. f[6] \in Nat /\ f[6] <= 63
  BY <1>3, <1>8, SMT
<1>10. f[7] \in Nat /\ f[7] <= 127
  BY <1>3, <1>9, SMT
<1>11. f[8] \in Nat /\ f[8] <= 255
  BY <1>3, <1>10, SMT
<1>12. f[8] \in Byte
  BY <1>11, SMT DEF Byte
<1> QED
  BY <1>2, <1>12

LEMMA ChecksumType ==
    ASSUME NEW record
    PROVE  ChecksumOf(record) \in Seq(Byte) /\ Len(ChecksumOf(record)) = kCrcSize
<1> DEFINE crc == compute(record)
           num(i) == Number(Shifted(crc, 8 * (i - 1)) \cap (0 .. 7))
           b == [i \in 1 .. 4 |-> num(i)]
<1>1. ChecksumOf(record) = b
  BY DEF ChecksumOf, CrcBytes
<1>2. \A i \in 1 .. 4 : num(i) \in Byte
  BY NumberType
<1> HIDE DEF num
<1>3. b \in Seq(Byte) /\ Len(b) = 4
  BY <1>2, SMT
<1> QED
  BY <1>1, <1>3 DEF kCrcSize

LEMMA ValuesOfTwo == Values(2) = 65536
<1>1. 2 \in Nat
  BY SMT
<1>2. PICK v : IsValues(v, 2)
  BY <1>1, ValuesRun
<1>3. v[0] = 1 /\ Values(2) = v[2] /\ \A i \in 1 .. 2 : v[i] = 256 * v[i - 1]
  BY <1>2 DEF IsValues
<1>4. v[1] = 256
  BY <1>3, SMT
<1>5. v[2] = 256 * v[1]
  BY <1>3, SMT
<1> QED
  BY <1>3, <1>4, <1>5, SMT

LEMMA Constants ==
    /\ kMagic \in Seq(Byte) /\ Len(kMagic) = 4 /\ kVersion \in Seq(Byte) /\ Len(kVersion) = 2
    /\ <<0, 0>> \in Seq(Byte) /\ Len(<<0, 0>>) = 2 /\ kHeaderSize \in Nat /\ kCrcSize = 4
    /\ kHeaderSize = 10 + Wide + Wide
<1>1. kMagic \in Seq(Byte) /\ Len(kMagic) = 4
  BY SMT DEF kMagic, Byte
<1>2. kVersion \in Seq(Byte) /\ Len(kVersion) = 2 /\ <<0, 0>> \in Seq(Byte) /\ Len(<<0, 0>>) = 2
  BY SMT DEF kVersion, Byte
<1>3. kHeaderSize \in Nat /\ kCrcSize = 4 /\ kHeaderSize = 10 + Wide + Wide
  BY FieldTypes, SMT DEF kHeaderSize, kCrcSize
<1> QED
  BY <1>1, <1>2, <1>3, SMT

IsBytes(s, n) == s \in Seq(Byte) /\ Len(s) = n

\* u is s, of m bytes, and then t.
Splits(u, s, m, t) ==
    \A bytes : \A offset \in Nat :
       Holds(bytes, offset, u) <=> Holds(bytes, offset, s) /\ Holds(bytes, offset + m, t)

LEMMA Joined ==
    ASSUME NEW m, NEW n, NEW s, NEW t, IsBytes(s, m), IsBytes(t, n)
    PROVE  IsBytes(s \o t, m + n) /\ Splits(s \o t, s, m, t)
<1>1. s \o t \in Seq(Byte) /\ Len(s \o t) = Len(s) + Len(t)
  BY ConcatenationType, ConcatenationLength DEF IsBytes
<1>2. ASSUME NEW bytes, NEW offset \in Nat
      PROVE  Holds(bytes, offset, s \o t) <=> Holds(bytes, offset, s) /\ Holds(bytes, offset + m, t)
  <2>1. Holds(bytes, offset, s \o t) <=> Holds(bytes, offset, s) /\ Holds(bytes, offset + Len(s), t)
    BY HoldsConcatenation DEF IsBytes
  <2> QED
    BY <2>1 DEF IsBytes
<1> QED
  BY <1>1, <1>2 DEF IsBytes, Splits

\* Where the fields of a header lie.
LEMMA HeaderBytes ==
    ASSUME NEW size \in Int, NEW id \in Int, NEW time \in Int
    PROVE  /\ RecordHeader(size, id, time) \in Seq(Byte)
           /\ Len(RecordHeader(size, id, time)) = kHeaderSize
           /\ \A bytes : \A offset \in Nat :
                Holds(bytes, offset, RecordHeader(size, id, time)) =>
                  /\ Holds(bytes, offset, kMagic) /\ Holds(bytes, offset + 4, kVersion)
                  /\ Holds(bytes, offset + 8, put(size, 2)) /\ Holds(bytes, offset + 10, put(id, Wide))
                  /\ Holds(bytes, offset + (10 + Wide), put(time, Wide))
<1> DEFINE z == <<0, 0>>
           p == put(size, 2)
           i == put(id, Wide)
           t == put(time, Wide)
           a == kMagic \o kVersion
           b == a \o z
           c == b \o p
           d == c \o i
           e == d \o t
<1>0. 2 \in Nat /\ 4 \in Nat /\ 6 \in Nat /\ 8 \in Nat /\ 10 \in Nat /\ Wide \in Nat /\ 10 + Wide \in Nat
      /\ 4 + 2 = 6 /\ 6 + 2 = 8 /\ 8 + 2 = 10 /\ (10 + Wide) + Wide = kHeaderSize
  BY FieldTypes, Constants, SMT
<1>1. IsBytes(p, 2) /\ IsBytes(i, Wide) /\ IsBytes(t, Wide)
  BY <1>0, PutType DEF IsBytes
<1>2. IsBytes(kMagic, 4) /\ IsBytes(kVersion, 2) /\ IsBytes(z, 2)
  BY Constants DEF IsBytes
<1>3. RecordHeader(size, id, time) = e
  BY DEF RecordHeader
<1> HIDE DEF z, p, i, t
<1>4. IsBytes(a, 4 + 2) /\ Splits(a, kMagic, 4, kVersion)
  BY <1>2, Joined
<1> HIDE DEF a
<1>5. IsBytes(b, 6 + 2) /\ Splits(b, a, 6, z)
  <2>1. IsBytes(a, 6)
    BY <1>0, <1>4
  <2> QED
    BY <1>2, <2>1, Joined
<1> HIDE DEF b
<1>6. IsBytes(c, 8 + 2) /\ Splits(c, b, 8, p)
  <2>1. IsBytes(b, 8)
    BY <1>0, <1>5
  <2> QED
    BY <1>1, <2>1, Joined
<1> HIDE DEF c
<1>7. IsBytes(d, 10 + Wide) /\ Splits(d, c, 10, i)
  <2>1. IsBytes(c, 10)
    BY <1>0, <1>6
  <2> QED
    BY <1>1, <2>1, Joined
<1> HIDE DEF d
<1>8. IsBytes(e, (10 + Wide) + Wide) /\ Splits(e, d, 10 + Wide, t)
  BY <1>1, <1>7, Joined
<1> HIDE DEF e
<1>9. ASSUME NEW bytes, NEW offset \in Nat, Holds(bytes, offset, e)
      PROVE  /\ Holds(bytes, offset, kMagic) /\ Holds(bytes, offset + 4, kVersion)
             /\ Holds(bytes, offset + 8, p) /\ Holds(bytes, offset + 10, i)
             /\ Holds(bytes, offset + (10 + Wide), t)
  <2>1. Holds(bytes, offset, d) /\ Holds(bytes, offset + (10 + Wide), t)
    BY <1>8, <1>9 DEF Splits
  <2>2. Holds(bytes, offset, c) /\ Holds(bytes, offset + 10, i)
    BY <1>7, <2>1 DEF Splits
  <2>3. Holds(bytes, offset, b) /\ Holds(bytes, offset + 8, p)
    BY <1>6, <2>2 DEF Splits
  <2>4. Holds(bytes, offset, a)
    BY <1>5, <2>3 DEF Splits
  <2>5. Holds(bytes, offset, kMagic) /\ Holds(bytes, offset + 4, kVersion)
    BY <1>4, <2>4 DEF Splits
  <2> QED
    BY <2>1, <2>2, <2>3, <2>5
<1>10. e \in Seq(Byte) /\ Len(e) = kHeaderSize
  BY <1>0, <1>8 DEF IsBytes
<1> QED
  BY <1>3, <1>9, <1>10 DEF p, i, t

\* What the checksum covers.
Checked(tx) == RecordHeader(Len(Payload(tx)), tx.id, tx.created_at_ns) \o Payload(tx)

LEMMA RecordBytes ==
    ASSUME NEW tx \in Transaction
    PROVE  /\ Checked(tx) \in Seq(Byte) /\ Len(Checked(tx)) = kHeaderSize + Len(Payload(tx))
           /\ Record(tx) \in Seq(Byte)
           /\ Len(Record(tx)) = kHeaderSize + Len(Payload(tx)) + kCrcSize
           /\ Splits(Record(tx), Checked(tx), kHeaderSize + Len(Payload(tx)), ChecksumOf(Checked(tx)))
           /\ Splits(Checked(tx), RecordHeader(Len(Payload(tx)), tx.id, tx.created_at_ns), kHeaderSize,
                     Payload(tx))
<1> DEFINE P == Payload(tx)
           H == RecordHeader(Len(P), tx.id, tx.created_at_ns)
           C == Checked(tx)
           R == Record(tx)
           K == ChecksumOf(C)
<1>1. P \in Seq(Byte) /\ encode_transaction_payload(tx) = Value(P)
  BY PayloadBytes
<1>2. Len(P) \in Nat /\ Len(P) \in Int /\ encode_transaction_payload(tx).value = P
  <2> HIDE DEF P
  <2> QED
    BY <1>1, SMT DEF Value
<1>3. tx.id \in Int /\ tx.created_at_ns \in Int
  BY TransactionFields, FieldTypes
<1>4. IsBytes(H, kHeaderSize) /\ IsBytes(P, Len(P))
  BY <1>1, <1>2, <1>3, HeaderBytes DEF IsBytes
<1>5. IsBytes(K, kCrcSize)
  BY ChecksumType DEF IsBytes
<1>6. C = H \o P
  BY DEF Checked
<1>7. R = C \o K
  BY <1>2 DEF Record, Checked
<1> HIDE DEF P, H, C, R, K
<1>8. IsBytes(C, kHeaderSize + Len(P)) /\ Splits(C, H, kHeaderSize, P)
  BY <1>4, <1>6, Joined
<1>9. IsBytes(R, (kHeaderSize + Len(P)) + kCrcSize) /\ Splits(R, C, kHeaderSize + Len(P), K)
  BY <1>5, <1>7, <1>8, Joined
<1> QED
  BY <1>8, <1>9 DEF P, H, C, R, K, IsBytes

\* What a read yields when no check fails: n is the payload's size, record the
\* header and the payload.
LEMMA ReadAccepts ==
    ASSUME NEW cursor, NEW n, NEW record, NEW tx, NEW id, NEW time, NEW payload,
           ~ (Len(file) - cursor <= 0), ~ (Len(file) - cursor < kHeaderSize),
           SubSeq(file, cursor + 1, cursor + 4) = kMagic,
           SubSeq(file, cursor + 5, cursor + 6) = kVersion,
           get(file, cursor + 8, 2) = n, ~ (n > kMaxPayloadSize),
           ~ (Len(file) - cursor < (kHeaderSize + n) + kCrcSize),
           SubSeq(file, cursor + 1, cursor + (kHeaderSize + n)) = record,
           SubSeq(file, cursor + (kHeaderSize + n) + 1, cursor + (kHeaderSize + n) + kCrcSize)
             = ChecksumOf(record),
           SubSeq(record, kHeaderSize + 1, kHeaderSize + n) = payload,
           get(record, 10, Wide) = id, getSigned(record, 10 + Wide, Wide) = time,
           decode_transaction_payload(payload, id, time) = Value(tx)
    PROVE  read_next(cursor) = [outcome |-> "Ok", tx |-> tx, next |-> cursor + (kHeaderSize + n) + kCrcSize]
<1>1. decode_transaction_payload(SubSeq(record, kHeaderSize + 1, kHeaderSize + n),
                                 get(record, 10, Wide), getSigned(record, 10 + Wide, Wide)) = Value(tx)
  OBVIOUS
<1>2. Value(tx).ok /\ Value(tx).value = tx
  BY SMT DEF Value
<1> QED
  BY <1>1, <1>2 DEF read_next

\* A record lies at the offset, in one piece.
RecordAt(offset, tx) == Holds(file, offset, Record(tx)) /\ offset + Len(Record(tx)) <= Len(file)

\* A whole record is read as the transaction that was appended (wal_reader.cpp):
\* every check of the reader accepts what the writer writes, and the reader
\* goes on at the byte behind it.
THEOREM WholeRecordIsRead ==
    ASSUME file \in Seq(Byte), NEW cursor \in Nat, NEW tx \in Transaction, RecordAt(cursor, tx)
    PROVE  read_next(cursor) = [outcome |-> "Ok", tx |-> tx, next |-> cursor + Len(Record(tx))]
<1> DEFINE P == Payload(tx)
           n == Len(P)
           H == RecordHeader(n, tx.id, tx.created_at_ns)
           C == Checked(tx)
           K == ChecksumOf(C)
           m == kHeaderSize + n
<1>1. /\ P \in Seq(Byte) /\ n <= kMaxPayloadSize /\ encode_transaction_payload(tx) = Value(P)
  BY PayloadBytes
<1>2. decode_transaction_payload(P, tx.id, tx.created_at_ns) = Value(tx)
  <2>1. encode_transaction_payload(tx).value = P
    <3> HIDE DEF P
    <3> QED
      BY <1>1, SMT DEF Value
  <2> QED
    BY <2>1, DecodeUndoesEncode
<1>3. /\ C \in Seq(Byte) /\ Len(C) = m /\ Len(Record(tx)) = m + kCrcSize
      /\ Splits(Record(tx), C, m, K) /\ Splits(C, H, kHeaderSize, P)
  BY RecordBytes
<1>4. K \in Seq(Byte) /\ Len(K) = kCrcSize
  BY ChecksumType
<1>5. tx.id \in Field /\ tx.created_at_ns \in SignedField /\ tx.id \in Int /\ tx.created_at_ns \in Int
  BY TransactionFields, FieldTypes
<1> HIDE DEF P
<1>6. n \in Nat /\ n \in Int
  BY <1>1, SMT
<1>7. /\ kMagic \in Seq(Byte) /\ Len(kMagic) = 4 /\ kVersion \in Seq(Byte) /\ Len(kVersion) = 2
      /\ kHeaderSize \in Nat /\ kCrcSize = 4 /\ kHeaderSize = 10 + Wide + Wide
      /\ Wide \in Nat /\ Wide \in Nat \ {0}
  BY Constants, FieldTypes
<1>8. \A bytes : \A offset \in Nat : Holds(bytes, offset, H) =>
         /\ Holds(bytes, offset, kMagic) /\ Holds(bytes, offset + 4, kVersion)
         /\ Holds(bytes, offset + 8, put(n, 2)) /\ Holds(bytes, offset + 10, put(tx.id, Wide))
         /\ Holds(bytes, offset + (10 + Wide), put(tx.created_at_ns, Wide))
  BY <1>5, <1>6, HeaderBytes
<1> HIDE DEF n, H, C, K
<1>9. Holds(file, cursor, C) /\ Holds(file, cursor + m, K)
  BY <1>3 DEF RecordAt, Splits
<1>10. Holds(file, cursor, H)
  BY <1>3, <1>9 DEF Splits
<1>11. /\ Holds(file, cursor, kMagic) /\ Holds(file, cursor + 4, kVersion)
       /\ Holds(file, cursor + 8, put(n, 2))
  BY <1>8, <1>10
<1>12. Holds(C, 0, H) /\ Holds(C, 0 + kHeaderSize, P) /\ 0 \in Nat
  <2>1. Holds(C, 0, C) /\ 0 \in Nat
    BY HoldsItself, SMT
  <2> QED
    BY <1>3, <2>1 DEF Splits
<1>13. Holds(C, 0 + 10, put(tx.id, Wide)) /\ Holds(C, 0 + (10 + Wide), put(tx.created_at_ns, Wide))
  BY <1>8, <1>12
<1>14. /\ m \in Nat /\ m >= 10 /\ 0 + 10 = 10 /\ 0 + (10 + Wide) = 10 + Wide /\ 10 \in Nat /\ 10 + Wide \in Nat
       /\ 0 + kHeaderSize = kHeaderSize /\ cursor + 4 \in Nat /\ cursor + 8 \in Nat /\ cursor + m \in Nat
       /\ cursor + 4 + 1 = cursor + 5 /\ cursor + 4 + 2 = cursor + 6 /\ 2 \in Nat
  BY <1>6, <1>7, SMT
<1>15. Len(file) \in Nat /\ cursor + (m + 4) <= Len(file)
  BY <1>3, <1>7, SMT DEF RecordAt
<1> HIDE DEF m
<1>16. cursor + 4 <= Len(file) /\ cursor + 6 <= Len(file) /\ cursor + m <= Len(file)
       /\ (cursor + m) + 4 <= Len(file)
  BY <1>14, <1>15, SMT
<1>17. SubSeq(file, cursor + 1, cursor + 4) = kMagic
  <2>1. cursor + Len(kMagic) <= Len(file)
    BY <1>7, <1>16
  <2>2. SubSeq(file, cursor + 1, cursor + Len(kMagic)) = kMagic
    BY <1>7, <1>11, <2>1, HeldBytes
  <2> QED
    BY <1>7, <2>2
<1>18. SubSeq(file, cursor + 5, cursor + 6) = kVersion
  <2>1. cursor + 4 + Len(kVersion) <= Len(file)
    BY <1>7, <1>14, <1>16
  <2>2. SubSeq(file, cursor + 4 + 1, cursor + 4 + Len(kVersion)) = kVersion
    BY <1>7, <1>11, <1>14, <2>1, HeldBytes
  <2> QED
    BY <1>7, <1>14, <2>2
<1>19. get(file, cursor + 8, 2) = n
  <2>1. n \in 0 .. Values(2) - 1
    <3>1. n <= kMaxPayloadSize
      BY <1>1 DEF n
    <3> QED
      BY <1>6, <3>1, CodecBounds, ValuesOfTwo, SMT
  <2> QED
    BY <1>11, <1>14, <2>1, GetUnsigned
<1>20. SubSeq(file, cursor + 1, cursor + m) = C
  <2>1. cursor + Len(C) <= Len(file)
    BY <1>3, <1>16
  <2>2. SubSeq(file, cursor + 1, cursor + Len(C)) = C
    BY <1>3, <1>9, <2>1, HeldBytes
  <2> QED
    BY <1>3, <2>2
<1>21. SubSeq(file, cursor + m + 1, cursor + m + kCrcSize) = K
  <2>1. cursor + m + Len(K) <= Len(file)
    BY <1>4, <1>7, <1>16
  <2>2. SubSeq(file, cursor + m + 1, cursor + m + Len(K)) = K
    BY <1>4, <1>9, <1>14, <2>1, HeldBytes
  <2> QED
    BY <1>4, <2>2
<1>22. SubSeq(C, kHeaderSize + 1, m) = P
  <2>1. kHeaderSize + Len(P) <= Len(C) /\ Holds(C, kHeaderSize, P)
    BY <1>3, <1>6, <1>7, <1>12, <1>14, SMT DEF m, n
  <2>2. SubSeq(C, kHeaderSize + 1, kHeaderSize + Len(P)) = P
    BY <1>1, <1>3, <1>7, <2>1, HeldBytes
  <2> QED
    BY <2>2 DEF m, n
<1>23. get(C, 10, Wide) = tx.id
  <2>1. tx.id \in 0 .. Values(Wide) - 1 /\ Holds(C, 10, put(tx.id, Wide))
    BY <1>5, <1>13, <1>14 DEF Field
  <2> QED
    BY <1>7, <1>14, <2>1, GetUnsigned
<1>24. getSigned(C, 10 + Wide, Wide) = tx.created_at_ns
  <2>1. /\ tx.created_at_ns \in -(Values(Wide) \div 2) .. Values(Wide) \div 2 - 1
        /\ Holds(C, 10 + Wide, put(tx.created_at_ns, Wide))
    BY <1>5, <1>13, <1>14 DEF SignedField
  <2> QED
    BY <1>7, <1>14, <2>1, GetSigned
<1>25. /\ ~ (Len(file) - cursor <= 0) /\ ~ (Len(file) - cursor < kHeaderSize)
       /\ ~ (Len(file) - cursor < m + kCrcSize)
  <2>1. m >= kHeaderSize
    BY <1>6, <1>7, SMT DEF m
  <2> QED
    BY <1>7, <1>14, <1>15, <2>1, SMT
<1>26. ~ (n > kMaxPayloadSize)
  <2>1. n <= kMaxPayloadSize
    BY <1>1 DEF n
  <2> QED
    BY <1>6, <2>1, CodecBounds, SMT
<1>27. read_next(cursor) = [outcome |-> "Ok", tx |-> tx, next |-> cursor + m + kCrcSize]
  BY <1>2, <1>17, <1>18, <1>19, <1>20, <1>21, <1>22, <1>23, <1>24, <1>25, <1>26, ReadAccepts DEF m, K
<1>28. cursor + m + kCrcSize = cursor + Len(Record(tx))
  BY <1>3, <1>7, <1>14, SMT
<1> QED
  BY <1>27, <1>28

----------------------------------------------------------------------------
(* The records in the file. *)

LogEntry ==
    [tx : Transaction, from : Nat, to : Nat, condition : {"whole", "torn", "damaged"}]

EndOf(records, i) == IF i = 0 THEN 0 ELSE records[i].to

\* The records lie one behind the other in n bytes, without a gap.
Tiled(records, n) ==
    /\ records \in Seq(LogEntry)
    /\ \A i \in 1 .. Len(records) :
          records[i].from < records[i].to /\ records[i].from = EndOf(records, i - 1)
    /\ \A i, j \in 1 .. Len(records) : i < j => records[i].to <= records[j].from
    /\ EndOf(records, Len(records)) = n

\* The whole ones are in the file as they were written.
WholeIn(bytes, records) ==
    \A i \in 1 .. Len(records) : records[i].condition = "whole" =>
       /\ Holds(bytes, records[i].from, Record(records[i].tx))
       /\ records[i].to = records[i].from + Len(Record(records[i].tx))

Entry(tx, from, to, condition) == [tx |-> tx, from |-> from, to |-> to, condition |-> condition]

LEMMA EntryType ==
    ASSUME NEW r \in LogEntry
    PROVE  /\ r.tx \in Transaction /\ r.from \in Nat /\ r.to \in Nat
           /\ r.condition \in {"whole", "torn", "damaged"}
           /\ r = Entry(r.tx, r.from, r.to, r.condition)
  BY SMT DEF LogEntry, Entry

LEMMA EntryFields ==
    ASSUME NEW tx \in Transaction, NEW from \in Nat, NEW to \in Nat,
           NEW condition \in {"whole", "torn", "damaged"}
    PROVE  /\ Entry(tx, from, to, condition) \in LogEntry
           /\ Entry(tx, from, to, condition).tx = tx /\ Entry(tx, from, to, condition).from = from
           /\ Entry(tx, from, to, condition).to = to
           /\ Entry(tx, from, to, condition).condition = condition
  BY SMT DEF LogEntry, Entry

\* Where the records of a tiled log lie.
LEMMA TiledBounds ==
    ASSUME NEW records, NEW n, Tiled(records, n)
    PROVE  /\ Len(records) \in Nat /\ DOMAIN records = 1 .. Len(records) /\ n \in Nat
           /\ \A i \in 1 .. Len(records) :
                 /\ records[i] \in LogEntry /\ records[i].from \in Nat /\ records[i].to \in Nat
                 /\ records[i].from < records[i].to /\ records[i].to <= n
<1> DEFINE k == Len(records)
<1>1. records \in Seq(LogEntry) /\ EndOf(records, k) = n
  BY DEF Tiled
<1>2. k \in Nat /\ DOMAIN records = 1 .. k /\ \A i \in 1 .. k : records[i] \in LogEntry
  BY <1>1, SMT
<1> HIDE DEF k
<1>3. \A i \in 1 .. k : records[i].from \in Nat /\ records[i].to \in Nat
  BY <1>2, EntryType
<1>4. n \in Nat
  <2>1. CASE k = 0
    BY <1>1, <2>1, SMT DEF EndOf
  <2>2. CASE k # 0
    <3>1. k \in 1 .. k
      BY <1>2, <2>2, SMT
    <3> QED
      BY <1>1, <1>3, <2>2, <3>1 DEF EndOf
  <2> QED
    BY <2>1, <2>2
<1>5. ASSUME NEW i \in 1 .. k PROVE records[i].from < records[i].to /\ records[i].to <= n
  <2>1. records[i].from < records[i].to
    BY DEF Tiled, k
  <2>2. k \in 1 .. k /\ k # 0
    BY <1>2, SMT
  <2>3. records[k].to = n
    BY <1>1, <2>2 DEF EndOf
  <2>4. CASE i = k
    BY <1>4, <2>1, <2>3, <2>4, SMT
  <2>5. CASE i # k
    <3>1. i < k
      BY <1>2, <2>5, SMT
    <3>2. records[i].to <= records[k].from /\ records[k].from < records[k].to
      BY <2>2, <3>1 DEF Tiled, k
    <3>3. records[i].to \in Nat /\ records[k].from \in Nat /\ records[k].to \in Nat
      BY <1>3, <2>2
    <3> QED
      BY <2>1, <2>3, <3>2, <3>3, SMT
  <2> QED
    BY <2>4, <2>5
<1> QED
  BY <1>2, <1>3, <1>4, <1>5 DEF k

\* One more record, behind the others.
LEMMA TiledAppend ==
    ASSUME NEW records, NEW n, Tiled(records, n), NEW tx \in Transaction, NEW size \in Nat \ {0},
           NEW condition \in {"whole", "torn", "damaged"}
    PROVE  Tiled(Append(records, Entry(tx, n, n + size, condition)), n + size)
<1> DEFINE k == Len(records)
           e == Entry(tx, n, n + size, condition)
           new == Append(records, e)
<1>1. /\ k \in Nat /\ n \in Nat /\ records \in Seq(LogEntry)
      /\ \A i \in 1 .. k : records[i].from \in Nat /\ records[i].to \in Nat /\ records[i].to <= n
  BY TiledBounds DEF Tiled
<1>2. n + size \in Nat /\ n < n + size
  BY <1>1, SMT
<1>3. e \in LogEntry /\ e.from = n /\ e.to = n + size
  <2> DEFINE m == n + size
  <2>1. m \in Nat
    BY <1>2
  <2> HIDE DEF m
  <2>2. Entry(tx, n, m, condition) \in LogEntry
    BY <1>1, <2>1, EntryFields
  <2>3. Entry(tx, n, m, condition).from = n /\ Entry(tx, n, m, condition).to = m
    BY SMT DEF Entry
  <2> QED
    BY <2>2, <2>3, SMT DEF m, e
<1> HIDE DEF e
<1>4. /\ new \in Seq(LogEntry) /\ Len(new) = k + 1 /\ new[k + 1] = e
      /\ \A i \in 1 .. k : new[i] = records[i]
  BY <1>1, <1>3, SMT
<1> HIDE DEF new
<1>5. \A i \in 0 .. k : EndOf(new, i) = EndOf(records, i)
  <2>1. \A i \in 0 .. k : i # 0 => i \in 1 .. k
    BY SMT
  <2> QED
    BY <1>4, <2>1 DEF EndOf
<1>6. ASSUME NEW i \in 1 .. k + 1
      PROVE  new[i].from < new[i].to /\ new[i].from = EndOf(new, i - 1)
  <2>1. CASE i = k + 1
    <3>1. i - 1 = k /\ k \in 0 .. k
      BY <1>1, <2>1, SMT
    <3>2. EndOf(records, k) = n
      BY DEF Tiled
    <3> HIDE DEF k
    <3> QED
      BY <1>2, <1>3, <1>4, <1>5, <2>1, <3>1, <3>2
  <2>2. CASE i # k + 1
    <3>1. i \in 1 .. k /\ i - 1 \in 0 .. k
      BY <1>1, <2>2, SMT
    <3>2. records[i].from < records[i].to /\ records[i].from = EndOf(records, i - 1)
      BY <3>1 DEF Tiled
    <3> HIDE DEF k
    <3> QED
      BY <1>4, <1>5, <3>1, <3>2
  <2> QED
    BY <2>1, <2>2
<1>7. ASSUME NEW i \in 1 .. k + 1, NEW j \in 1 .. k + 1, i < j PROVE new[i].to <= new[j].from
  <2>1. i \in 1 .. k /\ (j = k + 1 \/ j \in 1 .. k)
    BY <1>1, <1>7, SMT
  <2>2. j \in 1 .. k => records[i].to <= records[j].from
    BY <1>7, <2>1 DEF Tiled
  <2> HIDE DEF k
  <2> QED
    BY <1>1, <1>3, <1>4, <2>1, <2>2
<1>8. EndOf(new, k + 1) = n + size
  <2>1. k + 1 # 0
    BY <1>1, SMT
  <2> HIDE DEF k
  <2> QED
    BY <1>3, <1>4, <2>1 DEF EndOf
<1> HIDE DEF k
<1>9. Tiled(new, n + size)
  BY <1>4, <1>6, <1>7, <1>8 DEF Tiled
<1> QED
  BY <1>9 DEF new, e

\* Bytes up to m that agree hold the same.
LEMMA HoldsSame ==
    ASSUME NEW bytes, NEW other, NEW s \in Seq(Byte), NEW offset \in Nat, Holds(bytes, offset, s),
           \A j \in offset + 1 .. offset + Len(s) : other[j] = bytes[j]
    PROVE  Holds(other, offset, s)
<1> SUFFICES ASSUME NEW j \in 1 .. Len(s) PROVE other[offset + j] = s[j]
  BY DEF Holds
<1>1. Len(s) \in Nat
  BY SMT
<1>2. offset + j \in offset + 1 .. offset + Len(s)
  BY <1>1, SMT
<1> QED
  BY <1>2 DEF Holds

\* A record that is whole afterwards was so before, and its bytes did not change.
LEMMA WholeKept ==
    ASSUME NEW bytes, NEW other, NEW records, NEW new, NEW n, Tiled(records, n), WholeIn(bytes, records),
           \A i \in 1 .. Len(new) : new[i].condition = "whole" =>
              /\ i \in 1 .. Len(records) /\ new[i] = records[i]
              /\ \A j \in records[i].from + 1 .. records[i].to : other[j] = bytes[j]
    PROVE  WholeIn(other, new)
<1> SUFFICES ASSUME NEW i \in 1 .. Len(new), new[i].condition = "whole"
             PROVE  /\ Holds(other, new[i].from, Record(new[i].tx))
                    /\ new[i].to = new[i].from + Len(Record(new[i].tx))
  BY DEF WholeIn
<1>1. /\ i \in 1 .. Len(records) /\ new[i] = records[i]
      /\ \A j \in records[i].from + 1 .. records[i].to : other[j] = bytes[j]
  OBVIOUS
<1> DEFINE r == records[i]
<1>2. r \in LogEntry /\ r.condition = "whole"
  BY <1>1, TiledBounds
<1>3. Holds(bytes, r.from, Record(r.tx)) /\ r.to = r.from + Len(Record(r.tx))
  BY <1>1, <1>2 DEF WholeIn
<1>4. \A j \in r.from + 1 .. r.to : other[j] = bytes[j]
  BY <1>1
<1> HIDE DEF r
<1>5. r.tx \in Transaction /\ r.from \in Nat
  BY <1>2, EntryType
<1>6. Record(r.tx) \in Seq(Byte)
  BY <1>5, RecordBytes
<1>7. Holds(other, r.from, Record(r.tx))
  BY <1>3, <1>4, <1>5, <1>6, HoldsSame
<1> QED
  BY <1>1, <1>3, <1>7 DEF r

\* The records that start in front of m are the first k.
LEMMA CutDomain ==
    ASSUME NEW records, NEW n, Tiled(records, n), NEW m \in Nat, m <= n
    PROVE  \E k \in 0 .. Len(records) :
              /\ {j \in DOMAIN records : records[j].from < m} = 1 .. k
              /\ k # Len(records) => records[k + 1].from >= m
              /\ \A i \in 1 .. k : records[i].from < m
<1> DEFINE l == Len(records)
           U == {i \in 1 .. l + 1 : i = l + 1 \/ ~ (records[i].from < m)}
<1>1. /\ l \in Nat /\ DOMAIN records = 1 .. l
      /\ \A i \in 1 .. l : /\ records[i].from \in Nat /\ records[i].to \in Nat
                           /\ records[i].from < records[i].to
  BY TiledBounds
<1>2. \A i, j \in 1 .. l : i < j => records[i].to <= records[j].from
  BY DEF Tiled
<1> HIDE DEF l
<1>3. PICK u \in U : \A y \in U : u <= y
  <2>1. U \subseteq Nat /\ U # {}
    <3>1. l + 1 \in U
      BY <1>1, SMT
    <3>2. U \subseteq Nat
      BY <1>1, SMT
    <3> QED
      BY <3>1, <3>2
  <2> HIDE DEF U
  <2> QED
    BY <2>1, LeastNat
<1>4. u \in 1 .. l + 1 /\ (u = l + 1 \/ ~ (records[u].from < m))
  BY <1>3
<1>5. \A i \in 1 .. u - 1 : i \in 1 .. l /\ records[i].from < m
  <2> SUFFICES ASSUME NEW i \in 1 .. u - 1 PROVE i \in 1 .. l /\ records[i].from < m
    OBVIOUS
  <2>1. i \in 1 .. l /\ i \in 1 .. l + 1 /\ ~ (u <= i)
    BY <1>1, <1>4, SMT
  <2>2. i \notin U
    <3> HIDE DEF U
    <3> QED
      BY <1>3, <2>1
  <2> QED
    BY <2>1, <2>2
<1>6. ASSUME NEW i \in 1 .. l, records[i].from < m PROVE i \in 1 .. u - 1
  <2>1. CASE u = l + 1
    BY <1>1, <2>1, SMT
  <2>2. CASE u # l + 1
    <3>1. u \in 1 .. l /\ ~ (records[u].from < m)
      BY <1>1, <1>4, <2>2, SMT
    <3>2. i # u
      BY <1>6, <3>1
    <3>3. ~ (u < i)
      <4>1. ASSUME u < i PROVE FALSE
        <5>1. records[u].to <= records[i].from
          BY <1>2, <3>1, <4>1
        <5> QED
          BY <1>1, <1>6, <3>1, <5>1, SMT
      <4> QED
        BY <4>1
    <3> QED
      BY <1>1, <3>1, <3>2, <3>3, SMT
  <2> QED
    BY <2>1, <2>2
<1>7. u - 1 \in 0 .. l /\ (u - 1) + 1 = u
  BY <1>1, <1>4, SMT
<1>8. {j \in DOMAIN records : records[j].from < m} = 1 .. u - 1
  BY <1>1, <1>5, <1>6
<1>9. u - 1 # l => records[(u - 1) + 1].from >= m
  <2> SUFFICES ASSUME u - 1 # l PROVE records[u].from >= m
    BY <1>7
  <2>1. u \in 1 .. l /\ ~ (records[u].from < m)
    BY <1>1, <1>4, SMT
  <2> QED
    BY <1>1, <2>1, SMT
<1> QED
  BY <1>5, <1>7, <1>8, <1>9 DEF l

\* What is left of one record.
CutEntry(r, m) == IF r.to <= m THEN r ELSE [r EXCEPT !.to = m, !.condition = "torn"]

LEMMA CutEntryFields ==
    ASSUME NEW r \in LogEntry, NEW m \in Nat, r.from < m, r.from < r.to
    PROVE  /\ CutEntry(r, m) \in LogEntry /\ CutEntry(r, m).from = r.from
           /\ CutEntry(r, m).from < CutEntry(r, m).to /\ CutEntry(r, m).to <= m
           /\ (r.to <= m => CutEntry(r, m) = r)
           /\ (CutEntry(r, m).condition # "torn" => CutEntry(r, m) = r /\ r.to <= m)
           /\ (~ (r.to <= m) => CutEntry(r, m).to = m)
<1>1. r.from \in Nat /\ r.to \in Nat
  BY EntryType
<1>2. CASE r.to <= m
  BY <1>1, <1>2, SMT DEF CutEntry
<1>3. CASE ~ (r.to <= m)
  <2> DEFINE c == [r EXCEPT !.to = m, !.condition = "torn"]
  <2>1. CutEntry(r, m) = c
    BY <1>3 DEF CutEntry
  <2>2. c \in LogEntry /\ c.from = r.from /\ c.to = m /\ c.condition = "torn"
    BY DEF LogEntry
  <2> HIDE DEF c
  <2> QED
    BY <1>1, <1>3, <2>1, <2>2, SMT
<1> QED
  BY <1>2, <1>3

\* What is left in the first m bytes is tiled, and what lies in them completely
\* is left as it is.
LEMMA CutTiles ==
    ASSUME NEW records, NEW n, Tiled(records, n), NEW m \in Nat, m <= n
    PROVE  /\ Tiled(Cut(records, m), m) /\ Len(Cut(records, m)) <= Len(records)
           /\ \A i \in 1 .. Len(Cut(records, m)) : Cut(records, m)[i].condition # "torn" =>
                 i \in 1 .. Len(records) /\ Cut(records, m)[i] = records[i] /\ records[i].to <= m
           /\ \A i \in 1 .. Len(records) : records[i].to <= m =>
                 i \in 1 .. Len(Cut(records, m)) /\ Cut(records, m)[i] = records[i]
<1> DEFINE l == Len(records)
           c == Cut(records, m)
<1>1. /\ l \in Nat /\ n \in Nat
      /\ \A i \in 1 .. l : /\ records[i] \in LogEntry /\ records[i].from \in Nat /\ records[i].to \in Nat
                           /\ records[i].from < records[i].to
  BY TiledBounds
<1>2. /\ \A i, j \in 1 .. l : i < j => records[i].to <= records[j].from
      /\ \A i \in 1 .. l : records[i].from = EndOf(records, i - 1)
      /\ EndOf(records, l) = n
  BY DEF Tiled
<1>3. PICK k \in 0 .. l :
         /\ {j \in DOMAIN records : records[j].from < m} = 1 .. k
         /\ k # l => records[k + 1].from >= m
         /\ \A i \in 1 .. k : records[i].from < m
  BY CutDomain
<1>4. c = [i \in 1 .. k |-> CutEntry(records[i], m)]
  BY <1>3 DEF Cut, CutEntry
<1> HIDE DEF l, c
<1>5. \A i \in 1 .. k : i \in 1 .. l
  BY <1>1, <1>3, SMT
<1>6. ASSUME NEW i \in 1 .. k
      PROVE  /\ CutEntry(records[i], m) \in LogEntry /\ CutEntry(records[i], m).from = records[i].from
             /\ CutEntry(records[i], m).from < CutEntry(records[i], m).to
             /\ CutEntry(records[i], m).to <= m
             /\ (records[i].to <= m => CutEntry(records[i], m) = records[i])
             /\ (CutEntry(records[i], m).condition # "torn" =>
                   CutEntry(records[i], m) = records[i] /\ records[i].to <= m)
             /\ (~ (records[i].to <= m) => CutEntry(records[i], m).to = m)
  <2>1. records[i] \in LogEntry /\ records[i].from < m /\ records[i].from < records[i].to
    BY <1>1, <1>3, <1>5
  <2> QED
    BY <2>1, CutEntryFields
<1>7. k \in Nat /\ c \in Seq(LogEntry) /\ Len(c) = k
  <2>1. k \in Nat
    BY <1>1, SMT
  <2> DEFINE e(i) == CutEntry(records[i], m)
  <2>2. \A i \in 1 .. k : e(i) \in LogEntry
    BY <1>6
  <2>3. c = [i \in 1 .. k |-> e(i)]
    BY <1>4
  <2> HIDE DEF e
  <2> QED
    BY <2>1, <2>2, <2>3, SMT
<1>8. \A i \in 1 .. k : c[i] = CutEntry(records[i], m)
  BY <1>4
<1>9. ASSUME NEW i \in 1 .. k, NEW j \in 1 .. k, i < j PROVE c[i] = records[i] /\ c[i].to <= c[j].from
  <2>1. records[i].to <= records[j].from /\ records[j].from < m /\ c[j].from = records[j].from
    BY <1>2, <1>3, <1>5, <1>6, <1>8, <1>9
  <2>2. records[i].to \in Nat /\ records[j].from \in Nat
    BY <1>1, <1>5
  <2>3. records[i].to <= m
    BY <2>1, <2>2, SMT
  <2>4. c[i] = records[i]
    BY <1>6, <1>8, <2>3
  <2> QED
    BY <2>1, <2>4
<1>10. ASSUME NEW i \in 1 .. k
       PROVE  c[i].from < c[i].to /\ c[i].from = EndOf(c, i - 1)
  <2>1. c[i].from < c[i].to /\ c[i].from = records[i].from /\ records[i].from = EndOf(records, i - 1)
    BY <1>2, <1>5, <1>6, <1>8
  <2>2. EndOf(c, i - 1) = EndOf(records, i - 1)
    <3>1. CASE i - 1 = 0
      BY <3>1 DEF EndOf
    <3>2. CASE i - 1 # 0
      <4>1. i - 1 \in 1 .. k /\ i - 1 < i
        BY <1>7, <3>2, SMT
      <4>2. c[i - 1] = records[i - 1]
        BY <1>9, <4>1
      <4> QED
        BY <3>2, <4>2 DEF EndOf
    <3> QED
      BY <3>1, <3>2
  <2> QED
    BY <2>1, <2>2
<1>11. EndOf(c, k) = m
  <2>1. CASE k = 0
    <3>1. CASE l = 0
      <4>1. n = 0
        BY <1>2, <3>1 DEF EndOf
      <4>2. m = 0
        BY <4>1, SMT
      <4> QED
        BY <2>1, <4>2 DEF EndOf
    <3>2. CASE l # 0
      <4>1. 1 \in 1 .. l /\ 1 - 1 = 0 /\ k + 1 = 1
        BY <1>1, <2>1, <3>2, SMT
      <4>2. records[1].from = 0
        BY <1>2, <4>1 DEF EndOf
      <4>3. records[1].from >= m
        BY <1>3, <2>1, <3>2, <4>1
      <4>4. m = 0
        BY <4>2, <4>3, SMT
      <4> QED
        BY <2>1, <4>4 DEF EndOf
    <3> QED
      BY <3>1, <3>2
  <2>2. CASE k # 0
    <3>1. k \in 1 .. k /\ k \in 1 .. l
      BY <1>1, <1>7, <2>2, SMT
    <3>2. EndOf(c, k) = c[k].to
      BY <2>2 DEF EndOf
    <3>3. CASE ~ (records[k].to <= m)
      BY <1>6, <1>8, <3>1, <3>2, <3>3
    <3>4. CASE records[k].to <= m
      <4>1. c[k].to = records[k].to
        BY <1>6, <1>8, <3>1, <3>4
      <4>2. records[k].to \in Nat
        BY <1>1, <3>1
      <4>3. CASE k = l
        <5>1. records[k].to = n
          BY <1>2, <2>2, <4>3 DEF EndOf
        <5> QED
          BY <1>1, <3>2, <3>4, <4>1, <4>2, <5>1, SMT
      <4>4. CASE k # l
        <5>1. k + 1 \in 1 .. l /\ (k + 1) - 1 = k
          BY <1>1, <1>7, <4>4, SMT
        <5>2. records[k + 1].from = records[k].to
          BY <1>2, <2>2, <5>1 DEF EndOf
        <5>3. records[k + 1].from >= m
          BY <1>3, <4>4
        <5> QED
          BY <3>2, <3>4, <4>1, <4>2, <5>2, <5>3, SMT
      <4> QED
        BY <4>3, <4>4
    <3> QED
      BY <3>3, <3>4
  <2> QED
    BY <2>1, <2>2
<1>12. Tiled(c, m)
  BY <1>7, <1>9, <1>10, <1>11 DEF Tiled
<1>13. k <= l
  BY <1>1, SMT
<1>14. \A i \in 1 .. k : c[i].condition # "torn" => i \in 1 .. l /\ c[i] = records[i] /\ records[i].to <= m
  BY <1>5, <1>6, <1>8
<1>15. ASSUME NEW i \in 1 .. l, records[i].to <= m PROVE i \in 1 .. k /\ c[i] = records[i]
  <2>1. i \in 1 .. k
    <3>1. CASE k = l
      BY <3>1
    <3>2. CASE k # l
      <4>1. k + 1 \in 1 .. l /\ records[k + 1].from >= m
        BY <1>1, <1>3, <1>7, <3>2, SMT
      <4>2. ASSUME k + 1 < i \/ k + 1 = i PROVE FALSE
        <5>1. k + 1 < i => records[k + 1].to <= records[i].from
          BY <1>2, <4>1
        <5> QED
          BY <1>1, <1>15, <4>1, <4>2, <5>1, SMT
      <4> QED
        BY <1>1, <1>7, <4>2, SMT
    <3> QED
      BY <3>1, <3>2
  <2> QED
    BY <1>6, <1>8, <1>15, <2>1
<1> QED
  BY <1>7, <1>12, <1>13, <1>14, <1>15 DEF c, l

----------------------------------------------------------------------------
(* What a read may find. *)

\* The bytes at an offset look like a record to the reader's last check: as
\* many as the size in its header says are there, and they match the checksum.
PassesChecksum(offset) ==
    LET size == kHeaderSize + get(file, offset + 8, 2)
    IN  /\ Len(file) - offset >= kHeaderSize
        /\ Len(file) - offset >= size + kCrcSize
        /\ SubSeq(file, offset + size + 1, offset + size + kCrcSize)
             = ChecksumOf(SubSeq(file, offset + 1, offset + size))

LEMMA SizeType ==
    ASSUME file \in Seq(Byte), NEW offset \in Nat, ~ (Len(file) - offset < kHeaderSize)
    PROVE  get(file, offset + 8, 2) \in Nat
<1>1. Len(file) \in Nat /\ kHeaderSize \in Nat /\ kHeaderSize >= 10
  BY Constants, FieldTypes, SMT
<1>2. ASSUME NEW i \in 1 .. 2 PROVE file[(offset + 8) + 2 + 1 - i] \in Byte
  <2>1. (offset + 8) + 2 + 1 - i \in 1 .. Len(file)
    BY <1>1, SMT
  <2> QED
    BY <2>1, SMT
<1>3. 2 \in Nat /\ 2 \in 0 .. 2
  BY SMT
<1>4. PICK f : IsGet(f, file, offset + 8, 2)
  BY <1>2, <1>3, GetRun
<1>5. f \in [0 .. 2 -> Nat] /\ get(file, offset + 8, 2) = f[2]
  BY <1>4 DEF IsGet
<1> QED
  BY <1>3, <1>5, SMT

LEMMA ReadOutcomes ==
    ASSUME file \in Seq(Byte), NEW cursor \in Nat
    PROVE  /\ read_next(cursor).outcome \in {"Ok", "EndOfLog", "Truncated", "Corrupt"}
           /\ read_next(cursor).outcome = "EndOfLog" <=> Len(file) - cursor <= 0
           /\ read_next(cursor).outcome = "Ok" =>
                /\ PassesChecksum(cursor)
                /\ read_next(cursor).next \in Nat /\ read_next(cursor).next <= Len(file)
<1> DEFINE left == Len(file) - cursor
           n == get(file, cursor + 8, 2)
           size == kHeaderSize + n
           record == SubSeq(file, cursor + 1, cursor + size)
           tx == decode_transaction_payload(SubSeq(record, kHeaderSize + 1, size),
                                            get(record, 10, Wide), getSigned(record, 10 + Wide, Wide))
           a == left <= 0
           b == left < kHeaderSize
           c == \/ SubSeq(file, cursor + 1, cursor + 4) # kMagic
                \/ SubSeq(file, cursor + 5, cursor + 6) # kVersion
                \/ n > kMaxPayloadSize
           d == left < size + kCrcSize
           e == SubSeq(file, cursor + size + 1, cursor + size + kCrcSize) # ChecksumOf(record)
           f == ~ tx.ok
           v == tx.value
           m == cursor + size + kCrcSize
<1>1. read_next(cursor) =
        IF a THEN [outcome |-> "EndOfLog"] ELSE IF b THEN [outcome |-> "Truncated"]
        ELSE IF c THEN [outcome |-> "Corrupt"] ELSE IF d THEN [outcome |-> "Truncated"]
        ELSE IF e THEN [outcome |-> "Corrupt"] ELSE IF f THEN [outcome |-> "Corrupt"]
        ELSE [outcome |-> "Ok", tx |-> v, next |-> m]
  BY DEF read_next
<1>2. ~ b /\ ~ d /\ ~ e => PassesChecksum(cursor) /\ m \in Nat /\ m <= Len(file)
  <2> SUFFICES ASSUME ~ b, ~ d, ~ e PROVE PassesChecksum(cursor) /\ m \in Nat /\ m <= Len(file)
    OBVIOUS
  <2>1. n \in Nat
    BY SizeType
  <2>2. Len(file) \in Nat /\ kHeaderSize \in Nat /\ kCrcSize \in Nat
    BY Constants, SMT
  <2>3. SubSeq(file, cursor + size + 1, cursor + size + kCrcSize) = ChecksumOf(record)
    OBVIOUS
  <2> HIDE DEF n, record
  <2>4. size \in Nat /\ left >= kHeaderSize /\ left >= size + kCrcSize /\ m \in Nat /\ m <= Len(file)
    BY <2>1, <2>2, SMT
  <2> QED
    BY <2>3, <2>4 DEF PassesChecksum, n, record
<1>3. a <=> Len(file) - cursor <= 0
  OBVIOUS
<1> HIDE DEF a, b, c, d, e, f, v, m
<1>4. CASE a
  <2>1. read_next(cursor).outcome = "EndOfLog"
    BY <1>1, <1>4, SMT
  <2> QED
    BY <1>3, <1>4, <2>1, SMT
<1>5. CASE ~ a
  <2>1. CASE ~ b /\ ~ c /\ ~ d /\ ~ e /\ ~ f
    <3>1. read_next(cursor).outcome = "Ok" /\ read_next(cursor).next = m
      BY <1>1, <1>5, <2>1, SMT
    <3> QED
      BY <1>2, <1>3, <1>5, <2>1, <3>1, SMT
  <2>2. CASE ~ (~ b /\ ~ c /\ ~ d /\ ~ e /\ ~ f)
    <3>1. read_next(cursor).outcome \in {"Truncated", "Corrupt"}
      <4>1. read_next(cursor) \in {[outcome |-> "Truncated"], [outcome |-> "Corrupt"]}
        BY <1>1, <1>5, <2>2
      <4> QED
        BY <4>1, SMT
    <3> QED
      BY <1>3, <1>5, <3>1, SMT
  <2> QED
    BY <2>1, <2>2
<1> QED
  BY <1>4, <1>5

----------------------------------------------------------------------------
(* The file and the records in it, for every behaviour. *)

ReaderType ==
    [open : BOOLEAN, cursor : Nat, last_valid_offset : Nat,
     outcome : {"Ok", "EndOfLog", "Truncated", "Corrupt"}]

\* The file consists of bytes, the records tile it, and those that are whole
\* are in it as they were written.
BytesInv ==
    /\ file \in Seq(Byte) /\ synced \in 0 .. Len(file)
    /\ Tiled(log, Len(file)) /\ WholeIn(file, log)
    /\ appends \in Nat /\ reader \in ReaderType
    /\ reader.open => reader.cursor <= Len(file) /\ reader.last_valid_offset <= Len(file)

LEMMA ReaderFields ==
    ASSUME NEW r \in ReaderType
    PROVE  /\ r.open \in BOOLEAN /\ r.cursor \in Nat /\ r.last_valid_offset \in Nat
           /\ r.outcome \in {"Ok", "EndOfLog", "Truncated", "Corrupt"}
           /\ r = [open |-> r.open, cursor |-> r.cursor, last_valid_offset |-> r.last_valid_offset,
                   outcome |-> r.outcome]
  BY SMT DEF ReaderType

LEMMA ClosedReaderIs == ClosedReader \in ReaderType /\ ~ ClosedReader.open
  BY SMT DEF ClosedReader, ReaderType

LEMMA TiledEmpty == Tiled(<<>>, 0) /\ \A bytes : WholeIn(bytes, <<>>)
<1>1. <<>> \in Seq(LogEntry) /\ Len(<<>>) = 0 /\ 1 .. 0 = {}
  BY SMT
<1>2. Tiled(<<>>, 0)
  BY <1>1 DEF Tiled, EndOf
<1>3. \A bytes : WholeIn(bytes, <<>>)
  BY <1>1 DEF WholeIn
<1> QED
  BY <1>2, <1>3

LEMMA BytesInit == Init => BytesInv
<1> SUFFICES ASSUME Init PROVE BytesInv
  OBVIOUS
<1>1. file = <<>> /\ synced = 0 /\ log = <<>> /\ reader = ClosedReader /\ appends = 0
  BY DEF Init
<1>2. <<>> \in Seq(Byte) /\ Len(<<>>) = 0 /\ 0 \in 0 .. 0 /\ 0 \in Nat
  BY SMT
<1> QED
  BY <1>1, <1>2, ClosedReaderIs, TiledEmpty DEF BytesInv

\* An append: bytes behind the file, a record behind the log.
LEMMA BytesAppended ==
    ASSUME BytesInv, NEW tx \in Transaction, NEW s \in Seq(Byte), Len(s) >= 1,
           NEW condition \in {"whole", "torn", "damaged"}, condition = "whole" => s = Record(tx)
    PROVE  /\ file \o s \in Seq(Byte) /\ Len(file \o s) = Len(file) + Len(s)
           /\ Tiled(Logged(tx, Len(s), condition), Len(file \o s))
           /\ WholeIn(file \o s, Logged(tx, Len(s), condition))
<1> DEFINE n == Len(file)
           new == Append(log, Entry(tx, n, n + Len(s), condition))
<1>1. file \in Seq(Byte) /\ Tiled(log, n) /\ WholeIn(file, log)
  BY DEF BytesInv
<1>2. /\ file \o s \in Seq(Byte) /\ Len(file \o s) = n + Len(s) /\ n \in Nat /\ Len(s) \in Nat
      /\ \A j \in 1 .. n : (file \o s)[j] = file[j]
      /\ \A j \in 1 .. Len(s) : (file \o s)[n + j] = s[j]
  BY <1>1, Concatenation
<1>3. Len(s) \in Nat \ {0}
  BY <1>2, SMT
<1>4. Logged(tx, Len(s), condition) = new
  BY DEF Logged, Entry
<1>5. Tiled(new, n + Len(s))
  BY <1>1, <1>3, TiledAppend
<1>6. Len(log) \in Nat /\ log \in Seq(LogEntry) /\ Tiled(log, n)
      /\ \A i \in 1 .. Len(log) : log[i].from \in Nat /\ log[i].to \in Nat /\ log[i].to <= n
  <2>1. log \in Seq(LogEntry)
    BY <1>1 DEF Tiled
  <2> QED
    BY <1>1, <2>1, TiledBounds
<1> DEFINE e == Entry(tx, n, n + Len(s), condition)
<1>7. e \in LogEntry /\ e.from = n /\ e.to = n + Len(s) /\ e.tx = tx /\ e.condition = condition
  <2> HIDE DEF n
  <2> QED
    BY <1>2, SMT DEF Entry, LogEntry
<1> HIDE DEF e
<1>8. /\ Len(new) = Len(log) + 1 /\ new[Len(log) + 1] = e
      /\ \A i \in 1 .. Len(log) : new[i] = log[i]
  <2>1. new = Append(log, e)
    BY DEF e
  <2> HIDE DEF new
  <2> QED
    BY <1>6, <1>7, <2>1, SMT
<1> HIDE DEF n, new
<1>9. WholeIn(file \o s, new)
  <2> SUFFICES ASSUME NEW i \in 1 .. Len(new), new[i].condition = "whole"
               PROVE  /\ Holds(file \o s, new[i].from, Record(new[i].tx))
                      /\ new[i].to = new[i].from + Len(Record(new[i].tx))
    BY DEF WholeIn
  <2>1. CASE i \in 1 .. Len(log)
    <3>1. log[i].condition = "whole" /\ new[i] = log[i]
      BY <1>8, <2>1
    <3>2. Holds(file, log[i].from, Record(log[i].tx)) /\ log[i].to = log[i].from + Len(Record(log[i].tx))
      BY <1>1, <2>1, <3>1 DEF WholeIn
    <3>3. log[i].tx \in Transaction /\ log[i].from \in Nat /\ log[i].to \in Nat /\ log[i].to <= n
      <4>1. log[i] \in LogEntry
        BY <1>6, <2>1, TiledBounds
      <4> QED
        BY <1>6, <2>1, <4>1, EntryType
    <3>4. Record(log[i].tx) \in Seq(Byte)
      BY <3>3, RecordBytes
    <3>5. \A j \in log[i].from + 1 .. log[i].from + Len(Record(log[i].tx)) : (file \o s)[j] = file[j]
      <4>1. \A j \in log[i].from + 1 .. log[i].to : j \in 1 .. n
        BY <1>2, <3>3, SMT
      <4> QED
        BY <1>2, <3>2, <4>1 DEF n
    <3>6. Holds(file \o s, log[i].from, Record(log[i].tx))
      BY <3>2, <3>3, <3>4, <3>5, HoldsSame
    <3> QED
      BY <3>1, <3>2, <3>6
  <2>2. CASE i \notin 1 .. Len(log)
    <3>1. i = Len(log) + 1
      BY <1>6, <1>8, <2>2, SMT
    <3>2. new[i] = e /\ s = Record(tx)
      BY <1>7, <1>8, <3>1
    <3>3. Holds(file \o s, n, s)
      BY <1>2 DEF Holds, n
    <3> QED
      BY <1>7, <3>2, <3>3
  <2> QED
    BY <2>1, <2>2
<1> QED
  BY <1>2, <1>4, <1>5, <1>9 DEF n

\* A cut: the first m bytes, and what is left of the records in them.
LEMMA BytesCut ==
    ASSUME BytesInv, NEW m \in Nat, m <= Len(file)
    PROVE  /\ SubSeq(file, 1, m) \in Seq(Byte) /\ Len(SubSeq(file, 1, m)) = m
           /\ Tiled(Cut(log, m), m) /\ WholeIn(SubSeq(file, 1, m), Cut(log, m))
<1> DEFINE new == Cut(log, m)
           other == SubSeq(file, 1, m)
<1>1. file \in Seq(Byte) /\ Tiled(log, Len(file)) /\ WholeIn(file, log)
  BY DEF BytesInv
<1>2. other \in Seq(Byte) /\ Len(other) = m /\ \A j \in 1 .. m : other[j] = file[j]
  BY <1>1, SMT
<1>3. Tiled(new, m)
  BY <1>1, CutTiles
<1>4. \A i \in 1 .. Len(new) : new[i].condition # "torn" =>
        i \in 1 .. Len(log) /\ new[i] = log[i] /\ log[i].to <= m
  BY <1>1, CutTiles
<1>5. \A i \in 1 .. Len(log) : log[i].from \in Nat /\ log[i].to \in Nat
  BY <1>1, TiledBounds
<1> HIDE DEF new, other
<1>6. ASSUME NEW i \in 1 .. Len(new), new[i].condition = "whole"
      PROVE  /\ i \in 1 .. Len(log) /\ new[i] = log[i]
             /\ \A j \in log[i].from + 1 .. log[i].to : other[j] = file[j]
  <2>1. new[i].condition # "torn"
    BY <1>6, SMT
  <2>2. i \in 1 .. Len(log) /\ new[i] = log[i] /\ log[i].to <= m
    BY <1>4, <2>1
  <2>3. \A j \in log[i].from + 1 .. log[i].to : j \in 1 .. m
    BY <1>5, <2>2, SMT
  <2> QED
    BY <1>2, <2>2, <2>3
<1>7. WholeIn(other, new)
  BY <1>1, <1>6, WholeKept
<1> QED
  BY <1>2, <1>3, <1>7 DEF new, other

LEMMA TiledSame ==
    ASSUME NEW records, NEW n, Tiled(records, n), NEW new \in Seq(LogEntry), Len(new) = Len(records),
           \A i \in 1 .. Len(records) : new[i].from = records[i].from /\ new[i].to = records[i].to
    PROVE  Tiled(new, n)
<1>1. Len(records) \in Nat
  BY TiledBounds
<1>2. \A i \in 0 .. Len(records) : EndOf(new, i) = EndOf(records, i)
  <2>1. \A i \in 0 .. Len(records) : i # 0 => i \in 1 .. Len(records)
    BY <1>1, SMT
  <2> QED
    BY <2>1 DEF EndOf
<1>3. Len(records) \in 0 .. Len(records) /\ \A i \in 1 .. Len(records) : i - 1 \in 0 .. Len(records)
  BY <1>1, SMT
<1>4. /\ \A i \in 1 .. Len(records) :
            records[i].from < records[i].to /\ records[i].from = EndOf(records, i - 1)
      /\ \A i, j \in 1 .. Len(records) : i < j => records[i].to <= records[j].from
      /\ EndOf(records, Len(records)) = n
  BY DEF Tiled
<1>5. \A i \in 1 .. Len(new) : new[i].from < new[i].to /\ new[i].from = EndOf(new, i - 1)
  BY <1>2, <1>3, <1>4
<1>6. \A i, j \in 1 .. Len(new) : i < j => new[i].to <= new[j].from
  BY <1>4
<1>7. EndOf(new, Len(new)) = n
  BY <1>2, <1>3, <1>4
<1> QED
  BY <1>5, <1>6, <1>7 DEF Tiled

\* What damage to byte i makes of a record.
Hurt(r, i) ==
    IF r.from < i /\ i <= r.to /\ r.condition = "whole" THEN [r EXCEPT !.condition = "damaged"] ELSE r

IsHurt(q, r, i) ==
    /\ q \in LogEntry /\ q.from = r.from /\ q.to = r.to /\ q.tx = r.tx
    /\ (q.condition = "torn" => r.condition = "torn")
    /\ (q.condition = "whole" => q = r /\ ~ (r.from < i /\ i <= r.to))

LEMMA HurtFields ==
    ASSUME NEW r \in LogEntry, NEW i
    PROVE  IsHurt(Hurt(r, i), r, i)
<1> DEFINE d == [r EXCEPT !.condition = "damaged"]
<1>1. d \in LogEntry /\ d.from = r.from /\ d.to = r.to /\ d.tx = r.tx /\ d.condition = "damaged"
  BY SMT DEF LogEntry
<1>2. Hurt(r, i) = IF r.from < i /\ i <= r.to /\ r.condition = "whole" THEN d ELSE r
  BY DEF Hurt
<1> HIDE DEF d
<1>3. CASE r.from < i /\ i <= r.to /\ r.condition = "whole"
  <2>1. Hurt(r, i) = d
    BY <1>2, <1>3
  <2>2. d.condition # "whole" /\ d.condition # "torn"
    BY <1>1, SMT
  <2> QED
    BY <1>1, <2>1, <2>2 DEF IsHurt
<1>4. CASE ~ (r.from < i /\ i <= r.to /\ r.condition = "whole")
  <2>1. Hurt(r, i) = r
    BY <1>2, <1>4
  <2> QED
    BY <1>4, <2>1 DEF IsHurt
<1> QED
  BY <1>3, <1>4

LEMMA ByteIsInt == Byte \subseteq Int
  BY SMT DEF Byte

\* A file in which byte i is changed.
Flipped(bytes, i, d) == [bytes EXCEPT ![i] = (@ + d) % 256]

LEMMA BytesDamaged ==
    ASSUME BytesInv, NEW i \in DOMAIN file, NEW d \in Int
    PROVE  /\ Flipped(file, i, d) \in Seq(Byte)
           /\ Len(Flipped(file, i, d)) = Len(file)
           /\ Tiled([k \in DOMAIN log |-> Hurt(log[k], i)], Len(file))
           /\ WholeIn(Flipped(file, i, d), [k \in DOMAIN log |-> Hurt(log[k], i)])
<1> USE DEF Flipped
<1> DEFINE other == [file EXCEPT ![i] = (@ + d) % 256]
           new == [k \in DOMAIN log |-> Hurt(log[k], i)]
<1>1. file \in Seq(Byte) /\ Tiled(log, Len(file)) /\ WholeIn(file, log)
  BY DEF BytesInv
<1>2. /\ Len(log) \in Nat /\ DOMAIN log = 1 .. Len(log)
      /\ \A k \in 1 .. Len(log) : log[k] \in LogEntry /\ log[k].from \in Nat /\ log[k].to \in Nat
  BY <1>1, TiledBounds
<1>3. i \in 1 .. Len(file) /\ file[i] \in Byte /\ Len(file) \in Nat
  BY <1>1, SMT
<1>4. (file[i] + d) % 256 \in Byte
  <2>1. file[i] \in Int
    BY <1>3, ByteIsInt
  <2>2. file[i] + d \in Int
    BY <2>1, SMT
  <2> QED
    BY <2>2, ByteSplit, SMT DEF Byte
<1>5. other \in Seq(Byte) /\ Len(other) = Len(file) /\ \A j \in 1 .. Len(file) : j # i => other[j] = file[j]
  <2> DEFINE b == (file[i] + d) % 256
  <2>1. other = [file EXCEPT ![i] = b]
    BY SMT
  <2>2. b \in Byte
    BY <1>4, SMT
  <2> HIDE DEF b, other
  <2> QED
    BY <1>1, <1>3, <2>1, <2>2, SMT
<1>6. \A k \in 1 .. Len(log) : IsHurt(Hurt(log[k], i), log[k], i)
  BY <1>2, HurtFields
<1>7. new \in Seq(LogEntry) /\ Len(new) = Len(log) /\ \A k \in 1 .. Len(log) : new[k] = Hurt(log[k], i)
  <2> DEFINE e(k) == Hurt(log[k], i)
  <2>1. \A k \in 1 .. Len(log) : e(k) \in LogEntry
    BY <1>6 DEF IsHurt
  <2>2. new = [k \in 1 .. Len(log) |-> e(k)]
    BY <1>2
  <2> HIDE DEF e, new
  <2>3. new \in Seq(LogEntry) /\ Len(new) = Len(log) /\ \A k \in 1 .. Len(log) : new[k] = e(k)
    BY <1>2, <2>1, <2>2, SMT
  <2> QED
    BY <2>3 DEF e
<1> HIDE DEF other, new
<1>8. Tiled(new, Len(file))
  <2>1. \A k \in 1 .. Len(log) : new[k].from = log[k].from /\ new[k].to = log[k].to
    BY <1>6, <1>7 DEF IsHurt
  <2> QED
    BY <1>1, <1>7, <2>1, TiledSame
<1>9. ASSUME NEW k \in 1 .. Len(new), new[k].condition = "whole"
      PROVE  /\ k \in 1 .. Len(log) /\ new[k] = log[k]
             /\ \A j \in log[k].from + 1 .. log[k].to : other[j] = file[j]
  <2>1. k \in 1 .. Len(log) /\ new[k] = log[k] /\ ~ (log[k].from < i /\ i <= log[k].to)
    BY <1>6, <1>7, <1>9 DEF IsHurt
  <2>2. log[k].from \in Nat /\ log[k].to \in Nat /\ log[k].to <= Len(file)
    BY <1>1, <2>1, TiledBounds
  <2>3. \A j \in log[k].from + 1 .. log[k].to : j \in 1 .. Len(file) /\ j # i
    BY <1>3, <2>1, <2>2, SMT
  <2> QED
    BY <1>5, <2>1, <2>3
<1>10. WholeIn(other, new)
  BY <1>1, <1>9, WholeKept
<1> QED
  BY <1>5, <1>8, <1>10 DEF other, new

LEMMA StampedType ==
    ASSUME NEW tx \in Transactions, appends \in Nat, appends < Len(Clock)
    PROVE  Stamped(tx) \in Transaction
<1>1. tx \in Transaction /\ Clock \in Seq(SignedField)
  BY WalFileAssumption, SMT
<1>2. Clock[appends + 1] \in SignedField
  BY <1>1, SMT
<1> DEFINE c == Clock[appends + 1]
<1> HIDE DEF c
<1>3. [tx EXCEPT !.created_at_ns = c] \in Transaction
  BY <1>1, <1>2, SMT DEF Transaction, c
<1> QED
  BY <1>3 DEF Stamped, c

LEMMA RecordSize ==
    ASSUME NEW tx \in Transaction
    PROVE  Record(tx) \in Seq(Byte) /\ Len(Record(tx)) \in Nat /\ Len(Record(tx)) >= 1
<1>1. Payload(tx) \in Seq(Byte)
  BY PayloadBytes
<1>2. Record(tx) \in Seq(Byte) /\ Len(Record(tx)) = kHeaderSize + Len(Payload(tx)) + kCrcSize
  BY RecordBytes
<1>3. Len(Payload(tx)) \in Nat
  BY <1>1, SMT
<1>4. kHeaderSize \in Nat /\ kCrcSize = 4
  BY Constants
<1> QED
  BY <1>2, <1>3, <1>4, SMT

LEMMA ReaderSet ==
    ASSUME NEW r \in ReaderType, NEW c \in Nat, NEW l \in Nat,
           NEW o \in {"Ok", "EndOfLog", "Truncated", "Corrupt"}
    PROVE  LET q == [open |-> r.open, cursor |-> c, last_valid_offset |-> l, outcome |-> o]
           IN  q \in ReaderType /\ q.open = r.open /\ q.cursor = c /\ q.last_valid_offset = l /\ q.outcome = o
  BY SMT DEF ReaderType

IsReader(q, r, c, l, o) ==
    q \in ReaderType /\ q.open = r.open /\ q.cursor = c /\ q.last_valid_offset = l /\ q.outcome = o

LEMMA ReaderExcept ==
    ASSUME NEW r \in ReaderType, NEW c \in Nat, NEW l \in Nat,
           NEW o \in {"Ok", "EndOfLog", "Truncated", "Corrupt"}
    PROVE  IsReader([r EXCEPT !.cursor = c, !.last_valid_offset = l, !.outcome = o], r, c, l, o)
<1> DEFINE q == [r EXCEPT !.cursor = c, !.last_valid_offset = l, !.outcome = o]
<1>1. q \in ReaderType
  BY DEF ReaderType
<1>2. q.open = r.open /\ q.cursor = c /\ q.last_valid_offset = l /\ q.outcome = o
  BY SMT DEF ReaderType
<1> QED
  BY <1>1, <1>2 DEF IsReader

\* What read_next makes of the reader.
LEMMA ReadNextIs ==
    ASSUME ReadNext, reader \in ReaderType, file \in Seq(Byte)
    PROVE  LET read == read_next(reader.cursor)
           IN  /\ reader.open /\ reader' \in ReaderType /\ reader'.open = reader.open
               /\ reader'.outcome = read.outcome
               /\ reader'.cursor = IF read.outcome = "Ok" THEN read.next ELSE reader.cursor
               /\ reader'.last_valid_offset = IF read.outcome = "Ok" THEN read.next
                                              ELSE reader.last_valid_offset
<1> DEFINE read == read_next(reader.cursor)
           next == IF read.outcome = "Ok" THEN read.next ELSE reader.cursor
           l == IF read.outcome = "Ok" THEN next ELSE reader.last_valid_offset
           o == read.outcome
<1>1. reader.open /\ reader' = [reader EXCEPT !.cursor = next, !.last_valid_offset = l, !.outcome = o]
  BY DEF ReadNext
<1>2. reader.cursor \in Nat /\ reader.last_valid_offset \in Nat
  BY ReaderFields
<1>3. o \in {"Ok", "EndOfLog", "Truncated", "Corrupt"} /\ (o = "Ok" => read.next \in Nat)
  BY <1>2, ReadOutcomes
<1> HIDE DEF read
<1>4. next \in Nat /\ l \in Nat
  BY <1>2, <1>3
<1>5. l = IF read.outcome = "Ok" THEN read.next ELSE reader.last_valid_offset
  OBVIOUS
<1> HIDE DEF l, o
<1>6. /\ reader' \in ReaderType /\ reader'.open = reader.open
      /\ reader'.cursor = next /\ reader'.last_valid_offset = l /\ reader'.outcome = o
  <2> HIDE DEF next
  <2>1. IsReader([reader EXCEPT !.cursor = next, !.last_valid_offset = l, !.outcome = o], reader, next, l, o)
    BY <1>3, <1>4, ReaderExcept
  <2> QED
    BY <1>1, <2>1 DEF IsReader
<1> QED
  BY <1>1, <1>5, <1>6 DEF read, o

LEMMA SeekIs ==
    ASSUME Seek, reader \in ReaderType
    PROVE  /\ reader.open
           /\ \E i \in DOMAIN log :
                /\ \A j \in 1 .. i : log[j].condition = "whole"
                /\ reader' = [open |-> reader.open, cursor |-> log[i].to,
                              last_valid_offset |-> log[i].to, outcome |-> "Ok"]
<1>1. PICK i \in DOMAIN log :
         /\ \A j \in 1 .. i : log[j].condition = "whole"
         /\ reader' = [reader EXCEPT !.cursor = log[i].to, !.last_valid_offset = log[i].to, !.outcome = "Ok"]
  BY DEF Seek
<1> DEFINE t == log[i].to
<1>2. reader' = [reader EXCEPT !.cursor = t, !.last_valid_offset = t, !.outcome = "Ok"]
  BY <1>1
<1> HIDE DEF t
<1>3. reader' = [open |-> reader.open, cursor |-> t, last_valid_offset |-> t, outcome |-> "Ok"]
  BY <1>2 DEF ReaderType
<1> QED
  BY <1>1, <1>3 DEF Seek, t

LEMMA BytesNext ==
    ASSUME file' \in Seq(Byte), synced' \in 0 .. Len(file'), Tiled(log', Len(file')), WholeIn(file', log'),
           appends' \in Nat, reader' \in ReaderType,
           reader'.open => reader'.cursor <= Len(file') /\ reader'.last_valid_offset <= Len(file')
    PROVE  BytesInv'
  BY DEF BytesInv

\* The file, the log and the counter stay, and the reader does not leave the
\* file.
LEMMA BytesStay ==
    ASSUME BytesInv, UNCHANGED <<file, log, appends>>, synced' \in 0 .. Len(file), reader' \in ReaderType,
           reader'.open => reader'.cursor <= Len(file) /\ reader'.last_valid_offset <= Len(file)
    PROVE  BytesInv'
<1>1. file' = file /\ log' = log /\ appends' = appends
  OBVIOUS
<1>2. file \in Seq(Byte) /\ Tiled(log, Len(file)) /\ WholeIn(file, log) /\ appends \in Nat
  BY DEF BytesInv
<1> QED
  BY <1>1, <1>2, BytesNext

LEMMA BytesWriterStep ==
    ASSUME BytesInv, UNCHANGED <<file, log, appends, reader>>, synced' \in {synced, Len(file)}
    PROVE  BytesInv'
<1>1. /\ reader' = reader /\ reader \in ReaderType /\ file \in Seq(Byte) /\ synced \in 0 .. Len(file)
      /\ reader.open => reader.cursor <= Len(file) /\ reader.last_valid_offset <= Len(file)
  BY DEF BytesInv
<1>2. Len(file) \in Nat
  BY <1>1, SMT
<1>3. synced' \in 0 .. Len(file)
  BY <1>1, <1>2, SMT
<1> QED
  BY <1>1, <1>3, BytesStay

LEMMA BytesAppendStep ==
    ASSUME BytesInv, NEW tx \in Transaction, NEW s \in Seq(Byte), Len(s) >= 1,
           NEW condition \in {"whole", "torn", "damaged"}, condition = "whole" => s = Record(tx),
           file' = file \o s, log' = Logged(tx, Len(s), condition), appends' = appends + 1,
           reader' = reader, synced' \in {synced, Len(file')}
    PROVE  BytesInv'
<1>1. /\ reader \in ReaderType /\ file \in Seq(Byte) /\ synced \in 0 .. Len(file) /\ appends \in Nat
      /\ reader.open => reader.cursor <= Len(file) /\ reader.last_valid_offset <= Len(file)
  BY DEF BytesInv
<1>2. /\ file' \in Seq(Byte) /\ Len(file') = Len(file) + Len(s)
      /\ Tiled(log', Len(file')) /\ WholeIn(file', log')
  BY BytesAppended
<1>3. Len(file) \in Nat /\ Len(s) \in Nat
  BY <1>1, SMT
<1>4. Len(file) <= Len(file') /\ synced' \in 0 .. Len(file') /\ Len(file') \in Nat
  BY <1>1, <1>2, <1>3, SMT
<1>5. appends' \in Nat
  BY <1>1, SMT
<1>6. reader'.open => reader'.cursor <= Len(file') /\ reader'.last_valid_offset <= Len(file')
  <2>1. reader.cursor \in Nat /\ reader.last_valid_offset \in Nat
    BY <1>1, ReaderFields
  <2> QED
    BY <1>1, <1>3, <1>4, <2>1, SMT
<1> QED
  BY <1>1, <1>2, <1>4, <1>5, <1>6, BytesNext

LEMMA BytesCutStep ==
    ASSUME BytesInv, NEW m \in Nat, m <= Len(file), file' = SubSeq(file, 1, m), synced' = m,
           log' = Cut(log, m), reader' = ClosedReader, appends' = appends
    PROVE  BytesInv'
<1>1. file' \in Seq(Byte) /\ Len(file') = m /\ Tiled(log', m) /\ WholeIn(file', log')
  BY BytesCut
<1>2. m \in 0 .. m
  BY SMT
<1>3. appends' \in Nat /\ synced' \in 0 .. Len(file') /\ Tiled(log', Len(file'))
  BY <1>1, <1>2 DEF BytesInv
<1>4. reader' \in ReaderType /\ ~ reader'.open
  BY ClosedReaderIs
<1> QED
  BY <1>1, <1>3, <1>4, BytesNext

LEMMA BytesStep == BytesInv /\ [Next]_vars => BytesInv'
<1> SUFFICES ASSUME BytesInv, [Next]_vars PROVE BytesInv'
  OBVIOUS
<1>0. /\ reader \in ReaderType /\ file \in Seq(Byte) /\ synced \in 0 .. Len(file) /\ appends \in Nat
      /\ reader.open => reader.cursor <= Len(file) /\ reader.last_valid_offset <= Len(file)
      /\ Tiled(log, Len(file))
  BY DEF BytesInv
<1>1. Len(file) \in Nat /\ 0 \in Nat /\ 0 <= Len(file) /\ Len(file) <= Len(file)
  BY <1>0, SMT
<1>2. ASSUME CloseWriter \/ Flush \/ (\E mode \in Modes : OpenWriter(mode)) \/ UNCHANGED vars PROVE BytesInv'
  <2>1. UNCHANGED <<file, log, appends, reader>> /\ synced' \in {synced, Len(file)}
    BY <1>2 DEF CloseWriter, Flush, OpenWriter, vars
  <2> QED
    BY <2>1, BytesWriterStep
<1>3. ASSUME NEW tx \in Transactions, AppendWhole(tx) PROVE BytesInv'
  <2> DEFINE t == Stamped(tx)
             s == Record(t)
  <2>1. /\ appends < Len(Clock) /\ appends' = appends + 1 /\ file' = file \o s
        /\ log' = Logged(t, Len(s), "whole") /\ reader' = reader /\ synced' \in {synced, Len(file')}
    BY <1>3 DEF AppendWhole, Appending
  <2>2. t \in Transaction
    BY <1>0, <2>1, StampedType
  <2> HIDE DEF t
  <2>3. s \in Seq(Byte) /\ Len(s) >= 1
    BY <2>2, RecordSize
  <2>4. "whole" \in {"whole", "torn", "damaged"}
    OBVIOUS
  <2> QED
    BY <2>1, <2>2, <2>3, <2>4, BytesAppendStep
<1>4. ASSUME NEW tx \in Transactions, AppendTorn(tx) PROVE BytesInv'
  <2> DEFINE t == Stamped(tx)
             record == Record(t)
  <2>1. /\ appends < Len(Clock) /\ appends' = appends + 1 /\ reader' = reader /\ synced' = synced
    BY <1>4 DEF AppendTorn, Appending
  <2>2. PICK n \in 1 .. Len(record) - 1 : file' = file \o SubSeq(record, 1, n) /\ log' = Logged(t, n, "torn")
    BY <1>4 DEF AppendTorn
  <2>3. t \in Transaction
    BY <1>0, <2>1, StampedType
  <2>4. record \in Seq(Byte) /\ Len(record) \in Nat
    BY <2>3, RecordSize
  <2> DEFINE s == SubSeq(record, 1, n)
  <2> HIDE DEF t, record
  <2>5. s \in Seq(Byte) /\ Len(s) = n /\ Len(s) >= 1
    BY <2>4, SMT
  <2>6. file' = file \o s /\ log' = Logged(t, Len(s), "torn")
    BY <2>2, <2>5
  <2>7. "torn" \in {"whole", "torn", "damaged"} /\ "torn" # "whole"
    BY SMT
  <2> HIDE DEF s
  <2> QED
    BY <2>1, <2>3, <2>5, <2>6, <2>7, BytesAppendStep
<1>5. ASSUME OpenReader PROVE BytesInv'
  <2>1. /\ UNCHANGED <<file, log, appends>> /\ synced' = synced
        /\ reader' = [open |-> TRUE, cursor |-> 0, last_valid_offset |-> 0, outcome |-> "Ok"]
    BY <1>5 DEF OpenReader
  <2>2. reader' \in ReaderType /\ reader'.cursor = 0 /\ reader'.last_valid_offset = 0
    BY <2>1, SMT DEF ReaderType
  <2> QED
    BY <1>0, <1>1, <2>1, <2>2, BytesStay
<1>6. ASSUME Seek PROVE BytesInv'
  <2>1. UNCHANGED <<file, log, appends>> /\ synced' = synced
    BY <1>6 DEF Seek
  <2>2. PICK i \in DOMAIN log :
           reader' = [open |-> reader.open, cursor |-> log[i].to,
                      last_valid_offset |-> log[i].to, outcome |-> "Ok"]
    BY <1>0, <1>6, SeekIs
  <2>3. log[i].to \in Nat /\ log[i].to <= Len(file)
    BY <1>0, TiledBounds
  <2>4. "Ok" \in {"Ok", "EndOfLog", "Truncated", "Corrupt"}
    OBVIOUS
  <2>5. reader' \in ReaderType /\ reader'.cursor = log[i].to /\ reader'.last_valid_offset = log[i].to
    BY <1>0, <2>2, <2>3, <2>4, ReaderSet
  <2> QED
    BY <1>0, <2>1, <2>3, <2>5, BytesStay
<1>7. ASSUME ReadNext PROVE BytesInv'
  <2>1. UNCHANGED <<file, log, appends>> /\ synced' = synced
    BY <1>7 DEF ReadNext
  <2> DEFINE read == read_next(reader.cursor)
  <2>2. /\ reader.open /\ reader' \in ReaderType
        /\ reader'.cursor = IF read.outcome = "Ok" THEN read.next ELSE reader.cursor
        /\ reader'.last_valid_offset = IF read.outcome = "Ok" THEN read.next ELSE reader.last_valid_offset
    BY <1>0, <1>7, ReadNextIs
  <2>3. reader.cursor \in Nat
    BY <1>0, ReaderFields
  <2>4. read.outcome = "Ok" => read.next <= Len(file)
    BY <1>0, <2>3, ReadOutcomes
  <2> HIDE DEF read
  <2>5. reader'.cursor <= Len(file) /\ reader'.last_valid_offset <= Len(file)
    BY <1>0, <2>2, <2>4
  <2> QED
    BY <1>0, <2>1, <2>2, <2>5, BytesStay
<1>8. ASSUME CloseReader PROVE BytesInv'
  <2>1. UNCHANGED <<file, log, appends>> /\ synced' = synced /\ reader' = ClosedReader
    BY <1>8 DEF CloseReader
  <2> QED
    BY <1>0, <2>1, ClosedReaderIs, BytesStay
<1>9. ASSUME Truncate PROVE BytesInv'
  <2> DEFINE m == reader.last_valid_offset
  <2>1. /\ reader.open /\ file' = SubSeq(file, 1, m) /\ synced' = Len(file') /\ log' = Cut(log, Len(file'))
        /\ reader' = ClosedReader /\ appends' = appends
    BY <1>9 DEF Truncate
  <2>2. m \in Nat /\ m <= Len(file)
    BY <1>0, <2>1, ReaderFields
  <2> HIDE DEF m
  <2>3. Len(file') = m
    BY <2>1, <2>2, BytesCut
  <2> QED
    BY <2>1, <2>2, <2>3, BytesCutStep
<1>10. ASSUME Damage PROVE BytesInv'
  <2>1. PICK i \in DOMAIN file, d \in Flips :
           /\ file' = Flipped(file, i, d)
           /\ log' = [k \in DOMAIN log |-> Hurt(log[k], i)]
    BY <1>10 DEF Damage, Hurt, Flipped
  <2>2. UNCHANGED <<synced, reader, appends>>
    BY <1>10 DEF Damage
  <2>3. d \in Int
    BY WalFileAssumption
  <2>4. file' \in Seq(Byte) /\ Len(file') = Len(file) /\ Tiled(log', Len(file)) /\ WholeIn(file', log')
    <3> DEFINE other == Flipped(file, i, d)
               new == [k \in DOMAIN log |-> Hurt(log[k], i)]
    <3>1. other \in Seq(Byte) /\ Len(other) = Len(file) /\ Tiled(new, Len(file)) /\ WholeIn(other, new)
      BY <2>3, BytesDamaged
    <3>2. file' = other /\ log' = new
      BY <2>1
    <3> HIDE DEF other, new
    <3> QED
      BY <3>1, <3>2
  <2> QED
    BY <1>0, <2>2, <2>4, BytesNext
<1>11. ASSUME Crash PROVE BytesInv'
  <2>1. PICK n \in synced .. Len(file) : file' = SubSeq(file, 1, n) /\ synced' = n /\ log' = Cut(log, n)
    BY <1>11 DEF Crash
  <2>2. reader' = ClosedReader /\ appends' = appends
    BY <1>11 DEF Crash
  <2>3. n \in Nat /\ n <= Len(file)
    BY <1>0, <1>1, SMT
  <2> QED
    BY <2>1, <2>2, <2>3, BytesCutStep
<1> QED
  BY <1>2, <1>3, <1>4, <1>5, <1>6, <1>7, <1>8, <1>9, <1>10, <1>11 DEF Next

\* On every behaviour the records tile the file, and the whole ones are in it,
\* byte for byte, as append wrote them (wal_writer.cpp:45-80): no torn append,
\* crash, damage or truncation shifts or overlaps what was there.
THEOREM FileHoldsTheLog == Spec => []BytesInv
<1>1. Init => BytesInv
  BY BytesInit
<1>2. BytesInv /\ [Next]_vars => BytesInv'
  BY BytesStep
<1> QED
  BY <1>1, <1>2, PTL DEF Spec

\* Every record the file still has as it was written.
WholeRecordsReadBack ==
    \A i \in DOMAIN log :
      log[i].condition = "whole" =>
        read_next(log[i].from) = [outcome |-> "Ok", tx |-> log[i].tx, next |-> log[i].to]

LEMMA WholeReadBack ==
    ASSUME BytesInv, NEW i \in DOMAIN log, log[i].condition = "whole"
    PROVE  read_next(log[i].from) = [outcome |-> "Ok", tx |-> log[i].tx, next |-> log[i].to]
<1> DEFINE tx == log[i].tx
           from == log[i].from
           to == log[i].to
<1>1. file \in Seq(Byte) /\ Tiled(log, Len(file)) /\ WholeIn(file, log)
  BY DEF BytesInv
<1>2. DOMAIN log = 1 .. Len(log) /\ log[i] \in LogEntry /\ from \in Nat /\ to <= Len(file)
  BY <1>1, TiledBounds
<1>3. tx \in Transaction
  BY <1>2, EntryType
<1>4. Holds(file, from, Record(tx)) /\ to = from + Len(Record(tx))
  BY <1>1, <1>2 DEF WholeIn
<1> HIDE DEF tx, from, to
<1>5. RecordAt(from, tx)
  BY <1>2, <1>4 DEF RecordAt
<1>6. read_next(from) = [outcome |-> "Ok", tx |-> tx, next |-> from + Len(Record(tx))]
  BY <1>1, <1>2, <1>3, <1>5, WholeRecordIsRead
<1> QED
  BY <1>4, <1>6 DEF tx, from, to

\* Every whole record is read back, from where it starts, as the transaction
\* that was appended, and leads to the next one (wal_reader.cpp, read_next),
\* whatever was torn, damaged, lost or cut off elsewhere in the file.
THEOREM WholeRecordsAreReadBack == Spec => []WholeRecordsReadBack
<1>1. BytesInv => WholeRecordsReadBack
  BY WholeReadBack DEF WholeRecordsReadBack
<1> QED
  BY <1>1, FileHoldsTheLog, PTL

LEMMA TrailerIsDivision ==
    ASSUME BytesInv
    PROVE  ChecksumByDivision
<1> SUFFICES ASSUME log # <<>>, log[Len(log)].condition = "whole"
             PROVE  SubSeq(file, log[Len(log)].to - 3, log[Len(log)].to) =
                      CrcBytes((0 .. 31) \ Remainder(SubSeq(file, log[Len(log)].from + 1,
                                                             log[Len(log)].to - kCrcSize)))
  BY DEF ChecksumByDivision
<1> DEFINE l == Len(log)
           tx == log[l].tx
           from == log[l].from
           to == log[l].to
           C == Checked(tx)
           K == ChecksumOf(C)
<1>1. file \in Seq(Byte) /\ Tiled(log, Len(file)) /\ WholeIn(file, log)
  BY DEF BytesInv
<1>2. l \in Nat /\ l \in 1 .. l
  <2>1. log \in Seq(LogEntry)
    BY <1>1 DEF Tiled
  <2> QED
    BY <2>1, SMT
<1>3. log[l] \in LogEntry /\ from \in Nat /\ to \in Nat /\ to <= Len(file)
  BY <1>1, <1>2, TiledBounds
<1>4. tx \in Transaction
  BY <1>3, EntryType
<1>5. Holds(file, from, Record(tx)) /\ to = from + Len(Record(tx))
  BY <1>1, <1>2 DEF WholeIn
<1> HIDE DEF l, tx, from, to
<1> DEFINE m == kHeaderSize + Len(Payload(tx))
<1>6. /\ C \in Seq(Byte) /\ Len(C) = m /\ Len(Record(tx)) = m + kCrcSize
      /\ Splits(Record(tx), C, m, K)
  BY <1>4, RecordBytes
<1>7. Holds(file, from, C) /\ Holds(file, from + m, K)
  BY <1>3, <1>5, <1>6 DEF Splits
<1>8. m \in Nat /\ kCrcSize = 4
  BY <1>6, Constants, SMT
<1>9. K \in Seq(Byte) /\ Len(K) = 4 /\ K = CrcBytes(compute(C))
  <2>1. K \in Seq(Byte) /\ Len(K) = kCrcSize
    BY ChecksumType
  <2>2. K = CrcBytes(compute(C))
    BY DEF ChecksumOf
  <2> QED
    BY <1>8, <2>1, <2>2
<1> HIDE DEF m, C, K
<1>10. /\ from + m \in Nat /\ from + m + 4 = to /\ to - 3 = from + m + 1 /\ to - kCrcSize = from + m
       /\ from + m <= Len(file)
  BY <1>1, <1>3, <1>5, <1>6, <1>8, SMT
<1>11. SubSeq(file, from + 1, from + m) = C
  BY <1>1, <1>3, <1>6, <1>7, <1>10, HeldBytes
<1>12. SubSeq(file, from + m + 1, from + m + 4) = K
  BY <1>1, <1>3, <1>7, <1>9, <1>10, HeldBytes
<1>13. compute(C) = (0 .. 31) \ Remainder(C)
  BY <1>6, TableMatchesDivision
<1> DEFINE crc(s) == (0 .. 31) \ Remainder(s)
<1> HIDE DEF crc
<1>14. K = CrcBytes(crc(C))
  BY <1>9, <1>13 DEF crc
<1>15. SubSeq(file, to - 3, to) = CrcBytes(crc(SubSeq(file, from + 1, to - kCrcSize)))
  BY <1>10, <1>11, <1>12, <1>14
<1> QED
  BY <1>15 DEF crc, l, from, to

\* The trailer of the last record, when it is whole, is the CRC32 of what
\* precedes it as the division of the message defines it (crc32.cpp:8): the
\* table the code computes with changes nothing.
THEOREM ChecksumIsDivision == Spec => []ChecksumByDivision
<1>1. BytesInv => ChecksumByDivision
  BY TrailerIsDivision
<1> QED
  BY <1>1, FileHoldsTheLog, PTL

----------------------------------------------------------------------------
(* What the reader makes of records that are not whole.                     *)

\* No record that was torn or damaged passes the checksum.  A checksum of 32
\* bits cannot exclude it, whatever the code does, so it is a hypothesis.
NoCollision ==
    \A i \in DOMAIN log : PassesChecksum(log[i].from) => log[i].condition = "whole"

\* The reader stands behind the i-th record, all before it are whole, and if
\* it has stopped there the next one is not.
ReaderAt(i) ==
    /\ reader.cursor = EndOf(log, i) /\ reader.last_valid_offset = EndOf(log, i)
    /\ \A j \in 1 .. i : log[j].condition = "whole"
    /\ reader.outcome \in {"Corrupt", "Truncated"} => i < Len(log) /\ log[i + 1].condition # "whole"

ReaderInv == reader.open => \E i \in 0 .. Len(log) : ReaderAt(i)

\* What was acknowledged is within the bytes that are durable.
AckedInv ==
    \A tx \in acked :
      \E k \in DOMAIN log : log[k].tx = tx /\ log[k].condition # "torn" /\ log[k].to <= synced

RecoveryInv == BytesInv /\ ReaderInv /\ AckedInv

\* Where the ends of the records are.
LEMMA Ends ==
    ASSUME NEW n, Tiled(log, n), NEW i \in 0 .. Len(log)
    PROVE  /\ EndOf(log, i) \in Nat /\ EndOf(log, i) <= n
           /\ \A k \in 1 .. Len(log) : k <= i => log[k].to <= EndOf(log, i) /\ log[k].from < EndOf(log, i)
           /\ \A k \in 1 .. Len(log) : i < k => EndOf(log, i) <= log[k].from
           /\ i < Len(log) => i + 1 \in 1 .. Len(log) /\ log[i + 1].from = EndOf(log, i)
           /\ i = Len(log) => EndOf(log, i) = n
           /\ i # 0 => i \in 1 .. Len(log) /\ EndOf(log, i) = log[i].to
           /\ i = 0 => EndOf(log, i) = 0
<1> DEFINE l == Len(log)
<1>1. /\ l \in Nat /\ n \in Nat
      /\ \A k \in 1 .. l : /\ log[k].from \in Nat /\ log[k].to \in Nat
                           /\ log[k].from < log[k].to /\ log[k].to <= n
  BY TiledBounds
<1>2. /\ \A k \in 1 .. l : log[k].from = EndOf(log, k - 1)
      /\ \A j, k \in 1 .. l : j < k => log[j].to <= log[k].from
      /\ EndOf(log, l) = n
  BY DEF Tiled
<1>3. i \in 0 .. l
  OBVIOUS
<1> HIDE DEF l
<1>4. CASE i = 0
  <2>1. EndOf(log, i) = 0
    BY <1>4 DEF EndOf
  <2>2. i < l => i + 1 \in 1 .. l /\ log[i + 1].from = EndOf(log, i)
    <3> SUFFICES ASSUME i < l PROVE i + 1 \in 1 .. l /\ log[i + 1].from = EndOf(log, i)
      OBVIOUS
    <3>1. i + 1 \in 1 .. l /\ (i + 1) - 1 = i
      BY <1>1, <1>3, SMT
    <3> QED
      BY <1>2, <3>1
  <2>3. /\ \A k \in 1 .. l : ~ (k <= i)
        /\ \A k \in 1 .. l : EndOf(log, i) <= log[k].from
        /\ EndOf(log, i) \in Nat /\ EndOf(log, i) <= n
    BY <1>1, <1>4, <2>1, SMT
  <2> QED
    BY <1>2, <1>4, <2>1, <2>2, <2>3 DEF l
<1>5. CASE i # 0
  <2>1. EndOf(log, i) = log[i].to
    BY <1>5 DEF EndOf
  <2>2. i \in 1 .. l
    BY <1>1, <1>3, <1>5, SMT
  <2>3. i < l => i + 1 \in 1 .. l /\ log[i + 1].from = EndOf(log, i)
    <3> SUFFICES ASSUME i < l PROVE i + 1 \in 1 .. l /\ log[i + 1].from = EndOf(log, i)
      OBVIOUS
    <3>1. i + 1 \in 1 .. l /\ (i + 1) - 1 = i
      BY <1>1, <1>3, SMT
    <3> QED
      BY <1>2, <3>1
  <2>4. /\ \A k \in 1 .. l : k <= i => log[k].to <= log[i].to /\ log[k].from < log[i].to
        /\ \A k \in 1 .. l : i < k => log[i].to <= log[k].from
        /\ log[i].to \in Nat /\ log[i].to <= n
    <3>1. ASSUME NEW k \in 1 .. l, k <= i PROVE log[k].to <= log[i].to /\ log[k].from < log[i].to
      <4>1. CASE k = i
        BY <1>1, <2>2, <4>1, SMT
      <4>2. CASE k < i
        <5>1. log[k].to <= log[i].from
          BY <1>2, <2>2, <4>2
        <5> QED
          BY <1>1, <2>2, <5>1, SMT
      <4> QED
        BY <1>1, <2>2, <3>1, <4>1, <4>2, SMT
    <3> QED
      BY <1>1, <1>2, <2>2, <3>1
  <2> QED
    BY <1>2, <1>5, <2>1, <2>2, <2>3, <2>4 DEF l
<1> QED
  BY <1>4, <1>5

\* Which record starts there.
LEMMA AtEnd ==
    ASSUME NEW n, Tiled(log, n), NEW i \in 0 .. Len(log)
    PROVE  /\ i < Len(log) => At(EndOf(log, i)) = {log[i + 1]}
           /\ i = Len(log) => At(EndOf(log, i)) = {}
<1> DEFINE l == Len(log)
           e == EndOf(log, i)
<1>1. /\ l \in Nat /\ DOMAIN log = 1 .. l
      /\ \A k \in 1 .. l : log[k].from \in Nat /\ log[k].to \in Nat /\ log[k].from < log[k].to
  BY TiledBounds
<1>2. /\ \A k \in 1 .. l : k <= i => log[k].from < e
      /\ i < l => i + 1 \in 1 .. l /\ log[i + 1].from = e
      /\ e \in Nat
  BY Ends
<1>3. \A j, k \in 1 .. l : j < k => log[j].to <= log[k].from
  BY DEF Tiled
<1>4. i \in 0 .. l
  OBVIOUS
<1> HIDE DEF l, e
<1>5. ASSUME NEW k \in 1 .. l, log[k].from = e PROVE i < l /\ k = i + 1
  <2>1. ~ (k <= i)
    BY <1>1, <1>2, <1>5, SMT
  <2>2. i < l /\ (k = i + 1 \/ i + 1 < k)
    BY <1>1, <1>4, <2>1, SMT
  <2>3. ASSUME i + 1 < k PROVE FALSE
    <3>1. log[i + 1].to <= log[k].from /\ i + 1 \in 1 .. l /\ log[i + 1].from = e
      BY <1>2, <1>3, <2>2, <2>3
    <3> QED
      BY <1>1, <1>2, <1>5, <3>1, SMT
  <2> QED
    BY <2>2, <2>3
<1>6. \A r : r \in At(e) <=> \E k \in 1 .. l : r = log[k] /\ log[k].from = e
  BY <1>1 DEF At, Range
<1>7. ASSUME i < l PROVE At(e) = {log[i + 1]}
  BY <1>2, <1>5, <1>6, <1>7
<1>8. ASSUME i = l PROVE At(e) = {}
  <2>1. ~ (i < l)
    BY <1>1, <1>8, SMT
  <2> QED
    BY <1>5, <1>6, <2>1
<1> QED
  BY <1>7, <1>8 DEF l, e

\* What read_next makes of the place behind a record.
LEMMA ReadAtEnd ==
    ASSUME BytesInv, NoCollision, NEW i \in 0 .. Len(log)
    PROVE  LET read == read_next(EndOf(log, i))
           IN  /\ i = Len(log) => read.outcome = "EndOfLog"
               /\ i < Len(log) /\ log[i + 1].condition = "whole" =>
                    read.outcome = "Ok" /\ read.tx = log[i + 1].tx /\ read.next = log[i + 1].to
               /\ i < Len(log) /\ log[i + 1].condition # "whole" => read.outcome \in {"Corrupt", "Truncated"}
<1> DEFINE e == EndOf(log, i)
           read == read_next(e)
           n == Len(file)
<1>1. file \in Seq(Byte) /\ Tiled(log, n)
  BY DEF BytesInv
<1>2. /\ e \in Nat /\ (i = Len(log) => e = n)
      /\ i < Len(log) => i + 1 \in 1 .. Len(log) /\ log[i + 1].from = e
  BY <1>1, Ends
<1>3. /\ DOMAIN log = 1 .. Len(log) /\ n \in Nat
      /\ \A k \in 1 .. Len(log) : log[k].from < log[k].to /\ log[k].to <= n /\ log[k].to \in Nat
  BY <1>1, TiledBounds
<1>4. /\ read.outcome \in {"Ok", "EndOfLog", "Truncated", "Corrupt"}
      /\ read.outcome = "EndOfLog" <=> n - e <= 0
      /\ read.outcome = "Ok" => PassesChecksum(e)
  BY <1>1, <1>2, ReadOutcomes
<1>5. ASSUME i = Len(log) PROVE read.outcome = "EndOfLog"
  <2>1. n - e <= 0
    BY <1>2, <1>3, <1>5, SMT
  <2> QED
    BY <1>4, <2>1
<1>6. ASSUME i < Len(log), log[i + 1].condition = "whole"
      PROVE  read.outcome = "Ok" /\ read.tx = log[i + 1].tx /\ read.next = log[i + 1].to
  <2>1. read = [outcome |-> "Ok", tx |-> log[i + 1].tx, next |-> log[i + 1].to]
    BY <1>2, <1>3, <1>6, WholeReadBack
  <2> HIDE DEF read
  <2> QED
    BY <2>1, SMT
<1>7. ASSUME i < Len(log), log[i + 1].condition # "whole" PROVE read.outcome \in {"Corrupt", "Truncated"}
  <2>1. ~ PassesChecksum(e)
    BY <1>2, <1>3, <1>7 DEF NoCollision
  <2> DEFINE f == log[i + 1].from
             t == log[i + 1].to
  <2>2. e < t /\ t <= n /\ t \in Nat /\ e \in Nat /\ n \in Nat
    <3>1. f = e /\ f < t /\ t <= n /\ t \in Nat
      BY <1>2, <1>3, <1>7
    <3> QED
      BY <1>2, <1>3, <3>1
  <2> HIDE DEF e, n, t
  <2>3. ~ (n - e <= 0)
    BY <2>2, SMT
  <2> QED
    BY <1>4, <2>1, <2>3
<1> QED
  BY <1>5, <1>6, <1>7

LEMMA ReadsIntact ==
    ASSUME RecoveryInv, NoCollision
    PROVE  ReadsExactlyTheIntact
<1> SUFFICES ASSUME reader.open
             PROVE  LET read == read_next(reader.cursor)
                    IN  /\ (read.outcome = "Ok") <=> (\E r \in At(reader.cursor) : r.condition = "whole")
                        /\ (read.outcome = "Ok") => (\E r \in At(reader.cursor) : r.tx = read.tx)
                        /\ (read.outcome = "EndOfLog") <=> (At(reader.cursor) = {})
  BY DEF ReadsExactlyTheIntact
<1> DEFINE l == Len(log)
           read == read_next(reader.cursor)
           at == At(reader.cursor)
<1>1. PICK i \in 0 .. l : ReaderAt(i)
  BY DEF RecoveryInv, ReaderInv
<1>2. BytesInv /\ Tiled(log, Len(file)) /\ reader.cursor = EndOf(log, i)
  BY <1>1 DEF RecoveryInv, BytesInv, ReaderAt
<1>3. /\ i < l => at = {log[i + 1]}
      /\ i = l => at = {}
  BY <1>2, AtEnd
<1>4. /\ i = l => read.outcome = "EndOfLog"
      /\ i < l /\ log[i + 1].condition = "whole" => read.outcome = "Ok" /\ read.tx = log[i + 1].tx
      /\ i < l /\ log[i + 1].condition # "whole" => read.outcome \in {"Corrupt", "Truncated"}
  BY <1>2, ReadAtEnd
<1>5. i < l \/ i = l
  <2>1. l \in Nat
    BY <1>2, TiledBounds
  <2> QED
    BY <2>1, SMT
<1> HIDE DEF l, read, at
<1>6. /\ (read.outcome = "Ok") <=> (\E r \in at : r.condition = "whole")
      /\ (read.outcome = "Ok") => (\E r \in at : r.tx = read.tx)
      /\ (read.outcome = "EndOfLog") <=> (at = {})
  <2>1. CASE i = l
    BY <1>3, <1>4, <2>1, SMT
  <2>2. CASE i < l
    <3>1. at = {log[i + 1]}
      BY <1>3, <2>2
    <3>2. CASE log[i + 1].condition = "whole"
      <4>1. read.outcome = "Ok" /\ read.tx = log[i + 1].tx
        BY <1>4, <2>2, <3>2
      <4> QED
        BY <3>1, <3>2, <4>1, SMT
    <3>3. CASE log[i + 1].condition # "whole"
      <4>1. read.outcome \in {"Corrupt", "Truncated"}
        BY <1>4, <2>2, <3>3
      <4> QED
        BY <3>1, <3>3, <4>1, SMT
    <3> QED
      BY <3>2, <3>3
  <2> QED
    BY <1>5, <2>1, <2>2
<1> QED
  BY <1>6 DEF read, at

LEMMA AckedThere ==
    ASSUME RecoveryInv
    PROVE  AcknowledgedSurvive
<1> SUFFICES ASSUME NEW tx \in acked
             PROVE  \E r \in Range(log) : r.tx = tx /\ r.condition # "torn"
  BY DEF AcknowledgedSurvive
<1>1. PICK k \in DOMAIN log : log[k].tx = tx /\ log[k].condition # "torn"
  BY DEF RecoveryInv, AckedInv
<1>2. log[k] \in Range(log)
  BY DEF Range
<1> QED
  BY <1>1, <1>2

----------------------------------------------------------------------------
(* How the steps preserve the two. *)

\* The log is kept, but for what is behind its records.
LEMMA ReaderStays ==
    ASSUME ReaderInv, Len(log) \in Nat, Len(log') \in Nat, Len(log) <= Len(log'),
           \A k \in 1 .. Len(log) : log'[k] = log[k], reader' = reader
    PROVE  ReaderInv'
<1> DEFINE l == Len(log)
           m == Len(log')
<1> SUFFICES ASSUME reader'.open PROVE \E i \in 0 .. m : ReaderAt(i)'
  BY DEF ReaderInv
<1>1. PICK i \in 0 .. l : ReaderAt(i)
  BY DEF ReaderInv
<1>2. l \in Nat /\ m \in Nat /\ l <= m /\ \A k \in 1 .. l : log'[k] = log[k]
  OBVIOUS
<1> HIDE DEF l, m
<1>3. /\ i \in 0 .. m /\ \A j \in 1 .. i : j \in 1 .. l
      /\ i # 0 => i \in 1 .. l
      /\ i < l => i < m /\ i + 1 \in 1 .. l
  BY <1>2, SMT
<1>4. EndOf(log', i) = EndOf(log, i)
  BY <1>2, <1>3 DEF EndOf
<1>5. /\ reader'.cursor = EndOf(log', i) /\ reader'.last_valid_offset = EndOf(log', i)
      /\ \A j \in 1 .. i : log'[j].condition = "whole"
  BY <1>1, <1>2, <1>3, <1>4 DEF ReaderAt
<1>6. reader'.outcome \in {"Corrupt", "Truncated"} => i < m /\ log'[i + 1].condition # "whole"
  BY <1>1, <1>2, <1>3 DEF ReaderAt, l
<1>7. ReaderAt(i)'
  BY <1>5, <1>6 DEF ReaderAt, m
<1> QED
  BY <1>3, <1>7

\* A durable record stays where it is, and durable.
DurableKept(k) ==
    log[k].condition # "torn" /\ log[k].to <= synced =>
      /\ k \in DOMAIN log' /\ log'[k].tx = log[k].tx
      /\ log'[k].condition # "torn" /\ log'[k].to <= synced'

LEMMA AckedNext ==
    ASSUME AckedInv, Tiled(log', Len(file')), \A k \in DOMAIN log : DurableKept(k),
           acked' = acked \/ (acked' = acked \cup Whole(log') /\ synced' = Len(file'))
    PROVE  AckedInv'
<1> SUFFICES ASSUME NEW tx \in acked'
             PROVE  \E k \in DOMAIN log' : /\ log'[k].tx = tx /\ log'[k].condition # "torn"
                                           /\ log'[k].to <= synced'
  BY DEF AckedInv
<1>1. CASE tx \in acked
  BY <1>1 DEF AckedInv, DurableKept
<1>2. CASE tx \notin acked
  <2>1. tx \in Whole(log') /\ synced' = Len(file')
    BY <1>2
  <2>2. PICK k \in DOMAIN log' : log'[k].tx = tx /\ log'[k].condition = "whole"
    BY <2>1 DEF Whole, Range
  <2>3. log'[k].to <= Len(file')
    BY TiledBounds
  <2>4. "whole" # "torn"
    BY SMT
  <2> QED
    BY <2>1, <2>2, <2>3, <2>4
<1> QED
  BY <1>1, <1>2

\* What append does to the log.
LEMMA LogGrows ==
    ASSUME log \in Seq(LogEntry), NEW e \in LogEntry
    PROVE  /\ Len(Append(log, e)) = Len(log) + 1 /\ Len(log) \in Nat
           /\ DOMAIN log = 1 .. Len(log) /\ DOMAIN Append(log, e) = 1 .. Len(log) + 1
           /\ \A k \in 1 .. Len(log) : Append(log, e)[k] = log[k]
  BY SMT

LEMMA RecoveryAppendStep ==
    ASSUME RecoveryInv, BytesInv', NEW tx \in Transaction, NEW size \in Nat,
           NEW condition \in {"whole", "torn", "damaged"}, log' = Logged(tx, size, condition), reader' = reader,
           (synced' = synced /\ acked' = acked) \/ (synced' = Len(file') /\ acked' = acked \cup Whole(log')),
           Len(file) <= Len(file')
    PROVE  RecoveryInv'
<1> DEFINE n == Len(file)
           e == Entry(tx, n, n + size, condition)
<1>1. file \in Seq(Byte) /\ log \in Seq(LogEntry) /\ synced \in 0 .. n /\ file' \in Seq(Byte)
      /\ Tiled(log', Len(file')) /\ Tiled(log, n)
  BY DEF RecoveryInv, BytesInv, Tiled
<1>2. n \in Nat /\ n + size \in Nat /\ Len(file') \in Nat
  BY <1>1, SMT
<1>3. log' = Append(log, e)
  BY DEF Logged, Entry
<1>4. e \in LogEntry
  <2> HIDE DEF n
  <2> QED
    BY <1>2, EntryFields
<1> HIDE DEF e
<1>5. /\ Len(log') = Len(log) + 1 /\ Len(log) \in Nat
      /\ DOMAIN log = 1 .. Len(log) /\ DOMAIN log' = 1 .. Len(log) + 1
      /\ \A k \in 1 .. Len(log) : log'[k] = log[k]
  BY <1>1, <1>3, <1>4, LogGrows
<1>6. ReaderInv'
  <2>1. Len(log') \in Nat /\ Len(log) <= Len(log')
    BY <1>5, SMT
  <2> QED
    BY <1>5, <2>1, ReaderStays DEF RecoveryInv
<1>7. AckedInv'
  <2>1. synced <= synced' /\ synced \in Int /\ synced' \in Int
    <3> DEFINE m == Len(file')
    <3> HIDE DEF m, n
    <3>1. synced' = synced \/ synced' = m
      BY DEF m
    <3>2. n <= m
      BY DEF n, m
    <3> QED
      BY <1>1, <1>2, <3>1, <3>2, SMT DEF m
  <2>2. ASSUME NEW k \in DOMAIN log, log[k].condition # "torn", log[k].to <= synced
        PROVE  /\ k \in DOMAIN log' /\ log'[k].tx = log[k].tx
               /\ log'[k].condition # "torn" /\ log'[k].to <= synced'
    <3>1. k \in 1 .. Len(log) /\ log'[k] = log[k]
      BY <1>5
    <3>2. k \in DOMAIN log'
      BY <1>5, <3>1, SMT
    <3>3. log[k].to \in Nat
      BY <1>1, <3>1, TiledBounds
    <3> DEFINE t == log[k].to
    <3>4. t <= synced /\ t \in Nat
      BY <2>2, <3>3
    <3> HIDE DEF t
    <3>5. t <= synced'
      BY <2>1, <3>4, SMT
    <3> QED
      BY <2>2, <3>1, <3>2, <3>5 DEF t
  <2>3. \A k \in DOMAIN log : DurableKept(k)
    BY <2>2 DEF DurableKept
  <2>4. acked' = acked \/ (acked' = acked \cup Whole(log') /\ synced' = Len(file'))
    OBVIOUS
  <2>5. AckedInv
    BY DEF RecoveryInv
  <2> QED
    BY <1>1, <2>3, <2>4, <2>5, AckedNext
<1> QED
  BY <1>6, <1>7 DEF RecoveryInv

\* Neither the file nor the log changes.
LEMMA RecoveryStay ==
    ASSUME RecoveryInv, BytesInv', ReaderInv', UNCHANGED <<file, log>>,
           (synced' = synced /\ acked' = acked) \/ (synced' = Len(file) /\ acked' = acked \cup Whole(log))
    PROVE  RecoveryInv'
<1>1. file' = file /\ log' = log
  OBVIOUS
<1>2. file \in Seq(Byte) /\ Tiled(log, Len(file)) /\ synced \in 0 .. Len(file)
  BY DEF RecoveryInv, BytesInv
<1>3. synced <= synced' /\ synced \in Int /\ synced' \in Int
  BY <1>2, SMT
<1>4. ASSUME NEW k \in DOMAIN log, log[k].condition # "torn", log[k].to <= synced
      PROVE  log[k].to <= synced'
  <2>1. log[k].to \in Nat
    BY <1>2, TiledBounds
  <2> DEFINE t == log[k].to
  <2>2. t \in Nat /\ t <= synced
    BY <1>4, <2>1
  <2> HIDE DEF t
  <2>3. t <= synced'
    BY <1>3, <2>2, SMT
  <2> QED
    BY <2>3 DEF t
<1>5. \A k \in DOMAIN log : DurableKept(k)
  BY <1>1, <1>4 DEF DurableKept
<1>6. acked' = acked \/ (acked' = acked \cup Whole(log') /\ synced' = Len(file'))
  BY <1>1
<1>7. AckedInv
  BY DEF RecoveryInv
<1>8. AckedInv'
  BY <1>1, <1>2, <1>5, <1>6, <1>7, AckedNext
<1> QED
  BY <1>8 DEF RecoveryInv

\* Cutting the file behind a record cuts none in two.
LEMMA CutAtEnd ==
    ASSUME NEW n, Tiled(log, n), NEW i \in 0 .. Len(log)
    PROVE  Cut(log, EndOf(log, i)) = [k \in 1 .. i |-> log[k]]
<1> DEFINE l == Len(log)
           m == EndOf(log, i)
           D == {j \in DOMAIN log : log[j].from < m}
<1>1. /\ l \in Nat /\ DOMAIN log = 1 .. l
      /\ \A k \in 1 .. l : log[k].from \in Nat
  BY TiledBounds
<1>2. /\ m \in Nat
      /\ \A k \in 1 .. l : k <= i => log[k].to <= m /\ log[k].from < m
      /\ \A k \in 1 .. l : i < k => m <= log[k].from
  BY Ends
<1>3. i \in 0 .. l
  OBVIOUS
<1>4. Cut(log, m) = [k \in D |-> IF log[k].to <= m THEN log[k]
                                 ELSE [log[k] EXCEPT !.to = m, !.condition = "torn"]]
  BY DEF Cut
<1> HIDE DEF l, m
<1>5. D = 1 .. i
  <2>1. ASSUME NEW j \in 1 .. l PROVE log[j].from < m <=> j <= i
    BY <1>1, <1>2, <1>3, <2>1, SMT
  <2>2. \A j : j \in 1 .. i <=> j \in 1 .. l /\ j <= i
    BY <1>1, <1>3, SMT
  <2> QED
    BY <1>1, <2>1, <2>2
<1>6. \A k \in 1 .. i : log[k].to <= m
  <2>1. \A k \in 1 .. i : k \in 1 .. l /\ k <= i
    BY <1>1, <1>3, SMT
  <2> QED
    BY <1>2, <2>1
<1> HIDE DEF D
<1>7. Cut(log, m) = [k \in 1 .. i |-> log[k]]
  BY <1>4, <1>5, <1>6
<1> QED
  BY <1>7 DEF m

\* Where a reader that has stopped cuts the log.
LEMMA TruncateIs ==
    ASSUME RecoveryInv, Truncate
    PROVE  \E i \in 0 .. Len(log) :
             /\ ReaderAt(i) /\ i < Len(log) /\ log[i + 1].condition # "whole"
             /\ log' = [k \in 1 .. i |-> log[k]]
             /\ file' \in Seq(Byte) /\ Len(file') = EndOf(log, i) /\ synced' = Len(file')
<1> DEFINE m == reader.last_valid_offset
<1>1. /\ reader.open /\ reader.outcome \in {"Corrupt", "Truncated"}
      /\ file' = SubSeq(file, 1, m) /\ synced' = Len(file') /\ log' = Cut(log, Len(file'))
  BY DEF Truncate
<1>2. PICK i \in 0 .. Len(log) : ReaderAt(i)
  BY <1>1 DEF RecoveryInv, ReaderInv
<1>3. m = EndOf(log, i) /\ i < Len(log) /\ log[i + 1].condition # "whole"
  BY <1>1, <1>2 DEF ReaderAt
<1>4. BytesInv /\ Tiled(log, Len(file))
  BY DEF RecoveryInv, BytesInv
<1>5. m \in Nat /\ m <= Len(file)
  <2>1. EndOf(log, i) \in Nat /\ EndOf(log, i) <= Len(file)
    BY <1>4, Ends
  <2> QED
    BY <1>3, <2>1
<1> HIDE DEF m
<1>6. file' \in Seq(Byte) /\ Len(file') = m
  <2>1. SubSeq(file, 1, m) \in Seq(Byte) /\ Len(SubSeq(file, 1, m)) = m
    BY <1>4, <1>5, BytesCut
  <2> QED
    BY <1>1, <2>1
<1>7. log' = [k \in 1 .. i |-> log[k]]
  BY <1>1, <1>3, <1>4, <1>6, CutAtEnd
<1> QED
  BY <1>1, <1>2, <1>3, <1>6, <1>7

LEMMA RecoveryTruncateStep ==
    ASSUME RecoveryInv, BytesInv', Truncate
    PROVE  RecoveryInv'
<1>1. PICK i \in 0 .. Len(log) :
         /\ ReaderAt(i) /\ log' = [k \in 1 .. i |-> log[k]]
         /\ Len(file') = EndOf(log, i) /\ synced' = Len(file')
  BY TruncateIs
<1>2. acked' = acked \cap {r.tx : r \in Range(log')} /\ reader' = ClosedReader
  BY DEF Truncate
<1>3. Tiled(log, Len(file)) /\ Tiled(log', Len(file'))
  BY DEF RecoveryInv, BytesInv
<1>4. ReaderInv'
  BY <1>2, ClosedReaderIs DEF ReaderInv
<1>5. AckedInv'
  <2> SUFFICES ASSUME NEW tx \in acked'
               PROVE  \E k \in DOMAIN log' : /\ log'[k].tx = tx /\ log'[k].condition # "torn"
                                             /\ log'[k].to <= synced'
    BY DEF AckedInv
  <2>1. PICK k \in DOMAIN log' : log'[k].tx = tx
    BY <1>2 DEF Range
  <2>2. k \in 1 .. i /\ log'[k] = log[k]
    BY <1>1
  <2>3. log'[k].condition = "whole"
    BY <1>1, <2>2 DEF ReaderAt
  <2>4. log'[k].to <= Len(file')
    BY <1>3, TiledBounds
  <2>5. "whole" # "torn"
    BY SMT
  <2> QED
    BY <1>1, <2>1, <2>3, <2>4, <2>5
<1> QED
  BY <1>4, <1>5 DEF RecoveryInv

\* Damage and power failures, which leave no reader open.
LEMMA RecoveryFaultStep ==
    ASSUME RecoveryInv, BytesInv', Damage \/ Crash
    PROVE  RecoveryInv'
<1>1. BytesInv /\ AckedInv /\ file \in Seq(Byte) /\ Tiled(log, Len(file)) /\ synced \in 0 .. Len(file)
      /\ Tiled(log', Len(file'))
  BY DEF RecoveryInv, BytesInv
<1>2. DOMAIN log = 1 .. Len(log) /\ \A k \in 1 .. Len(log) : log[k] \in LogEntry /\ log[k].to \in Nat
  BY <1>1, TiledBounds
<1>3. acked' = acked
  BY DEF Damage, Crash
<1>4. ~ reader'.open
  <2>1. reader' = ClosedReader \/ (reader' = reader /\ ~ reader.open)
    BY DEF Damage, Crash
  <2> QED
    BY <2>1, ClosedReaderIs
<1>5. CASE Damage
  <2>1. PICK i \in DOMAIN file : log' = [k \in DOMAIN log |-> Hurt(log[k], i)]
    BY <1>5 DEF Damage, Hurt
  <2>2. synced' = synced
    BY <1>5 DEF Damage
  <2>3. ASSUME NEW k \in DOMAIN log PROVE DurableKept(k)
    <3>1. k \in DOMAIN log' /\ log'[k] = Hurt(log[k], i)
      BY <2>1
    <3>2. IsHurt(Hurt(log[k], i), log[k], i)
      BY <1>2, HurtFields
    <3> QED
      BY <2>2, <3>1, <3>2 DEF DurableKept, IsHurt
  <2> QED
    BY <1>1, <1>3, <2>3, AckedNext, <1>4 DEF RecoveryInv, ReaderInv
<1>6. CASE Crash
  <2>1. PICK n \in synced .. Len(file) : synced' = n /\ log' = Cut(log, n)
    BY <1>6 DEF Crash
  <2>2. n \in Nat /\ n <= Len(file) /\ synced <= n /\ synced \in Int
    BY <1>1, SMT
  <2>3. /\ \A k \in 1 .. Len(log) : log[k].to <= n => k \in 1 .. Len(log') /\ log'[k] = log[k]
        /\ DOMAIN log' = 1 .. Len(log')
    BY <1>1, <2>1, <2>2, CutTiles, TiledBounds
  <2>4. ASSUME NEW k \in DOMAIN log PROVE DurableKept(k)
    <3> SUFFICES ASSUME log[k].condition # "torn", log[k].to <= synced
                 PROVE  /\ k \in DOMAIN log' /\ log'[k].tx = log[k].tx
                        /\ log'[k].condition # "torn" /\ log'[k].to <= synced'
      BY DEF DurableKept
    <3> DEFINE t == log[k].to
    <3>1. t \in Nat /\ t <= synced
      BY <1>2
    <3> HIDE DEF t
    <3>2. t <= n
      BY <2>2, <3>1, SMT
    <3>3. log[k].to <= n
      BY <3>2 DEF t
    <3>4. k \in DOMAIN log' /\ log'[k] = log[k]
      BY <1>2, <2>3, <3>3
    <3> QED
      BY <2>1, <3>3, <3>4
  <2> QED
    BY <1>1, <1>3, <2>4, AckedNext, <1>4 DEF RecoveryInv, ReaderInv
<1> QED
  BY <1>5, <1>6

LEMMA RecoveryReadStep ==
    ASSUME RecoveryInv, NoCollision, ReadNext
    PROVE  ReaderInv'
<1> DEFINE l == Len(log)
           read == read_next(reader.cursor)
<1>1. /\ BytesInv /\ reader \in ReaderType /\ file \in Seq(Byte) /\ Tiled(log, Len(file))
  BY DEF RecoveryInv, BytesInv
<1>2. /\ reader.open /\ reader'.outcome = read.outcome
      /\ reader'.cursor = IF read.outcome = "Ok" THEN read.next ELSE reader.cursor
      /\ reader'.last_valid_offset = IF read.outcome = "Ok" THEN read.next ELSE reader.last_valid_offset
  BY <1>1, ReadNextIs
<1>3. log' = log
  BY DEF ReadNext
<1>4. PICK i \in 0 .. l : ReaderAt(i)
  BY <1>2 DEF RecoveryInv, ReaderInv
<1>5. reader.cursor = EndOf(log, i) /\ reader.last_valid_offset = EndOf(log, i)
  BY <1>4 DEF ReaderAt
<1>6. /\ i = l => read.outcome = "EndOfLog"
      /\ i < l /\ log[i + 1].condition = "whole" => read.outcome = "Ok" /\ read.next = log[i + 1].to
      /\ i < l /\ log[i + 1].condition # "whole" => read.outcome \in {"Corrupt", "Truncated"}
  BY <1>1, <1>5, ReadAtEnd
<1>7. l \in Nat
  BY <1>1, TiledBounds
<1> HIDE DEF read, l
<1>8. (i = l \/ i < l) /\ (i < l => i + 1 \in 0 .. l /\ i + 1 # 0)
  BY <1>4, <1>7, SMT
<1>9. CASE i = l
  <2>1. read.outcome = "EndOfLog" /\ read.outcome # "Ok" /\ read.outcome \notin {"Corrupt", "Truncated"}
    BY <1>6, <1>9, SMT
  <2>2. ReaderAt(i)'
    BY <1>2, <1>3, <1>4, <1>5, <2>1 DEF ReaderAt, EndOf
  <2> QED
    BY <1>3, <2>2 DEF ReaderInv, l
<1>10. CASE i < l /\ log[i + 1].condition = "whole"
  <2>1. read.outcome = "Ok" /\ read.next = log[i + 1].to /\ read.outcome \notin {"Corrupt", "Truncated"}
    BY <1>6, <1>10, SMT
  <2>2. EndOf(log, i + 1) = log[i + 1].to /\ i + 1 \in 0 .. l
    BY <1>8, <1>10 DEF EndOf
  <2>3. \A j \in 1 .. i + 1 : log[j].condition = "whole"
    <3>1. \A j \in 1 .. i + 1 : j = i + 1 \/ j \in 1 .. i
      BY <1>4, <1>7, SMT
    <3> QED
      BY <1>4, <1>10, <3>1 DEF ReaderAt
  <2>4. EndOf(log', i + 1) = log[i + 1].to
    BY <1>3, <2>2
  <2>5. ReaderAt(i + 1)'
    BY <1>2, <1>3, <2>1, <2>3, <2>4 DEF ReaderAt
  <2> QED
    BY <1>3, <2>2, <2>5 DEF ReaderInv, l
<1>11. CASE i < l /\ log[i + 1].condition # "whole"
  <2>1. read.outcome \in {"Corrupt", "Truncated"} /\ read.outcome # "Ok"
    BY <1>6, <1>11, SMT
  <2>2. ReaderAt(i)'
    BY <1>2, <1>3, <1>4, <1>5, <1>11, <2>1 DEF ReaderAt, EndOf, l
  <2> QED
    BY <1>3, <2>2 DEF ReaderInv, l
<1> QED
  BY <1>8, <1>9, <1>10, <1>11

LEMMA RecoveryStep ==
    ASSUME RecoveryInv, NoCollision, [Next]_vars
    PROVE  RecoveryInv'
<1>1. /\ BytesInv /\ ReaderInv /\ Tiled(log, Len(file)) /\ file \in Seq(Byte) /\ appends \in Nat
      /\ reader \in ReaderType
  BY DEF RecoveryInv, BytesInv
<1>2. BytesInv'
  BY <1>1, BytesStep
<1>3. /\ Len(log) \in Nat /\ DOMAIN log = 1 .. Len(log)
  BY <1>1, TiledBounds
<1>4. ASSUME CloseWriter \/ Flush \/ (\E mode \in Modes : OpenWriter(mode)) \/ UNCHANGED vars PROVE RecoveryInv'
  <2>1. /\ UNCHANGED <<file, log>> /\ reader' = reader /\ log' = log
        /\ (synced' = synced /\ acked' = acked) \/ (synced' = Len(file) /\ acked' = acked \cup Whole(log))
    BY <1>4 DEF CloseWriter, Flush, OpenWriter, vars
  <2>2. Len(log) <= Len(log)
    BY <1>3, SMT
  <2>3. ReaderInv'
    BY <1>1, <1>3, <2>1, <2>2, ReaderStays
  <2> QED
    BY <1>2, <2>1, <2>3, RecoveryStay
<1>5. ASSUME NEW tx \in Transactions, AppendWhole(tx) \/ AppendTorn(tx) PROVE RecoveryInv'
  <2> DEFINE t == Stamped(tx)
  <2>1. /\ appends < Len(Clock) /\ reader' = reader
        /\ (synced' = synced /\ acked' = acked) \/ (synced' = Len(file') /\ acked' = acked \cup Whole(log'))
    BY <1>5 DEF AppendWhole, AppendTorn, Appending
  <2>2. t \in Transaction
    BY <1>1, <2>1, StampedType
  <2>3. Record(t) \in Seq(Byte) /\ Len(Record(t)) \in Nat
    BY <2>2, RecordSize
  <2>4. PICK s \in Seq(Byte), c \in {"whole", "torn"} : file' = file \o s /\ log' = Logged(t, Len(s), c)
    <3>1. CASE AppendWhole(tx)
      <4>1. file' = file \o Record(t) /\ log' = Logged(t, Len(Record(t)), "whole")
        BY <3>1 DEF AppendWhole
      <4> QED
        BY <2>3, <4>1
    <3>2. CASE AppendTorn(tx)
      <4>1. PICK n \in 1 .. Len(Record(t)) - 1 : /\ file' = file \o SubSeq(Record(t), 1, n)
                                               /\ log' = Logged(t, n, "torn")
        BY <3>2 DEF AppendTorn
      <4> DEFINE r == Record(t)
                 s == SubSeq(r, 1, n)
      <4> HIDE DEF r
      <4>2. r \in Seq(Byte) /\ n \in 1 .. Len(r) - 1
        BY <2>3, <4>1 DEF r
      <4>3. s \in Seq(Byte) /\ Len(s) = n
        BY <4>2, SMT
      <4> HIDE DEF s
      <4>4. file' = file \o s /\ log' = Logged(t, Len(s), "torn")
        BY <4>1, <4>3 DEF s, r
      <4> QED
        BY <4>3, <4>4
    <3> QED
      BY <1>5, <3>1, <3>2
  <2> HIDE DEF t
  <2>5. Len(s) \in Nat /\ Len(file) <= Len(file') /\ c \in {"whole", "torn", "damaged"}
    <3>1. Len(file') = Len(file) + Len(s)
      BY <1>1, <2>4, ConcatenationLength
    <3> QED
      BY <1>1, <2>4, <3>1, SMT
  <2> QED
    BY <1>2, <2>1, <2>2, <2>4, <2>5, RecoveryAppendStep
<1>6. ASSUME OpenReader \/ Seek \/ ReadNext \/ CloseReader PROVE RecoveryInv'
  <2>1. UNCHANGED <<file, log>> /\ log' = log /\ synced' = synced /\ acked' = acked
    BY <1>6 DEF OpenReader, Seek, ReadNext, CloseReader
  <2>2. ASSUME OpenReader PROVE ReaderInv'
    <3>1. reader' = [open |-> TRUE, cursor |-> 0, last_valid_offset |-> 0, outcome |-> "Ok"]
      BY <2>2 DEF OpenReader
    <3>2. /\ reader'.cursor = 0 /\ reader'.last_valid_offset = 0
          /\ reader'.outcome \notin {"Corrupt", "Truncated"}
      BY <3>1, SMT
    <3>3. 0 \in 0 .. Len(log) /\ ~ (\E j : j \in 1 .. 0)
      BY <1>3, SMT
    <3>4. EndOf(log', 0) = 0
      BY DEF EndOf
    <3>5. ReaderAt(0)'
      BY <3>2, <3>3, <3>4 DEF ReaderAt
    <3> QED
      BY <2>1, <3>3, <3>5 DEF ReaderInv
  <2>3. ASSUME Seek PROVE ReaderInv'
    <3>1. PICK i \in DOMAIN log :
             /\ \A j \in 1 .. i : log[j].condition = "whole"
             /\ reader' = [open |-> reader.open, cursor |-> log[i].to,
                           last_valid_offset |-> log[i].to, outcome |-> "Ok"]
      BY <1>1, <2>3, SeekIs
    <3>2. /\ reader'.cursor = log[i].to /\ reader'.last_valid_offset = log[i].to
          /\ reader'.outcome \notin {"Corrupt", "Truncated"}
      BY <3>1, SMT
    <3>3. i \in 0 .. Len(log) /\ i # 0
      BY <1>3, SMT
    <3>4. EndOf(log', i) = log[i].to
      BY <2>1, <3>3 DEF EndOf
    <3>5. ReaderAt(i)'
      BY <2>1, <3>1, <3>2, <3>4 DEF ReaderAt
    <3> QED
      BY <2>1, <3>3, <3>5 DEF ReaderInv
  <2>4. ASSUME CloseReader PROVE ReaderInv'
    <3>1. ~ reader'.open
      BY <2>4, ClosedReaderIs DEF CloseReader
    <3> QED
      BY <3>1 DEF ReaderInv
  <2>5. ReaderInv'
    BY <1>6, <2>2, <2>3, <2>4, RecoveryReadStep
  <2> QED
    BY <1>2, <2>1, <2>5, RecoveryStay
<1>7. ASSUME Truncate PROVE RecoveryInv'
  BY <1>2, <1>7, RecoveryTruncateStep
<1>8. ASSUME Damage \/ Crash PROVE RecoveryInv'
  BY <1>2, <1>8, RecoveryFaultStep
<1> QED
  BY <1>4, <1>5, <1>6, <1>7, <1>8 DEF Next

----------------------------------------------------------------------------

LEMMA RecoveryInit ==
    ASSUME Init
    PROVE  RecoveryInv
<1>1. BytesInv
  BY BytesInit
<1>2. ~ reader.open
  BY ClosedReaderIs DEF Init
<1>3. acked = {}
  BY DEF Init
<1> QED
  BY <1>1, <1>2, <1>3 DEF RecoveryInv, ReaderInv, AckedInv

\* As long as no torn or damaged record passes the checksum, a reader has come
\* over whole records only and stops in front of the first that is not
\* (wal_reader.cpp, read_next), and what was acknowledged is durable.
THEOREM RecoveryInvariant == Spec /\ []NoCollision => []RecoveryInv
<1>1. Init => RecoveryInv
  BY RecoveryInit
<1>2. RecoveryInv /\ NoCollision /\ [Next]_vars => RecoveryInv'
  BY RecoveryStep
<1> QED
  BY <1>1, <1>2, PTL DEF Spec

\* Wherever a reader has got to, read_next returns exactly the records that
\* are as they were written, and reports the end of the log only there
\* (wal_reader.hpp:19-22).
THEOREM ReaderReadsExactlyTheIntact == Spec /\ []NoCollision => []ReadsExactlyTheIntact
<1>1. RecoveryInv /\ NoCollision => ReadsExactlyTheIntact
  BY ReadsIntact
<1> QED
  BY <1>1, RecoveryInvariant, PTL

\* What append, flush or close acknowledged as durable is in the file after
\* every crash and every truncation by recover, in one piece.
THEOREM AcknowledgedRecordsSurvive == Spec /\ []NoCollision => []AcknowledgedSurvive
<1>1. RecoveryInv => AcknowledgedSurvive
  BY AckedThere
<1> QED
  BY <1>1, RecoveryInvariant, PTL

\* The records in front of the first flaw.
LEMMA IntactPrefixIs ==
    ASSUME NEW n, Tiled(log, n), NEW i \in 0 .. Len(log), ReaderAt(i), i < Len(log), log[i + 1].condition # "whole"
    PROVE  IntactPrefix = 1 .. i
<1> DEFINE l == Len(log)
<1>1. l \in Nat /\ DOMAIN log = 1 .. l
  BY TiledBounds
<1>2. \A j \in 1 .. i : log[j].condition = "whole"
  BY DEF ReaderAt
<1>3. i \in 0 .. l /\ i < l
  OBVIOUS
<1> HIDE DEF l
<1>4. ASSUME NEW k \in 1 .. l PROVE (\A j \in 1 .. k : log[j].condition = "whole") <=> k \in 1 .. i
  <2>1. CASE k <= i
    <3>1. k \in 1 .. i /\ \A j \in 1 .. k : j \in 1 .. i
      BY <1>1, <1>3, <2>1, SMT
    <3> QED
      BY <1>2, <3>1
  <2>2. CASE ~ (k <= i)
    <3>1. k \notin 1 .. i /\ i + 1 \in 1 .. k
      BY <1>1, <1>3, <2>2, SMT
    <3> QED
      BY <3>1
  <2> QED
    BY <2>1, <2>2
<1>5. \A k \in 1 .. i : k \in 1 .. l
  BY <1>1, <1>3, SMT
<1> QED
  BY <1>1, <1>4, <1>5 DEF IntactPrefix

LEMMA MaxOfFirst ==
    ASSUME NEW i \in Nat, i # 0
    PROVE  Max(1 .. i) = i
<1>1. i \in 1 .. i /\ \A y \in 1 .. i : i >= y
  BY SMT
<1>2. \A x \in 1 .. i : (\A y \in 1 .. i : x >= y) => x = i
  BY SMT
<1> QED
  BY <1>1, <1>2 DEF Max

\* Only Truncate and Crash make the file shorter.
LEMMA ShorterByTruncate ==
    ASSUME BytesInv, [Next]_vars, Len(file') < Len(file), faults' = faults, faults \in Nat
    PROVE  Truncate
<1>1. file \in Seq(Byte) /\ appends \in Nat
  BY DEF BytesInv
<1>2. Len(file) \in Nat /\ faults + 1 # faults
  BY <1>1, SMT
<1>3. Len(file') # Len(file) /\ file' # file
  <2>1. Len(file') # Len(file)
    BY <1>2, SMT
  <2> QED
    BY <2>1
<1>4. ASSUME NEW tx \in Transactions, AppendWhole(tx) PROVE FALSE
  <2> DEFINE t == Stamped(tx)
  <2>1. appends < Len(Clock) /\ file' = file \o Record(t)
    BY <1>4 DEF AppendWhole, Appending
  <2>2. t \in Transaction
    BY <1>1, <2>1, StampedType
  <2>3. Record(t) \in Seq(Byte) /\ Len(Record(t)) \in Nat
    BY <2>2, RecordSize
  <2> HIDE DEF t
  <2>4. Len(file') = Len(file) + Len(Record(t))
    BY <1>1, <2>1, <2>3, ConcatenationLength
  <2> DEFINE r == Len(Record(t))
             n == Len(file)
             m == Len(file')
  <2>5. m = n + r /\ r \in Nat /\ n \in Nat /\ m < n
    BY <1>2, <2>3, <2>4
  <2> HIDE DEF r, n, m
  <2> QED
    BY <2>5, SMT
<1>5. ~ Crash /\ ~ \E tx \in Transactions : AppendTorn(tx)
  BY <1>2 DEF Crash, AppendTorn
<1>6. ~ Damage
  BY <1>2 DEF Damage
<1>7. /\ ~ CloseWriter /\ ~ Flush /\ ~ OpenReader /\ ~ Seek /\ ~ ReadNext /\ ~ CloseReader
      /\ ~ \E mode \in Modes : OpenWriter(mode)
  BY <1>3 DEF CloseWriter, Flush, OpenReader, Seek, ReadNext, CloseReader, OpenWriter
<1>8. ~ UNCHANGED vars
  BY <1>3 DEF vars
<1> QED
  BY <1>4, <1>5, <1>6, <1>7, <1>8 DEF Next

LEMMA FaultsStep ==
    ASSUME faults \in Nat, [Next]_vars
    PROVE  faults' \in Nat
<1>1. faults' = faults \/ faults' = faults + 1
  BY DEF Next, CloseWriter, Flush, OpenReader, Seek, ReadNext, CloseReader, Truncate, Damage, Crash,
               OpenWriter, AppendWhole, AppendTorn, vars
<1> QED
  BY <1>1, SMT

\* What Truncate leaves of the log.
LEMMA TruncateRepairs ==
    ASSUME RecoveryInv, Truncate
    PROVE  /\ log' = [i \in IntactPrefix |-> log[i]]
           /\ Len(file') = IF IntactPrefix = {} THEN 0 ELSE log[Max(IntactPrefix)].to
<1>1. PICK i \in 0 .. Len(log) :
         /\ ReaderAt(i) /\ i < Len(log) /\ log[i + 1].condition # "whole"
         /\ log' = [k \in 1 .. i |-> log[k]] /\ Len(file') = EndOf(log, i)
  BY TruncateIs
<1>2. Tiled(log, Len(file))
  BY DEF RecoveryInv, BytesInv
<1>3. IntactPrefix = 1 .. i
  BY <1>1, <1>2, IntactPrefixIs
<1>4. i \in Nat
  BY SMT
<1>5. EndOf(log, i) = IF 1 .. i = {} THEN 0 ELSE log[Max(1 .. i)].to
  <2>1. CASE i = 0
    <3>1. 1 .. i = {}
      BY <2>1, SMT
    <3> QED
      BY <2>1, <3>1 DEF EndOf
  <2>2. CASE i # 0
    <3>1. 1 .. i # {}
      BY <1>4, <2>2, SMT
    <3>2. Max(1 .. i) = i
      BY <1>4, <2>2, MaxOfFirst
    <3> QED
      BY <2>2, <3>1, <3>2 DEF EndOf
  <2> QED
    BY <2>1, <2>2
<1> QED
  BY <1>1, <1>3, <1>5

\* Cutting the log where a stopped reader stands leaves exactly the whole
\* records in front of the first flaw, and no byte behind them
\* (wal_reader.hpp:50): what is appended next will be read.
THEOREM TruncationRepairsTheLog == Spec /\ []NoCollision => TruncationRepairs
<1>1. Init => faults \in Nat
  BY SMT DEF Init
<1>2. faults \in Nat /\ [Next]_vars => (faults \in Nat)'
  BY FaultsStep
<1>3. RecoveryInv /\ faults \in Nat /\ [Next]_vars =>
        [Len(file') < Len(file) /\ faults' = faults =>
           /\ log' = [i \in IntactPrefix |-> log[i]]
           /\ Len(file') = IF IntactPrefix = {} THEN 0 ELSE log[Max(IntactPrefix)].to]_vars
  <2> SUFFICES ASSUME RecoveryInv, faults \in Nat, [Next]_vars, Len(file') < Len(file), faults' = faults
               PROVE  /\ log' = [i \in IntactPrefix |-> log[i]]
                      /\ Len(file') = IF IntactPrefix = {} THEN 0 ELSE log[Max(IntactPrefix)].to
    OBVIOUS
  <2>1. Truncate
    BY ShorterByTruncate DEF RecoveryInv
  <2> QED
    BY <2>1, TruncateRepairs
<1> QED
  BY <1>1, <1>2, <1>3, RecoveryInvariant, PTL DEF Spec, TruncationRepairs

=============================================================================
