---------------------------- MODULE LedgerLemmas ----------------------------
(***************************************************************************)
(* What the operators of LedgerState compute: machine integers, running    *)
(* totals and the loop of apply.                                           *)
(***************************************************************************)
EXTENDS LedgerState, WellFoundedInduction, TLAPS

----------------------------------------------------------------------------
(* Induction up to n, and functions defined by recursion on 0..n. *)

\* A nonempty set of naturals has a least element.
LEMMA LeastNat ==
    ASSUME NEW T, T \subseteq Nat, T # {}
    PROVE  \E x \in T : \A y \in T : x <= y
<1>1. IsWellFoundedOn({ss \in Nat \X Nat : ss[1] < ss[2]}, Nat)
  BY NatLessThanWellFounded DEF OpToRel
<1>2. PICK x \in T : \A y \in T : ~ (<<y, x>> \in {ss \in Nat \X Nat : ss[1] < ss[2]})
  BY <1>1, WFMin, Zenon
<1>3. \A y \in T : ~ (y < x)
  BY <1>2, Zenon
<1> QED
  BY <1>3

\* The runs of a sequence of n steps from base: entry i is what step i makes
\* of entry i - 1.
Runs(X, base, n, step) ==
    {r \in [0 .. n -> X] :
        r[0] = base /\ \A i \in 1 .. n : r[i] = step[i][r[i - 1]]}

\* Every finite sequence of steps has a run.
LEMMA FiniteRecursion ==
    ASSUME NEW X, NEW base \in X, NEW n \in Nat, NEW step \in [1 .. n -> [X -> X]]
    PROVE  Runs(X, base, n, step) # {}
<1> DEFINE Run(r, m) == /\ r \in [0 .. m -> X]
                        /\ r[0] = base
                        /\ \A i \in 1 .. m : r[i] = step[i][r[i - 1]]
           T == {m \in 0 .. n : ~ \E r : Run(r, m)}
<1>0. SUFFICES ASSUME T # {} PROVE FALSE
  <2>1. CASE T = {}
    <3>1. n \in 0 .. n /\ n \notin T
      BY <2>1, SMTT(30)
    <3>2. PICK r : Run(r, n)
      BY <3>1
    <3> QED
      BY <3>2 DEF Runs
  <2> QED
    BY <2>1
<1>1. PICK m \in T : \A y \in T : m <= y
  <2>1. T \subseteq Nat
    OBVIOUS
  <2> HIDE DEF T
  <2> QED
    BY <1>0, <2>1, LeastNat, Zenon
<1>2. m # 0
  <2>1. Run([i \in 0 .. 0 |-> base], 0)
    OBVIOUS
  <2> QED
    BY <2>1, Zenon
<1>3. PICK r : Run(r, m - 1)
  <2>1. m \in 0 .. n /\ m - 1 \in 0 .. n /\ ~ (m <= m - 1)
    <3>1. m \in 0 .. n
      OBVIOUS
    <3> QED
      BY <1>2, <3>1
  <2>2. m - 1 \notin T
    <3> HIDE DEF T
    <3> QED
      BY <1>1, <2>1
  <2> QED
    BY <2>1, <2>2
<1> DEFINE g == [i \in 0 .. m |-> IF i = m THEN step[m][r[m - 1]] ELSE r[i]]
<1>4. Run(g, m)
  <2>1. m \in 1 .. n /\ m - 1 \in 0 .. m - 1 /\ r[m - 1] \in X
    BY <1>2, <1>3
  <2>2. step[m][r[m - 1]] \in X
    <3>1. step[m] \in [X -> X]
      BY <2>1
    <3> QED
      BY <2>1, <3>1
  <2>3. g \in [0 .. m -> X] /\ g[0] = base
    BY <1>3, <2>1, <2>2
  <2>4. ASSUME NEW i \in 1 .. m PROVE g[i] = step[i][g[i - 1]]
    <3>1. i - 1 \in 0 .. m /\ i - 1 # m /\ g[i - 1] = r[i - 1]
      BY <2>1
    <3>2. CASE i = m
      BY <2>1, <3>1, <3>2
    <3>3. CASE i # m
      <4>1. i \in 1 .. m - 1 /\ i \in 0 .. m /\ g[i] = r[i]
        BY <2>1, <3>3
      <4> QED
        BY <1>3, <3>1, <4>1
    <3> QED
      BY <3>2, <3>3
  <2> QED
    BY <2>3, <2>4, Zenon
<1> QED
  BY <1>4, Zenon

\* Induction up to n, stated with a set in place of a predicate.
LEMMA BoundedInduction ==
    ASSUME NEW T, NEW n \in Nat, 0 \in T, \A i \in 1 .. n : i - 1 \in T => i \in T
    PROVE  \A i \in 0 .. n : i \in T
<1> DEFINE U == {i \in 0 .. n : i \notin T}
<1> SUFFICES ASSUME U # {} PROVE FALSE
  OBVIOUS
<1>1. PICK m \in U : \A y \in U : m <= y
  <2>1. U \subseteq Nat
    OBVIOUS
  <2> HIDE DEF U
  <2> QED
    BY <2>1, LeastNat, Zenon
<1>2. m \in 1 .. n /\ m - 1 \in 0 .. n /\ m - 1 \notin U
  BY <1>1
<1> QED
  BY <1>2

----------------------------------------------------------------------------
(* Machine integers. *)

LEMMA ModulusType == Modulus \in Nat \ {0} /\ AmountMax \in Nat
BY ConstantsAssumption DEF Modulus

\* Wrapping yields a machine integer.
LEMMA WrapRange == \A x \in Int : Wrap(x) \in Amount
BY ConstantsAssumption DEF Wrap, Amount, Modulus

\* A machine integer is not changed by it.
LEMMA WrapId == \A x \in Amount : Wrap(x) = x
BY ConstantsAssumption DEF Wrap, Amount, Modulus

\* Multiples of the modulus vanish.
LEMMA WrapShift == \A x, k \in Int : Wrap(x + k * Modulus) = Wrap(x)
<1> TAKE x, k \in Int
<1> DEFINE a == x + AmountMax + 1
<1>1. a \in Int /\ Modulus \in Nat \ {0}
  BY ModulusType
<1>2. ((a + k * Modulus) % Modulus) = (a % Modulus)
  <2> DEFINE b == a + k * Modulus
             d == a \div Modulus + k - b \div Modulus
             m == Modulus
  <2> HIDE DEF a
  <2>1. b \in Int
    BY <1>1
  <2>2. \A x1 \in Int : /\ x1 \div m \in Int /\ (x1 % m) \in 0 .. m - 1
                       /\ x1 = m * (x1 \div m) + (x1 % m)
    BY <1>1
  <2>3. d \in Int /\ d * m = (b % m) - (a % m)
    <3> DEFINE qa == a \div m
               qb == b \div m
               ra == a % m
               rb == b % m
    <3>1. /\ qa \in Int /\ qb \in Int /\ ra \in Int /\ rb \in Int /\ m \in Int
          /\ a = m * qa + ra /\ b = m * qb + rb /\ b = a + k * m /\ d = qa + k - qb
      BY <1>1, <2>1, <2>2
    <3> HIDE DEF qa, qb, ra, rb, m, b, d
    <3>2. d * m = m * qa + k * m - m * qb
      BY <3>1
    <3> QED
      BY <3>1, <3>2 DEF ra, rb
  <2>4. (b % m) \in 0 .. m - 1 /\ (a % m) \in 0 .. m - 1 /\ m \in Nat
    BY <1>1, <2>1, <2>2
  <2> HIDE DEF b, d, m
  <2>5. ~ (d >= 1) /\ ~ (d <= -1)
    <3>1. d >= 1 => d * m >= m
      <4> SUFFICES ASSUME d >= 1 PROVE d * m >= m
        OBVIOUS
      <4>1. d * m = m + (d - 1) * m /\ (d - 1) * m >= 0
        BY <2>3, <2>4
      <4> QED
        BY <2>3, <2>4, <4>1
    <3>2. d <= -1 => d * m <= -m
      <4> SUFFICES ASSUME d <= -1 PROVE d * m <= -m
        OBVIOUS
      <4>1. d * m = (d + 1) * m - m /\ (d + 1) * m <= 0
        BY <2>3, <2>4
      <4> QED
        BY <2>3, <2>4, <4>1
    <3> QED
      BY <2>3, <2>4, <3>1, <3>2
  <2>6. d = 0
    BY <2>3, <2>5
  <2> QED
    BY <2>3, <2>4, <2>6 DEF b, m
<1>3. x + k * Modulus + AmountMax + 1 = a + k * Modulus
  BY ModulusType
<1> QED
  BY <1>2, <1>3 DEF Wrap

\* Wrapping changes a number by a multiple of the modulus.
LEMMA WrapDiff == \A x \in Int : \E k \in Int : Wrap(x) = x + k * Modulus
<1> TAKE x \in Int
<1> DEFINE a == x + AmountMax + 1
           q == a \div Modulus
           r == a % Modulus
<1>1. a \in Int /\ Modulus \in Nat \ {0} /\ AmountMax \in Nat
  BY ModulusType
<1>2. q \in Int /\ r \in Int /\ a = Modulus * q + r
  <2> HIDE DEF a
  <2> QED
    BY <1>1
<1>3. Wrap(x) = r - (AmountMax + 1) /\ x = a - (AmountMax + 1)
  BY <1>1 DEF Wrap
<1> HIDE DEF a, q, r
<1>4. Wrap(x) = x + (-q) * Modulus
  BY <1>1, <1>2, <1>3
<1> QED
  BY <1>2, <1>4

\* Wrapping early or late is the same.
LEMMA WrapAdd ==
    \A x, y \in Int : Wrap(Wrap(x) + y) = Wrap(x + y) /\ Wrap(y + Wrap(x)) = Wrap(y + x)
<1> TAKE x, y \in Int
<1>1. PICK k \in Int : Wrap(x) = x + k * Modulus
  BY WrapDiff
<1>2. Modulus \in Int /\ k * Modulus \in Int
  BY ModulusType
<1>3. Wrap(x) + y = (x + y) + k * Modulus /\ y + Wrap(x) = (y + x) + k * Modulus
  BY <1>1, <1>2
<1>4. x + y \in Int /\ y + x \in Int
  OBVIOUS
<1> QED
  BY <1>3, <1>4, WrapShift

----------------------------------------------------------------------------
(* Running totals. *)

\* RunningTotal satisfies the recursion it is defined by.
LEMMA RunningTotalRec ==
    ASSUME NEW s \in Seq(Int)
    PROVE  /\ RunningTotal(s) \in [0 .. Len(s) -> Int]
           /\ RunningTotal(s)[0] = 0
           /\ \A i \in 1 .. Len(s) : RunningTotal(s)[i] = RunningTotal(s)[i - 1] + s[i]
<1> DEFINE n == Len(s)
           Body(f) == [i \in 0 .. n |-> IF i = 0 THEN 0 ELSE f[i - 1] + s[i]]
           step == [i \in 1 .. n |-> [x \in Int |-> x + s[i]]]
           R == CHOOSE f : f = Body(f)
<1>1. n \in Nat /\ \A i \in 1 .. n : s[i] \in Int
  OBVIOUS
<1>2. \E f : f \in [0 .. n -> Int] /\ f = Body(f)
  <2>1. step \in [1 .. n -> [Int -> Int]]
    BY <1>1
  <2>2. \A i \in 1 .. n, x \in Int : step[i][x] = x + s[i]
    OBVIOUS
  <2> HIDE DEF step
  <2>3. PICK f \in [0 .. n -> Int] : /\ f[0] = 0
                                     /\ \A i \in 1 .. n : f[i] = step[i][f[i - 1]]
    <3>1. 0 \in Int /\ n \in Nat
      BY <1>1
    <3> HIDE DEF n
    <3>2. Runs(Int, 0, n, step) # {}
      BY <2>1, <3>1, FiniteRecursion, Zenon
    <3> QED
      BY <3>2 DEF Runs
  <2>4. ASSUME NEW i \in 1 .. n PROVE f[i] = f[i - 1] + s[i]
    <3>1. i - 1 \in 0 .. n /\ f[i - 1] \in Int
      BY <1>1, SMTT(30)
    <3> QED
      BY <2>2, <2>3, <3>1, Zenon
  <2>5. f = Body(f)
    BY <1>1, <2>3, <2>4
  <2> QED
    BY <2>5, Zenon
<1>3. R = Body(R)
  BY <1>2, Zenon
<1>4. RunningTotal(s) = R
  BY DEF RunningTotal
<1> HIDE DEF R
<1>5. R[0] = 0 /\ \A i \in 1 .. n : R[i] = R[i - 1] + s[i]
  BY <1>1, <1>3, SMTT(30)
<1>6. \A i \in 0 .. n : R[i] \in Int
  <2> DEFINE T == {i \in 0 .. n : R[i] \in Int}
  <2>1. 0 \in T
    BY <1>1, <1>5
  <2>2. \A i \in 1 .. n : i - 1 \in T => i \in T
    BY <1>1, <1>5
  <2>3. \A i \in 0 .. n : i \in T
    <3> HIDE DEF T, n
    <3> QED
      BY <1>1, <2>1, <2>2, BoundedInduction, Zenon
  <2> QED
    BY <2>3
<1>7. R \in [0 .. n -> Int]
  BY <1>3, <1>6
<1> QED
  BY <1>4, <1>5, <1>7

\* Changing one element changes the total by the difference.
LEMMA TotalUpdate ==
    ASSUME NEW s \in Seq(Int), NEW t \in Seq(Int), Len(s) = Len(t),
           NEW k \in 1 .. Len(s), \A i \in 1 .. Len(s) : i # k => s[i] = t[i]
    PROVE  Total(t) = Total(s) + (t[k] - s[k])
<1> DEFINE n == Len(s)
           S == RunningTotal(s)
           U == RunningTotal(t)
           d == t[k] - s[k]
           T == {i \in 0 .. n : U[i] = S[i] + (IF i < k THEN 0 ELSE d)}
<1>1. n \in Nat /\ n = Len(t) /\ (\A i \in 1 .. n : s[i] \in Int /\ t[i] \in Int) /\ k \in 1 .. n
  OBVIOUS
<1>2. /\ S \in [0 .. n -> Int] /\ S[0] = 0
      /\ \A i \in 1 .. n : S[i] = S[i - 1] + s[i]
  BY RunningTotalRec
<1>3. /\ U \in [0 .. n -> Int] /\ U[0] = 0
      /\ \A i \in 1 .. n : U[i] = U[i - 1] + t[i]
  BY <1>1, RunningTotalRec, Zenon
<1>4. d \in Int /\ d = t[k] - s[k]
  BY <1>1
<1>5. Total(s) = S[n] /\ Total(t) = U[n]
  BY <1>1 DEF Total
<1> HIDE DEF S, U, d, n
<1>6. 0 \in T
  BY <1>1, <1>2, <1>3
<1>7. ASSUME NEW i \in 1 .. n, i - 1 \in T PROVE i \in T
  <2>1. /\ i \in Int /\ k \in Int /\ S[i - 1] \in Int /\ U[i - 1] \in Int
        /\ s[i] \in Int /\ t[i] \in Int /\ i \in 0 .. n
    <3>1. i \in Int /\ k \in Int /\ i \in 0 .. n /\ i - 1 \in 0 .. n
      BY <1>1
    <3>2. s[i] \in Int /\ t[i] \in Int
      BY <1>1
    <3> QED
      BY <1>2, <1>3, <3>1, <3>2, Zenon
  <2>2. S[i] = S[i - 1] + s[i] /\ U[i] = U[i - 1] + t[i]
    BY <1>2, <1>3
  <2>3. U[i - 1] = S[i - 1] + (IF i - 1 < k THEN 0 ELSE d)
    BY <1>7
  <2>4. CASE i = k
    BY <1>4, <2>1, <2>2, <2>3, <2>4, SMTT(30)
  <2>5. CASE i # k
    <3>1. s[i] = t[i]
      BY <2>5 DEF n
    <3>2. (i - 1 < k) = (i < k)
      BY <2>1, <2>5
    <3>3. U[i] = S[i] + (IF i < k THEN 0 ELSE d)
      <4>1. CASE i < k
        BY <2>1, <2>2, <2>3, <3>1, <3>2, <4>1, SMTT(30)
      <4>2. CASE ~ (i < k)
        <5>1. U[i - 1] = S[i - 1] + d
          BY <2>3, <3>2, <4>2
        <5>2. U[i] = S[i] + d
          BY <1>4, <2>1, <2>2, <3>1, <5>1, SMTT(30)
        <5> QED
          BY <4>2, <5>2
      <4> QED
        BY <4>1, <4>2
    <3> QED
      BY <2>1, <3>3
  <2> QED
    BY <2>4, <2>5
<1>8. n \in T
  <2>1. \A i \in 0 .. n : i \in T
    <3> HIDE DEF T
    <3> QED
      BY <1>1, <1>6, <1>7, BoundedInduction, Zenon
  <2> QED
    BY <1>1, <2>1
<1> QED
  BY <1>1, <1>4, <1>5, <1>8

\* A total of zeros is zero.
LEMMA TotalZero ==
    ASSUME NEW s \in Seq(Int), \A i \in 1 .. Len(s) : s[i] = 0
    PROVE  Total(s) = 0
<1> DEFINE n == Len(s)
           S == RunningTotal(s)
           T == {i \in 0 .. n : S[i] = 0}
<1>1. n \in Nat
  OBVIOUS
<1>2. S[0] = 0 /\ \A i \in 1 .. n : S[i] = S[i - 1] + s[i]
  BY RunningTotalRec
<1> HIDE DEF S
<1>3. 0 \in T
  BY <1>1, <1>2
<1>4. \A i \in 1 .. n : i - 1 \in T => i \in T
  BY <1>1, <1>2
<1>5. \A i \in 0 .. n : i \in T
  <2> HIDE DEF T, n
  <2> QED
    BY <1>1, <1>3, <1>4, BoundedInduction, Zenon
<1> QED
  BY <1>1, <1>5 DEF Total, S
----------------------------------------------------------------------------
(* The loop of apply. *)

\* A function on 1..n is a sequence of length n.
LEMMA FunctionIsSeq ==
    ASSUME NEW S, NEW n \in Nat, NEW f \in [1 .. n -> S]
    PROVE  f \in Seq(S) /\ Len(f) = n
OBVIOUS

LEMMA SignedDeltaType ==
    \A type \in AccountType, direction \in Direction, amount \in Amount :
        signed_delta(type, direction, amount) \in Int
BY ConstantsAssumption DEF signed_delta, Amount

LEMMA AmountType == Amount \subseteq Int /\ 0 \in Amount
BY ConstantsAssumption DEF Amount

\* The columns that the running totals are taken of.
LEMMA ColumnTypes ==
    ASSUME NEW legs \in Seq(EntryLeg)
    PROVE  /\ \A direction \in Direction :
                 /\ Amounts(legs, direction) \in Seq(Int)
                 /\ Len(Amounts(legs, direction)) = Len(legs)
           /\ \A id \in AccountId, type \in AccountType :
                 /\ Deltas(legs, id, type) \in Seq(Int)
                 /\ Len(Deltas(legs, id, type)) = Len(legs)
<1> DEFINE n == Len(legs)
<1>1. n \in Nat /\ \A i \in 1 .. n : legs[i] \in EntryLeg
  OBVIOUS
<1>2. \A i \in 1 .. n : legs[i].amount \in Amount /\ legs[i].direction \in Direction
  BY <1>1 DEF EntryLeg
<1>3. ASSUME NEW direction \in Direction
      PROVE  Amounts(legs, direction) \in [1 .. n -> Int]
  BY <1>2, AmountType, Zenon DEF Amounts
<1>4. ASSUME NEW id \in AccountId, NEW type \in AccountType
      PROVE  Deltas(legs, id, type) \in [1 .. n -> Int]
  BY <1>2, SignedDeltaType DEF Deltas
<1> HIDE DEF n
<1>5. ASSUME NEW f \in [1 .. n -> Int] PROVE f \in Seq(Int) /\ Len(f) = n
  BY <1>1, FunctionIsSeq, Zenon
<1> QED
  BY <1>3, <1>4, <1>5 DEF n

\* One round: the leg's account gets the new balance, nothing else changes.
LEMMA ApplyLegEffect ==
    ASSUME NEW D, NEW accounts \in [D -> Account], NEW leg \in EntryLeg, leg.account_id \in D
    PROVE  /\ ApplyLeg(accounts, leg) \in [D -> Account]
           /\ \A id \in D :
                 LET account == accounts[id]
                     delta == signed_delta(account.type, leg.direction, leg.amount)
                 IN  ApplyLeg(accounts, leg)[id] =
                       IF id = leg.account_id
                       THEN [account EXCEPT !.balance = Wrap(account.balance + delta)]
                       ELSE account
<1> DEFINE a == leg.account_id
           delta == signed_delta(accounts[a].type, leg.direction, leg.amount)
           balance == Wrap(accounts[a].balance + delta)
<1>1. accounts[a] \in Account
  OBVIOUS
<1>2. accounts[a].type \in AccountType /\ accounts[a].balance \in Int
  BY <1>1, AmountType, Zenon DEF Account
<1>3. leg.direction \in Direction /\ leg.amount \in Amount
  BY DEF EntryLeg
<1>4. delta \in Int
  BY <1>2, <1>3, SignedDeltaType
<1>5. balance \in Amount
  <2> HIDE DEF delta
  <2> QED
    BY <1>2, <1>4, WrapRange
<1>6. ApplyLeg(accounts, leg) = [accounts EXCEPT ![a] = [accounts[a] EXCEPT !.balance = balance]]
  BY DEF ApplyLeg
<1> HIDE DEF balance
<1>7. [accounts[a] EXCEPT !.balance = balance] \in Account
  BY <1>1, <1>5 DEF Account
<1> QED
  BY <1>6, <1>7 DEF balance
\* ApplyLegs satisfies the recursion it is defined by; with every account
\* present, each round applies its leg.
LEMMA ApplyLegsRec ==
    ASSUME NEW D, NEW accounts \in [D -> Account], NEW legs \in Seq(EntryLeg),
           Touched(legs) \subseteq D
    PROVE  /\ ApplyLegs(accounts, legs) \in [0 .. Len(legs) -> [D -> Account]]
           /\ ApplyLegs(accounts, legs)[0] = accounts
           /\ \A i \in 1 .. Len(legs) :
                 ApplyLegs(accounts, legs)[i] = ApplyLeg(ApplyLegs(accounts, legs)[i - 1], legs[i])
<1> DEFINE n == Len(legs)
           X == [D -> Account]
           Body(f) == [i \in 0 .. n |->
                          IF i = 0 THEN accounts
                          ELSE IF \A j \in 1 .. i : legs[j].account_id \in DOMAIN accounts
                          THEN ApplyLeg(f[i - 1], legs[i])
                          ELSE f[i - 1]]
           Simple(f) == [i \in 0 .. n |->
                            IF i = 0 THEN accounts ELSE ApplyLeg(f[i - 1], legs[i])]
           step == [i \in 1 .. n |-> [x \in X |-> ApplyLeg(x, legs[i])]]
           R == CHOOSE f : f = Body(f)
<1>1. n \in Nat /\ \A i \in 1 .. n : legs[i] \in EntryLeg /\ legs[i].account_id \in D
  <2>1. n \in Nat /\ \A i \in 1 .. n : legs[i] \in EntryLeg
    OBVIOUS
  <2> QED
    BY <2>1 DEF Touched
<1>2. \A i \in 1 .. n, x \in X : ApplyLeg(x, legs[i]) \in X
  BY <1>1, ApplyLegEffect
<1>3. \A f : Body(f) = Simple(f)
  <2> SUFFICES ASSUME NEW f, NEW i \in 0 .. n
               PROVE  \A j \in 1 .. i : legs[j].account_id \in DOMAIN accounts
    OBVIOUS
  <2> QED
    BY <1>1
<1>4. \E f : f \in [0 .. n -> X] /\ f = Simple(f)
  <2>1. step \in [1 .. n -> [X -> X]]
    BY <1>2
  <2>2. \A i \in 1 .. n, x \in X : step[i][x] = ApplyLeg(x, legs[i])
    OBVIOUS
  <2>3. accounts \in X /\ n \in Nat
    BY <1>1
  <2> HIDE DEF step, n, X
  <2>4. Runs(X, accounts, n, step) # {}
    BY <2>1, <2>3, FiniteRecursion, Zenon
  <2>5. PICK f \in [0 .. n -> X] : /\ f[0] = accounts
                                   /\ \A i \in 1 .. n : f[i] = step[i][f[i - 1]]
    BY <2>4 DEF Runs
  <2>6. ASSUME NEW i \in 1 .. n PROVE f[i] = ApplyLeg(f[i - 1], legs[i])
    <3>1. i - 1 \in 0 .. n /\ f[i - 1] \in X
      BY <2>3
    <3> QED
      BY <2>2, <2>5, <3>1
  <2>7. f = Simple(f)
    BY <2>3, <2>5, <2>6
  <2> QED
    BY <2>7, Zenon
<1>5. R = Simple(R)
  <2>1. \E f : f = Body(f)
    <3> HIDE DEF Body, Simple
    <3> QED
      BY <1>3, <1>4
  <2>2. R = Body(R)
    <3> HIDE DEF Body
    <3> QED
      BY <2>1
  <2> HIDE DEF Body, Simple, R
  <2> QED
    BY <1>3, <2>2
<1>6. ApplyLegs(accounts, legs) = R
  BY DEF ApplyLegs
<1> HIDE DEF R, X
<1>7. R[0] = accounts /\ \A i \in 1 .. n : R[i] = ApplyLeg(R[i - 1], legs[i])
  BY <1>1, <1>5
<1>8. \A i \in 0 .. n : R[i] \in X
  <2> DEFINE T == {i \in 0 .. n : R[i] \in X}
  <2>1. 0 \in T
    BY <1>1, <1>7 DEF X
  <2>2. \A i \in 1 .. n : i - 1 \in T => i \in T
    BY <1>1, <1>2, <1>7
  <2>3. \A i \in 0 .. n : i \in T
    <3> HIDE DEF T, n
    <3> QED
      BY <1>1, <2>1, <2>2, BoundedInduction, Zenon
  <2> QED
    BY <2>3
<1>9. R \in [0 .. n -> X]
  BY <1>5, <1>8
<1> QED
  BY <1>6, <1>7, <1>9 DEF X
\* An account whose balance has moved by total.
Moved(account, total) == [account EXCEPT !.balance = Wrap(@ + total)]

\* After i rounds an account differs from what it was by the running total of
\* its deltas, wrapped once: the wraps of the rounds collapse.
LEMMA ApplyLegsBalance ==
    ASSUME NEW D, D \subseteq AccountId, NEW accounts \in [D -> Account],
           NEW legs \in Seq(EntryLeg), Touched(legs) \subseteq D, NEW id \in D
    PROVE  \A i \in 0 .. Len(legs) :
              ApplyLegs(accounts, legs)[i][id] =
                Moved(accounts[id], RunningTotal(Deltas(legs, id, accounts[id].type))[i])
<1> DEFINE n == Len(legs)
           A == ApplyLegs(accounts, legs)
           account == accounts[id]
           deltas == Deltas(legs, id, account.type)
           R == RunningTotal(deltas)
           T == {i \in 0 .. n : A[i][id] = [account EXCEPT !.balance = Wrap(account.balance + R[i])]}
<1>1. n \in Nat /\ \A i \in 1 .. n : legs[i] \in EntryLeg /\ legs[i].account_id \in D
  <2>1. n \in Nat /\ \A i \in 1 .. n : legs[i] \in EntryLeg
    OBVIOUS
  <2> QED
    BY <2>1 DEF Touched
<1>2. /\ A \in [0 .. n -> [D -> Account]] /\ A[0] = accounts
      /\ \A i \in 1 .. n : A[i] = ApplyLeg(A[i - 1], legs[i])
  BY ApplyLegsRec
<1>3. /\ account \in Account /\ account.type \in AccountType
      /\ account.balance \in Amount /\ account.balance \in Int
  BY AmountType, Zenon DEF Account
<1>4. deltas \in Seq(Int) /\ Len(deltas) = n
  BY <1>3, ColumnTypes
<1>5. \A i \in 1 .. n : deltas[i] = IF legs[i].account_id = id
                                   THEN signed_delta(account.type, legs[i].direction, legs[i].amount)
                                   ELSE 0
  BY DEF Deltas
<1> HIDE DEF deltas
<1>6. /\ R \in [0 .. n -> Int] /\ R[0] = 0
      /\ \A i \in 1 .. n : R[i] = R[i - 1] + deltas[i]
  BY <1>4, RunningTotalRec
<1>7. \A i \in 1 .. n : deltas[i] \in Int
  BY <1>4
<1> HIDE DEF A, R, n, account
<1>8. 0 \in T
  <2>1. account.balance + R[0] = account.balance
    BY <1>3, <1>6
  <2>2. Wrap(account.balance + R[0]) = account.balance
    BY <1>3, <2>1, WrapId
  <2>3. [account EXCEPT !.balance = account.balance] = account
    BY <1>3 DEF Account
  <2>4. A[0][id] = account
    BY <1>2 DEF account
  <2> QED
    BY <1>1, <2>2, <2>3, <2>4
<1>9. ASSUME NEW i \in 1 .. n, i - 1 \in T PROVE i \in T
  <2> DEFINE old == A[i - 1][id]
             b == account.balance
             delta == signed_delta(account.type, legs[i].direction, legs[i].amount)
  <2>1. i \in 0 .. n /\ i - 1 \in 0 .. n
    BY <1>1
  <2>2. old = [account EXCEPT !.balance = Wrap(b + R[i - 1])]
    BY <1>9
  <2>3. b \in Int /\ R[i - 1] \in Int /\ deltas[i] \in Int /\ b + R[i - 1] \in Int
    <3>1. R[i - 1] \in Int
      BY <1>6, <2>1
    <3>2. b \in Int
      BY <1>3
    <3>3. deltas[i] \in Int
      BY <1>7
    <3> HIDE DEF b
    <3> QED
      BY <3>1, <3>2, <3>3
  <2>4. R[i] = R[i - 1] + deltas[i] /\ b + R[i] = (b + R[i - 1]) + deltas[i]
    <3>1. R[i] = R[i - 1] + deltas[i]
      BY <1>6
    <3> HIDE DEF b
    <3> QED
      BY <2>3, <3>1
  <2>5. A[i - 1] \in [D -> Account] /\ A[i] = ApplyLeg(A[i - 1], legs[i])
    BY <1>2, <2>1
  <2>6. old.type = account.type /\ old.balance = Wrap(b + R[i - 1])
    BY <1>3, <2>2 DEF Account
  <2> DEFINE delta_old == signed_delta(old.type, legs[i].direction, legs[i].amount)
  <2>7. A[i][id] = IF id = legs[i].account_id
                   THEN [old EXCEPT !.balance = Wrap(old.balance + delta_old)]
                   ELSE old
    <3>1. legs[i] \in EntryLeg /\ legs[i].account_id \in D
      BY <1>1
    <3> DEFINE before == A[i - 1]
               leg == legs[i]
    <3>2. before \in [D -> Account] /\ leg \in EntryLeg /\ leg.account_id \in D
      BY <2>5, <3>1
    <3>3. A[i] = ApplyLeg(before, leg)
      BY <2>5
    <3> HIDE DEF before, leg
    <3>4. ApplyLeg(before, leg)[id] =
            IF id = leg.account_id
            THEN [before[id] EXCEPT !.balance =
                    Wrap(before[id].balance + signed_delta(before[id].type, leg.direction, leg.amount))]
            ELSE before[id]
      BY <3>2, ApplyLegEffect
    <3> QED
      BY <3>3, <3>4 DEF before, leg
  <2>8. CASE legs[i].account_id = id
    <3>1. A[i][id] = [old EXCEPT !.balance =
                        Wrap(old.balance + signed_delta(old.type, legs[i].direction, legs[i].amount))]
      BY <2>8, <2>7
    <3>2. deltas[i] = delta
      BY <1>5, <2>8
    <3>3. A[i][id] = [old EXCEPT !.balance = Wrap(Wrap(b + R[i - 1]) + deltas[i])]
      BY <2>6, <3>1, <3>2
    <3>4. Wrap(Wrap(b + R[i - 1]) + deltas[i]) = Wrap(b + R[i])
      <4> DEFINE x == b + R[i - 1]
                 y == deltas[i]
      <4>1. x \in Int /\ y \in Int /\ b + R[i] = x + y
        BY <2>3, <2>4
      <4> HIDE DEF x, y
      <4>2. Wrap(Wrap(x) + y) = Wrap(x + y)
        BY <4>1, WrapAdd, Zenon
      <4> QED
        BY <4>1, <4>2 DEF x, y
    <3>5. [old EXCEPT !.balance = Wrap(b + R[i])] = [account EXCEPT !.balance = Wrap(b + R[i])]
      BY <1>3, <2>2, Zenon DEF Account
    <3> QED
      BY <2>1, <3>3, <3>4, <3>5
  <2>9. CASE legs[i].account_id # id
    <3>1. A[i][id] = old
      BY <2>9, <2>7
    <3>2. deltas[i] = 0
      BY <1>5, <2>9
    <3>3. b + R[i] = b + R[i - 1]
      BY <2>3, <2>4, <3>2
    <3> QED
      BY <2>1, <2>2, <3>1, <3>3
  <2> QED
    BY <2>8, <2>9
<1>10. \A i \in 0 .. n : i \in T
  <2> HIDE DEF T
  <2> QED
    BY <1>1, <1>8, <1>9, BoundedInduction, Zenon
<1> QED
  BY <1>10 DEF A, R, n, account, deltas, Moved
----------------------------------------------------------------------------
(* The trial balance. *)

\* By how much the debit-normal balances exceed the credit-normal ones.
Skew(accounts) == Total(Balances(accounts, TRUE)) - Total(Balances(accounts, FALSE))

LEMMA BalancesType ==
    ASSUME NEW D, D \subseteq AccountId, NEW accounts \in [D -> Account], NEW side \in BOOLEAN
    PROVE  /\ Balances(accounts, side) \in Seq(Int)
           /\ Len(Balances(accounts, side)) = NumAccounts
           /\ Total(Balances(accounts, side)) \in Int
<1> DEFINE B == Balances(accounts, side)
<1>1. \A id \in D : accounts[id].balance \in Int
  BY AmountType, Zenon DEF Account
<1>2. B \in [1 .. NumAccounts -> Int]
  BY <1>1 DEF Balances
<1>3. NumAccounts \in Nat
  BY ConstantsAssumption
<1> HIDE DEF B
<1>4. B \in Seq(Int) /\ Len(B) = NumAccounts
  BY <1>2, <1>3, FunctionIsSeq, Zenon
<1>5. RunningTotal(B) \in [0 .. NumAccounts -> Int]
  BY <1>4, RunningTotalRec
<1>6. Total(B) \in Int
  BY <1>3, <1>4, <1>5 DEF Total
<1> QED
  BY <1>4, <1>6 DEF B

\* validate_trial_balance, in terms of exact totals: the skew is a multiple of
\* the modulus.
LEMMA TrialBalanceSkew ==
    ASSUME NEW D, D \subseteq AccountId, NEW accounts \in [D -> Account]
    PROVE  validate_trial_balance(accounts) <=> \E k \in Int : Skew(accounts) = k * Modulus
<1> DEFINE d == Total(Balances(accounts, TRUE))
           c == Total(Balances(accounts, FALSE))
<1>1. d \in Int /\ c \in Int
  BY BalancesType, Zenon
<1>2. Modulus \in Int
  BY ModulusType
<1>3. validate_trial_balance(accounts) = (Wrap(d) = Wrap(c)) /\ Skew(accounts) = d - c
  BY DEF validate_trial_balance, Skew
<1> HIDE DEF d, c
<1>4. ASSUME Wrap(d) = Wrap(c) PROVE \E k \in Int : d - c = k * Modulus
  <2>1. PICK j \in Int : Wrap(d) = d + j * Modulus
    BY <1>1, WrapDiff
  <2>2. PICK l \in Int : Wrap(c) = c + l * Modulus
    BY <1>1, WrapDiff
  <2> DEFINE jm == j * Modulus
             lm == l * Modulus
  <2>3. jm \in Int /\ lm \in Int /\ (l - j) * Modulus = lm - jm
    BY <1>2
  <2>4. d - c = (l - j) * Modulus
    <3>1. d + jm = c + lm
      BY <1>4, <2>1, <2>2, Zenon
    <3> HIDE DEF jm, lm
    <3>2. d - c = lm - jm
      BY <1>1, <2>3, <3>1
    <3> QED
      BY <2>3, <3>2
  <2> QED
    BY <2>4
<1>5. ASSUME NEW k \in Int, d - c = k * Modulus PROVE Wrap(d) = Wrap(c)
  <2>1. k * Modulus \in Int
    BY <1>2
  <2>2. d = c + k * Modulus
    BY <1>1, <1>5, <2>1
  <2> QED
    BY <1>1, <2>2, WrapShift
<1> QED
  BY <1>3, <1>4, <1>5, Zenon
\* One round shifts the skew by the leg, positive for a debit, whatever the
\* type of its account, up to a multiple of the modulus.
LEMMA SkewLeg ==
    ASSUME NEW D, D \subseteq AccountId, NEW accounts \in [D -> Account],
           NEW leg \in EntryLeg, leg.account_id \in D
    PROVE  \E k \in Int :
              Skew(ApplyLeg(accounts, leg)) =
                Skew(accounts)
                  + (IF leg.direction = "Debit" THEN leg.amount ELSE -leg.amount)
                  + k * Modulus
<1> DEFINE a == leg.account_id
           after == ApplyLeg(accounts, leg)
           side == is_debit_normal(accounts[a].type)
           delta == signed_delta(accounts[a].type, leg.direction, leg.amount)
           b == accounts[a].balance
           P == Balances(accounts, side)
           Q == Balances(after, side)
           N == Total(Balances(accounts, ~ side))
<1>1. /\ after \in [D -> Account]
      /\ after[a] = [accounts[a] EXCEPT !.balance = Wrap(b + delta)]
      /\ \A id \in D : id # a => after[id] = accounts[id]
  <2>1. after \in [D -> Account]
    BY ApplyLegEffect
  <2>2. \A id \in D :
          after[id] = IF id = a
                      THEN [accounts[id] EXCEPT !.balance =
                              Wrap(accounts[id].balance
                                     + signed_delta(accounts[id].type, leg.direction, leg.amount))]
                      ELSE accounts[id]
    BY ApplyLegEffect
  <2> HIDE DEF after
  <2> QED
    BY <2>1, <2>2
<1>2. /\ accounts[a] \in Account /\ accounts[a].type \in AccountType /\ b \in Int
      /\ leg.direction \in Direction /\ leg.amount \in Amount /\ leg.amount \in Int
  BY AmountType, Zenon DEF Account, EntryLeg
<1>3. delta \in Int /\ side \in BOOLEAN /\ Modulus \in Int
  BY <1>2, SignedDeltaType, ModulusType DEF is_debit_normal
<1>4. after[a].type = accounts[a].type /\ after[a].balance = Wrap(b + delta)
  BY <1>1, <1>2 DEF Account
<1> HIDE DEF after
<1>5. a \in 1 .. NumAccounts
  BY Zenon DEF AccountId
<1>6. /\ P[a] = b /\ Q[a] = Wrap(b + delta)
      /\ \A i \in 1 .. NumAccounts : i # a => P[i] = Q[i]
  BY <1>1, <1>4, <1>5, Zenon DEF Balances
<1>7. Balances(after, ~ side) = Balances(accounts, ~ side)
  BY <1>1, <1>4, Zenon DEF Balances
<1>8. /\ P \in Seq(Int) /\ Q \in Seq(Int) /\ Len(P) = NumAccounts /\ Len(Q) = NumAccounts
      /\ Total(P) \in Int /\ Total(Q) \in Int /\ N \in Int
  <2>1. side \in BOOLEAN /\ (~ side) \in BOOLEAN
    BY <1>3
  <2> HIDE DEF side
  <2> QED
    BY <1>1, <2>1, BalancesType, Zenon
<1>9. /\ side => Skew(accounts) = Total(P) - N /\ Skew(after) = Total(Q) - N
      /\ ~ side => Skew(accounts) = N - Total(P) /\ Skew(after) = N - Total(Q)
  <2>1. CASE side = TRUE
    BY <1>7, <2>1, Zenon DEF Skew
  <2>2. CASE side = FALSE
    BY <1>7, <2>2, Zenon DEF Skew
  <2> HIDE DEF side
  <2> QED
    BY <1>3, <2>1, <2>2, Zenon
<1>10. PICK k \in Int : Wrap(b + delta) = (b + delta) + k * Modulus
  <2>1. b + delta \in Int
    BY <1>2, <1>3
  <2> QED
    BY <2>1, WrapDiff
<1> DEFINE m == k * Modulus
<1>11. m \in Int /\ (-k) * Modulus = -m
  BY <1>3
<1> HIDE DEF P, Q, N, b
<1>12. Total(Q) = Total(P) + (Q[a] - P[a])
  <2>1. Len(P) = Len(Q) /\ a \in 1 .. Len(P) /\ \A i \in 1 .. Len(P) : i # a => P[i] = Q[i]
    BY <1>5, <1>6, <1>8
  <2> HIDE DEF a
  <2> QED
    BY <1>8, <2>1, TotalUpdate, Zenon
<1>13. Total(Q) = Total(P) + delta + m
  <2> HIDE DEF delta, m
  <2>1. Q[a] = (b + delta) + m
    BY <1>6, <1>10 DEF m, delta
  <2> QED
    BY <1>2, <1>3, <1>6, <1>8, <1>11, <1>12, <2>1
<1>14. CASE side
  <2>1. delta = IF leg.direction = "Debit" THEN leg.amount ELSE -leg.amount
    BY <1>14 DEF signed_delta
  <2> HIDE DEF delta, m, side
  <2>2. Skew(after) = Skew(accounts) + delta + m
    BY <1>3, <1>8, <1>9, <1>11, <1>13, <1>14
  <2> QED
    BY <2>1, <2>2 DEF m, after
<1>15. CASE ~ side
  <2>1. -delta = IF leg.direction = "Debit" THEN leg.amount ELSE -leg.amount
    BY <1>2, <1>15 DEF signed_delta, Direction
  <2> HIDE DEF delta, m, side
  <2>2. Skew(after) = Skew(accounts) + (-delta) + (-m)
    BY <1>3, <1>8, <1>9, <1>11, <1>13, <1>15
  <2>3. -k \in Int
    OBVIOUS
  <2> QED
    BY <1>11, <2>1, <2>2, <2>3 DEF after
<1> QED
  BY <1>14, <1>15
\* The whole loop shifts the skew by the debits less the credits.
LEMMA SkewLegs ==
    ASSUME NEW D, D \subseteq AccountId, NEW accounts \in [D -> Account],
           NEW legs \in Seq(EntryLeg), Touched(legs) \subseteq D
    PROVE  \E k \in Int :
              Skew(ApplyLegs(accounts, legs)[Len(legs)]) =
                Skew(accounts)
                  + (Total(Amounts(legs, "Debit")) - Total(Amounts(legs, "Credit")))
                  + k * Modulus
<1> DEFINE n == Len(legs)
           A == ApplyLegs(accounts, legs)
           dr == Amounts(legs, "Debit")
           cr == Amounts(legs, "Credit")
           P == RunningTotal(dr)
           Q == RunningTotal(cr)
           T == {i \in 0 .. n : \E k \in Int :
                    Skew(A[i]) = Skew(accounts) + (P[i] - Q[i]) + k * Modulus}
<1>1. n \in Nat /\ \A i \in 1 .. n : legs[i] \in EntryLeg /\ legs[i].account_id \in D
  <2>1. n \in Nat /\ \A i \in 1 .. n : legs[i] \in EntryLeg
    OBVIOUS
  <2> QED
    BY <2>1 DEF Touched
<1>2. /\ A \in [0 .. n -> [D -> Account]] /\ A[0] = accounts
      /\ \A i \in 1 .. n : A[i] = ApplyLeg(A[i - 1], legs[i])
  BY ApplyLegsRec
<1>3. dr \in Seq(Int) /\ cr \in Seq(Int) /\ Len(dr) = n /\ Len(cr) = n
  BY ColumnTypes DEF Direction
<1>4. \A i \in 1 .. n :
         /\ dr[i] = IF legs[i].direction = "Debit" THEN legs[i].amount ELSE 0
         /\ cr[i] = IF legs[i].direction = "Credit" THEN legs[i].amount ELSE 0
  BY DEF Amounts
<1> HIDE DEF dr, cr
<1>5. /\ P \in [0 .. n -> Int] /\ P[0] = 0 /\ \A i \in 1 .. n : P[i] = P[i - 1] + dr[i]
      /\ Q \in [0 .. n -> Int] /\ Q[0] = 0 /\ \A i \in 1 .. n : Q[i] = Q[i - 1] + cr[i]
  BY <1>3, RunningTotalRec
<1>6. Modulus \in Int
  BY ModulusType
<1>7. \A x \in [D -> Account] : Skew(x) \in Int
  <2> TAKE x \in [D -> Account]
  <2> DEFINE d == Total(Balances(x, TRUE))
             c == Total(Balances(x, FALSE))
  <2>1. d \in Int /\ c \in Int /\ Skew(x) = d - c
    BY BalancesType, Zenon DEF Skew
  <2> HIDE DEF d, c
  <2> QED
    BY <2>1
<1> HIDE DEF A, P, Q, n
<1>8. 0 \in T
  <2>1. Skew(A[0]) = Skew(accounts) + (P[0] - Q[0]) + 0 * Modulus
    <3>1. Skew(accounts) \in Int /\ 0 * Modulus = 0 /\ P[0] - Q[0] = 0
      BY <1>5, <1>6, <1>7
    <3> QED
      BY <1>2, <3>1
  <2> QED
    BY <1>1, <2>1
<1>9. ASSUME NEW i \in 1 .. n, i - 1 \in T PROVE i \in T
  <2> DEFINE before == A[i - 1]
             leg == legs[i]
             shift == IF leg.direction = "Debit" THEN leg.amount ELSE -leg.amount
  <2>1. i \in 0 .. n /\ i - 1 \in 0 .. n
    BY <1>1
  <2>2. before \in [D -> Account] /\ A[i] = ApplyLeg(before, leg)
    BY <1>2, <2>1
  <2>3. leg \in EntryLeg /\ leg.account_id \in D
    BY <1>1
  <2>4. leg.direction \in Direction /\ leg.amount \in Int
    BY <2>3, AmountType, Zenon DEF EntryLeg
  <2>5. shift \in Int /\ dr[i] - cr[i] = shift /\ dr[i] \in Int /\ cr[i] \in Int
    BY <1>4, <2>4 DEF Direction
  <2>6. PICK k \in Int : Skew(before) = Skew(accounts) + (P[i - 1] - Q[i - 1]) + k * Modulus
    BY <1>9
  <2>7. PICK l \in Int : Skew(ApplyLeg(before, leg)) = Skew(before) + shift + l * Modulus
    <3> HIDE DEF before, leg
    <3> QED
      BY <2>2, <2>3, SkewLeg, Zenon
  <2> DEFINE km == k * Modulus
             lm == l * Modulus
  <2>8. km \in Int /\ lm \in Int /\ (k + l) * Modulus = km + lm /\ k + l \in Int
    BY <1>6
  <2>9. /\ P[i - 1] \in Int /\ Q[i - 1] \in Int /\ Skew(accounts) \in Int
        /\ P[i] = P[i - 1] + dr[i] /\ Q[i] = Q[i - 1] + cr[i]
    BY <1>5, <1>7, <2>1
  <2> HIDE DEF before, leg, shift, km, lm
  <2>10. Skew(A[i]) = Skew(accounts) + (P[i] - Q[i]) + (km + lm)
    <3>1. Skew(before) = Skew(accounts) + (P[i - 1] - Q[i - 1]) + km
      BY <2>6 DEF km
    <3>2. Skew(A[i]) = Skew(before) + shift + lm
      BY <2>2, <2>7 DEF lm
    <3> DEFINE s0 == Skew(accounts)
               p0 == P[i - 1]
               q0 == Q[i - 1]
               x == dr[i]
               y == cr[i]
    <3>3. /\ s0 \in Int /\ p0 \in Int /\ q0 \in Int /\ x \in Int /\ y \in Int
          /\ shift = x - y /\ P[i] = p0 + x /\ Q[i] = q0 + y
          /\ Skew(A[i]) = (s0 + (p0 - q0) + km) + shift + lm
      BY <2>5, <2>9, <3>1, <3>2
    <3> HIDE DEF s0, p0, q0, x, y
    <3>4. Skew(A[i]) = s0 + (P[i] - Q[i]) + (km + lm)
      BY <2>8, <3>3
    <3> QED
      BY <3>4 DEF s0
  <2> QED
    BY <2>1, <2>8, <2>10
<1>10. \A i \in 0 .. n : i \in T
  <2> HIDE DEF T
  <2> QED
    BY <1>1, <1>8, <1>9, BoundedInduction, Zenon
<1>11. n \in T
  BY <1>1, <1>10
<1> QED
  BY <1>3, <1>11 DEF Total, P, Q, A, n, dr, cr

----------------------------------------------------------------------------
(* Validation. *)

\* What passes validate_transaction_shape has no leg at fault and balances.
LEMMA ShapeValid ==
    ASSUME NEW legs \in Seq(EntryLeg), validate_transaction_shape(legs) = "None"
    PROVE  /\ \A i \in 1 .. Len(legs) : LegError(legs, i) = "None"
           /\ Total(Amounts(legs, "Debit")) = Total(Amounts(legs, "Credit"))
<1> DEFINE Bad == {i \in 1 .. Len(legs) : LegError(legs, i) # "None"}
<1>1. Bad = {}
  <2> SUFFICES ASSUME Bad # {} PROVE FALSE
    OBVIOUS
  <2>1. Bad \subseteq Nat
    OBVIOUS
  <2>2. PICK i \in Bad : \A j \in Bad : i <= j
    <3> HIDE DEF Bad
    <3> QED
      BY <2>1, LeastNat, Zenon
  <2>3. \A j \in 1 .. i - 1 : j \in 1 .. Len(legs) /\ ~ (i <= j)
    OBVIOUS
  <2>4. \A j \in 1 .. i - 1 : LegError(legs, j) = "None"
    BY <2>2, <2>3
  <2>5. LegError(legs, FirstBadLeg(legs)) # "None"
    BY <2>4 DEF FirstBadLeg
  <2> QED
    BY <2>5 DEF validate_transaction_shape
<1> QED
  BY <1>1 DEF validate_transaction_shape

\* What passes validate_transaction_against_state has every account present
\* and every projected balance within its limit.
LEMMA StateValid ==
    ASSUME NEW legs, NEW accounts, validate_transaction_against_state(legs, accounts) = "None"
    PROVE  /\ Touched(legs) \subseteq DOMAIN accounts
           /\ \A id \in Touched(legs) :
                 WithinOverdraft(accounts[id], projected_balance(accounts, legs, id))
BY DEF validate_transaction_against_state

\* With no leg at fault, the debits and the credits so far are machine
\* integers, and the net delta of any account lies between them.
LEMMA PendingBounds ==
    ASSUME NEW legs \in Seq(EntryLeg), \A i \in 1 .. Len(legs) : LegError(legs, i) = "None",
           NEW id \in AccountId, NEW type \in AccountType
    PROVE  \A i \in 0 .. Len(legs) : RunningTotal(Deltas(legs, id, type))[i] \in Amount
<1> DEFINE n == Len(legs)
           normal == is_debit_normal(type)
           dr == Amounts(legs, "Debit")
           cr == Amounts(legs, "Credit")
           ds == Deltas(legs, id, type)
           P == RunningTotal(dr)
           Q == RunningTotal(cr)
           R == RunningTotal(ds)
           T == {i \in 0 .. n :
                    /\ P[i] \in 0 .. AmountMax /\ Q[i] \in 0 .. AmountMax
                    /\ normal => -Q[i] <= R[i] /\ R[i] <= P[i]
                    /\ ~ normal => -P[i] <= R[i] /\ R[i] <= Q[i]}
<1>1. n \in Nat /\ AmountMax \in Nat /\ normal \in BOOLEAN
  BY ConstantsAssumption DEF is_debit_normal
<1>2. \A i \in 1 .. n : /\ legs[i].direction \in Direction /\ legs[i].amount \in Int
                        /\ legs[i].amount > 0
  <2>1. \A i \in 1 .. n : legs[i].direction \in Direction /\ legs[i].amount \in Int
    <3>1. \A i \in 1 .. n : legs[i] \in EntryLeg
      OBVIOUS
    <3> QED
      BY <3>1, AmountType, Zenon DEF EntryLeg
  <2>2. \A i \in 1 .. n : ~ (legs[i].amount <= 0)
    BY DEF LegError
  <2> QED
    BY <2>1, <2>2
<1>3. ASSUME NEW i \in 1 .. n
      PROVE  IF legs[i].direction = "Debit"
             THEN P[i - 1] <= AmountMax - legs[i].amount
             ELSE Q[i - 1] <= AmountMax - legs[i].amount
  <2>1. checked_add(RunningTotal(Amounts(legs, legs[i].direction))[i - 1], legs[i].amount)
    BY DEF LegError
  <2>2. RunningTotal(Amounts(legs, legs[i].direction))[i - 1] <= AmountMax - legs[i].amount
    BY <1>2, <2>1 DEF checked_add
  <2> QED
    BY <1>2, <2>2 DEF Direction
<1>4. \A i \in 1 .. n :
         /\ dr[i] = IF legs[i].direction = "Debit" THEN legs[i].amount ELSE 0
         /\ cr[i] = IF legs[i].direction = "Credit" THEN legs[i].amount ELSE 0
  BY DEF Amounts
<1>5. \A i \in 1 .. n :
         ds[i] = IF legs[i].account_id # id THEN 0
                 ELSE IF (legs[i].direction = "Debit") <=> normal THEN legs[i].amount
                 ELSE -legs[i].amount
  BY DEF Deltas, signed_delta
<1>6. /\ dr \in Seq(Int) /\ cr \in Seq(Int) /\ ds \in Seq(Int)
      /\ Len(dr) = n /\ Len(cr) = n /\ Len(ds) = n
  BY ColumnTypes DEF Direction
<1> HIDE DEF dr, cr, ds, n, normal
<1>7. /\ P \in [0 .. n -> Int] /\ P[0] = 0 /\ \A i \in 1 .. n : P[i] = P[i - 1] + dr[i]
      /\ Q \in [0 .. n -> Int] /\ Q[0] = 0 /\ \A i \in 1 .. n : Q[i] = Q[i - 1] + cr[i]
      /\ R \in [0 .. n -> Int] /\ R[0] = 0 /\ \A i \in 1 .. n : R[i] = R[i - 1] + ds[i]
  BY <1>6, RunningTotalRec, Zenon
<1> HIDE DEF P, Q, R
<1>8. 0 \in T
  BY <1>1, <1>7
<1>9. ASSUME NEW i \in 1 .. n, i - 1 \in T PROVE i \in T
  <2> DEFINE p == P[i - 1]
             q == Q[i - 1]
             r == R[i - 1]
             x == legs[i].amount
             debit == legs[i].direction = "Debit"
  <2>1. i \in 0 .. n /\ i - 1 \in 0 .. n
    BY <1>1
  <2>2. p \in Int /\ q \in Int /\ r \in Int /\ x \in Int /\ x > 0
    BY <1>2, <1>7, <2>1
  <2>3. /\ 0 <= p /\ p <= AmountMax /\ 0 <= q /\ q <= AmountMax
        /\ normal => -q <= r /\ r <= p
        /\ ~ normal => -p <= r /\ r <= q
    BY <1>9
  <2>4. /\ P[i] = p + (IF debit THEN x ELSE 0)
        /\ Q[i] = q + (IF debit THEN 0 ELSE x)
        /\ R[i] = r \/ R[i] = r + (IF debit <=> normal THEN x ELSE -x)
    <3>1. dr[i] = (IF debit THEN x ELSE 0) /\ cr[i] = (IF debit THEN 0 ELSE x)
      BY <1>2, <1>4 DEF Direction
    <3>2. ds[i] = 0 \/ ds[i] = (IF debit <=> normal THEN x ELSE -x)
      BY <1>5
    <3>3. P[i] = p + dr[i] /\ Q[i] = q + cr[i] /\ R[i] = r + ds[i]
      BY <1>7
    <3> HIDE DEF p, q, r, x, debit
    <3> QED
      BY <2>2, <3>1, <3>2, <3>3
  <2>5. IF debit THEN p <= AmountMax - x ELSE q <= AmountMax - x
    BY <1>3
  <2> HIDE DEF p, q, r, x, debit
  <2>6. P[i] \in 0 .. AmountMax /\ Q[i] \in 0 .. AmountMax
    BY <1>1, <2>2, <2>3, <2>4, <2>5
  <2>7. CASE normal
    <3>1. -Q[i] <= R[i] /\ R[i] <= P[i]
      BY <2>2, <2>3, <2>4, <2>7
    <3> QED
      BY <2>1, <2>6, <2>7, <3>1
  <2>8. CASE ~ normal
    <3>1. -P[i] <= R[i] /\ R[i] <= Q[i]
      BY <2>2, <2>3, <2>4, <2>8
    <3> QED
      BY <2>1, <2>6, <2>8, <3>1
  <2> QED
    BY <2>7, <2>8
<1>10. \A i \in 0 .. n : i \in T
  <2> HIDE DEF T
  <2> QED
    BY <1>1, <1>8, <1>9, BoundedInduction
<1>11. ASSUME NEW i \in 0 .. n PROVE R[i] \in Amount
  <2>1. R[i] \in Int /\ i \in T
    BY <1>7, <1>10
  <2> QED
    BY <1>1, <2>1 DEF Amount
<1> QED
  BY <1>11 DEF R, ds, n

----------------------------------------------------------------------------
(* Whole states. *)

LEMMA TotalType ==
    ASSUME NEW s \in Seq(Int)
    PROVE  Total(s) \in Int
<1>1. RunningTotal(s) \in [0 .. Len(s) -> Int] /\ Len(s) \in 0 .. Len(s)
  BY RunningTotalRec
<1> QED
  BY <1>1 DEF Total

\* A transaction of legal shape whose accounts are all there keeps the trial
\* balance: its debits equal its credits, so the skew moves by a multiple of
\* the modulus.
LEMMA ApplyBalanced ==
    ASSUME NEW D, D \subseteq AccountId, NEW accounts \in [D -> Account],
           NEW legs \in Seq(EntryLeg), Touched(legs) \subseteq D,
           validate_transaction_shape(legs) = "None", validate_trial_balance(accounts)
    PROVE  validate_trial_balance(ApplyLegs(accounts, legs)[Len(legs)])
<1> DEFINE after == ApplyLegs(accounts, legs)[Len(legs)]
           debits == Total(Amounts(legs, "Debit"))
           credits == Total(Amounts(legs, "Credit"))
<1>1. debits \in Int /\ credits \in Int /\ debits = credits
  <2>1. debits = credits
    BY ShapeValid
  <2>2. Amounts(legs, "Debit") \in Seq(Int)
    BY ColumnTypes DEF Direction
  <2>3. debits \in Int
    BY <2>2, TotalType, Zenon
  <2> QED
    BY <2>1, <2>3
<1>2. Modulus \in Int
  BY ModulusType
<1>3. after \in [D -> Account]
  <2>1. ApplyLegs(accounts, legs) \in [0 .. Len(legs) -> [D -> Account]]
    BY ApplyLegsRec
  <2> QED
    BY <2>1
<1>4. PICK j \in Int : Skew(accounts) = j * Modulus
  BY TrialBalanceSkew, Zenon
<1>5. PICK k \in Int : Skew(after) = Skew(accounts) + (debits - credits) + k * Modulus
  BY SkewLegs
<1> DEFINE jm == j * Modulus
           km == k * Modulus
<1>6. jm \in Int /\ km \in Int /\ (j + k) * Modulus = jm + km /\ j + k \in Int
  BY <1>2
<1> HIDE DEF debits, credits, after
<1>7. Skew(after) = jm + (debits - credits) + km
  BY <1>4, <1>5
<1>8. Skew(after) = (j + k) * Modulus
  <2> HIDE DEF jm, km
  <2> QED
    BY <1>1, <1>6, <1>7
<1>9. validate_trial_balance(after)
  BY <1>3, <1>6, <1>8, TrialBalanceSkew, Zenon
<1> QED
  BY <1>9 DEF after

\* apply to a ledger without accounts returns at the first leg.
LEMMA ApplyNowhere ==
    ASSUME NEW accounts, DOMAIN accounts = {}, NEW legs \in Seq(EntryLeg), Len(legs) # 0
    PROVE  ApplyLegs(accounts, legs)[Len(legs)] = accounts
<1> DEFINE n == Len(legs)
           Body(f) == [i \in 0 .. n |->
                          IF i = 0 THEN accounts
                          ELSE IF \A j \in 1 .. i : legs[j].account_id \in DOMAIN accounts
                          THEN ApplyLeg(f[i - 1], legs[i])
                          ELSE f[i - 1]]
           Simple(f) == [i \in 0 .. n |-> IF i = 0 THEN accounts ELSE f[i - 1]]
           R == CHOOSE f : f = Body(f)
<1>1. n \in Nat /\ n # 0
  OBVIOUS
<1>2. \A f : Body(f) = Simple(f)
  <2> SUFFICES ASSUME NEW f, NEW i \in 0 .. n, i # 0
               PROVE  ~ \A j \in 1 .. i : legs[j].account_id \in DOMAIN accounts
    OBVIOUS
  <2>1. 1 \in 1 .. i
    OBVIOUS
  <2> QED
    BY <2>1
<1>3. \E f : f = Simple(f)
  <2> DEFINE g == [i \in 0 .. n |-> accounts]
  <2>1. g = Simple(g)
    OBVIOUS
  <2> QED
    BY <2>1, Zenon
<1>4. R = Simple(R)
  <2>1. \E f : f = Body(f)
    <3> HIDE DEF Body, Simple
    <3> QED
      BY <1>2, <1>3
  <2>2. R = Body(R)
    <3> HIDE DEF Body
    <3> QED
      BY <2>1
  <2> HIDE DEF Body, Simple, R
  <2> QED
    BY <1>2, <2>2
<1>5. ApplyLegs(accounts, legs) = R
  BY DEF ApplyLegs
<1> HIDE DEF R
<1>6. R[0] = accounts /\ \A i \in 1 .. n : R[i] = R[i - 1]
  BY <1>1, <1>4
<1> DEFINE T == {i \in 0 .. n : R[i] = accounts}
<1>7. 0 \in T
  BY <1>1, <1>6
<1>8. \A i \in 1 .. n : i - 1 \in T => i \in T
  BY <1>1, <1>6
<1>9. \A i \in 0 .. n : i \in T
  <2> HIDE DEF T, n
  <2> QED
    BY <1>1, <1>7, <1>8, BoundedInduction, Zenon
<1> QED
  BY <1>1, <1>5, <1>9

----------------------------------------------------------------------------
(* The books: a state with all the accounts of D or none of them, in       *)
(* balance if they opened so, and the transactions that keep it that way.  *)

Sound(state, D, balanced) ==
    /\ IsLedgerState(state)
    /\ DOMAIN state.accounts \in {{}, D}
    /\ balanced => validate_trial_balance(state.accounts)

SoundTx(t, D) ==
    /\ t.id \in Nat /\ t.legs \in Seq(EntryLeg)
    /\ validate_transaction_shape(t.legs) = "None"
    /\ Touched(t.legs) \subseteq D

LEMMA StateTypes ==
    ASSUME NEW state
    PROVE  IsLedgerState(state) <=>
              /\ state = [accounts |-> state.accounts, last_applied_id |-> state.last_applied_id]
              /\ DOMAIN state.accounts \subseteq AccountId
              /\ state.accounts \in [DOMAIN state.accounts -> Account]
              /\ state.last_applied_id \in Nat
BY DEF IsLedgerState, IsAccountMap

LEMMA EmptySound == \A D, balanced : Sound(EmptyLedgerState, D, balanced)
<1> DEFINE e == EmptyLedgerState
<1>1. DOMAIN e.accounts = {} /\ IsLedgerState(e)
  BY DEF EmptyLedgerState, IsLedgerState, IsAccountMap
<1>2. Balances(e.accounts, TRUE) = Balances(e.accounts, FALSE)
  BY <1>1 DEF Balances
<1>3. validate_trial_balance(e.accounts)
  BY <1>2, Zenon DEF validate_trial_balance
<1> QED
  BY <1>1, <1>3, Zenon DEF Sound

\* apply of a transaction of legal shape, to all the accounts or to none.
LEMMA AppliedSound ==
    ASSUME NEW D, NEW balanced, NEW state, Sound(state, D, balanced), NEW t, SoundTx(t, D)
    PROVE  Sound(apply(state, t), D, balanced)
<1> DEFINE accounts == state.accounts
           legs == t.legs
           after == ApplyLegs(accounts, legs)[Len(legs)]
           new == apply(state, t)
<1>1. /\ state = [accounts |-> state.accounts, last_applied_id |-> state.last_applied_id]
      /\ DOMAIN accounts \subseteq AccountId /\ accounts \in [DOMAIN accounts -> Account]
      /\ state.last_applied_id \in Nat
  BY StateTypes, Zenon DEF Sound
<1>2. /\ t.id \in Nat /\ legs \in Seq(EntryLeg) /\ Touched(legs) \subseteq D
      /\ validate_transaction_shape(legs) = "None"
  BY Zenon DEF SoundTx
<1>3. Len(legs) \in Nat /\ ~ (Len(legs) < 2) /\ Len(legs) # 0
  BY <1>2 DEF validate_transaction_shape
<1>4. CASE DOMAIN accounts = {}
  <2>1. after = accounts
    BY <1>2, <1>3, <1>4, ApplyNowhere, Zenon
  <2>2. legs[1].account_id \in Touched(legs)
    BY <1>3 DEF Touched
  <2>3. new = [accounts |-> accounts, last_applied_id |-> state.last_applied_id]
    BY <1>4, <2>1, <2>2 DEF apply
  <2> QED
    BY <1>1, <2>3
<1>5. CASE DOMAIN accounts = D
  <2>1. after \in [D -> Account]
    <3>1. ApplyLegs(accounts, legs) \in [0 .. Len(legs) -> [D -> Account]]
      BY <1>1, <1>2, <1>5, ApplyLegsRec
    <3> QED
      BY <1>3, <3>1
  <2>2. balanced => validate_trial_balance(after)
    <3>1. D \subseteq AccountId /\ accounts \in [D -> Account]
      BY <1>1, <1>5
    <3>2. balanced => validate_trial_balance(accounts)
      BY Zenon DEF Sound
    <3> HIDE DEF accounts, legs
    <3> QED
      BY <1>2, <3>1, <3>2, ApplyBalanced, Zenon
  <2> DEFINE id == IF Touched(legs) \subseteq DOMAIN accounts /\ t.id > state.last_applied_id
                   THEN t.id ELSE state.last_applied_id
  <2>3. new = [accounts |-> after, last_applied_id |-> id]
    BY Zenon DEF apply
  <2>4. id \in Nat
    BY <1>1, <1>2
  <2> HIDE DEF after, id, new
  <2>5. new.accounts = after /\ new.last_applied_id = id
    BY <2>3
  <2>6. IsLedgerState(new)
    <3>1. new = [accounts |-> new.accounts, last_applied_id |-> new.last_applied_id]
      BY <2>3, <2>5
    <3>2. DOMAIN new.accounts = D /\ D \subseteq AccountId
      BY <1>1, <1>5, <2>1, <2>5
    <3> QED
      BY <2>1, <2>4, <2>5, <3>1, <3>2, StateTypes
  <2>7. DOMAIN new.accounts = D
    BY <2>1, <2>5
  <2> QED
    BY <2>2, <2>5, <2>6, <2>7 DEF Sound, new
<1> QED
  BY <1>4, <1>5 DEF Sound

\* add_account of an opening account.
LEMMA OpenedSound ==
    ASSUME NEW D, NEW balanced, NEW state, Sound(state, D, balanced),
           NEW id \in AccountId, NEW account \in Account, balanced => account.balance = 0,
           NEW new, new = add_account(state, id, account)
    PROVE  DOMAIN new.accounts \subseteq AccountId /\ Sound(new, DOMAIN new.accounts, balanced)
<1> DEFINE accounts == state.accounts
           C == DOMAIN accounts
<1>1. /\ state = [accounts |-> state.accounts, last_applied_id |-> state.last_applied_id]
      /\ C \subseteq AccountId /\ accounts \in [C -> Account]
      /\ state.last_applied_id \in Nat
  BY StateTypes, Zenon DEF Sound
<1>3. CASE id \in C
  <2>1. new = state
    BY <1>3 DEF add_account
  <2> QED
    BY <1>1, <2>1, Zenon DEF Sound
<1>4. CASE id \notin C
  <2> DEFINE more == [a \in C \cup {id} |-> IF a = id THEN account ELSE accounts[a]]
  <2>1. new = [state EXCEPT !.accounts = more]
    BY <1>4 DEF add_account
  <2>2. DOMAIN more = C \cup {id} /\ DOMAIN more \subseteq AccountId
        /\ more \in [DOMAIN more -> Account]
    BY <1>1
  <2>3. ASSUME balanced PROVE validate_trial_balance(more)
    <3>1. account.balance = 0
      BY <2>3
    <3>2. more[id] = account /\ \A a \in C : more[a] = accounts[a]
      BY <1>4
    <3>3. Balances(more, TRUE) = Balances(accounts, TRUE)
      BY <1>4, <2>2, <3>1, <3>2 DEF Balances
    <3>4. Balances(more, FALSE) = Balances(accounts, FALSE)
      BY <1>4, <2>2, <3>1, <3>2 DEF Balances
    <3>5. validate_trial_balance(accounts)
      BY <2>3 DEF Sound
    <3> QED
      BY <3>3, <3>4, <3>5, Zenon DEF validate_trial_balance
  <2> HIDE DEF more
  <2>4. new = [accounts |-> more, last_applied_id |-> state.last_applied_id]
    BY <1>1, <2>1
  <2>5. new.accounts = more /\ new.last_applied_id = state.last_applied_id
    BY <2>4
  <2>6. new = [accounts |-> new.accounts, last_applied_id |-> new.last_applied_id]
    BY <2>4, <2>5
  <2>7. IsLedgerState(new)
    BY <1>1, <2>2, <2>5, <2>6, StateTypes
  <2> QED
    BY <2>2, <2>3, <2>5, <2>7 DEF Sound
<1> QED
  BY <1>3, <1>4

----------------------------------------------------------------------------
(* Walks along the log. *)

\* Record r lies whole in the file.
Whole(file, r) ==
    /\ 2 * r <= Len(file)
    /\ file[2 * r - 1].part = "head"
    /\ file[2 * r] = [file[2 * r - 1] EXCEPT !.part = "body"]

\* What recover() makes of a record.
Replayed(state, t) == IF t.id > state.last_applied_id THEN apply(state, t) ELSE state

\* Replaying the records after the first n takes state to end, at record m.
Walk(state, n, end, m, file) ==
    \E path :
        /\ path[n] = state /\ path[m] = end
        /\ \A r \in n + 1 .. m :
              Whole(file, r) /\ path[r] = Replayed(path[r - 1], file[2 * r - 1].tx)

LEMMA WalkNowhere ==
    ASSUME NEW state, NEW n \in Nat, NEW file
    PROVE  Walk(state, n, state, n, file)
<1> DEFINE path == [r \in Nat |-> state]
<1>1. path[n] = state
  OBVIOUS
<1>2. \A r \in n + 1 .. n : FALSE
  OBVIOUS
<1> HIDE DEF path
<1> QED
  BY <1>1, <1>2, Zenon DEF Walk

LEMMA WalkOn ==
    ASSUME NEW state, NEW n \in Nat, NEW end, NEW m \in Nat, NEW file, n <= m,
           Walk(state, n, end, m, file), Whole(file, m + 1)
    PROVE  Walk(state, n, Replayed(end, file[2 * (m + 1) - 1].tx), m + 1, file)
<1> DEFINE next == Replayed(end, file[2 * (m + 1) - 1].tx)
<1>1. PICK path :
        /\ path[n] = state /\ path[m] = end
        /\ \A r \in n + 1 .. m :
              Whole(file, r) /\ path[r] = Replayed(path[r - 1], file[2 * r - 1].tx)
  BY Zenon DEF Walk
<1> DEFINE longer == [r \in Nat |-> IF r = m + 1 THEN next ELSE path[r]]
<1> HIDE DEF next
<1>2. /\ longer[n] = path[n] /\ longer[m + 1] = next
      /\ (m + 1) - 1 = m /\ longer[m] = path[m]
  OBVIOUS
<1>3. \A r \in n + 1 .. m : longer[r] = path[r] /\ longer[r - 1] = path[r - 1]
  OBVIOUS
<1>4. \A r \in n + 1 .. m + 1 : r \in n + 1 .. m \/ r = m + 1
  OBVIOUS
<1> HIDE DEF longer
<1>5. \A r \in n + 1 .. m + 1 :
         Whole(file, r) /\ longer[r] = Replayed(longer[r - 1], file[2 * r - 1].tx)
  <2> TAKE r \in n + 1 .. m + 1
  <2>1. CASE r \in n + 1 .. m
    BY <1>1, <1>3, <2>1, Zenon
  <2>2. CASE r = m + 1
    BY <1>1, <1>2, <2>2, Zenon DEF next
  <2> QED
    BY <1>4, <2>1, <2>2, Zenon
<1> QED
  BY <1>1, <1>2, <1>5, Zenon DEF Walk, next

LEMMA WalkFirst ==
    ASSUME NEW state, NEW n \in Nat, NEW end, NEW m \in Nat, NEW file, n < m,
           Walk(state, n, end, m, file)
    PROVE  /\ Whole(file, n + 1)
           /\ Walk(Replayed(state, file[2 * (n + 1) - 1].tx), n + 1, end, m, file)
<1>1. PICK path :
        /\ path[n] = state /\ path[m] = end
        /\ \A r \in n + 1 .. m :
              Whole(file, r) /\ path[r] = Replayed(path[r - 1], file[2 * r - 1].tx)
  BY Zenon DEF Walk
<1>2. n + 1 \in n + 1 .. m /\ (n + 1) - 1 = n
  OBVIOUS
<1>3. \A r \in (n + 1) + 1 .. m : r \in n + 1 .. m
  OBVIOUS
<1>4. Whole(file, n + 1) /\ path[n + 1] = Replayed(state, file[2 * (n + 1) - 1].tx)
  BY <1>1, <1>2, Zenon
<1> QED
  BY <1>1, <1>3, <1>4, Zenon DEF Walk

\* A walk is over the records it passes, whatever follows them.
LEMMA WalkKept ==
    ASSUME NEW state, NEW n \in Nat, NEW end, NEW m \in Nat, NEW file, NEW other,
           Walk(state, n, end, m, file), Len(other) \in Nat, 2 * m <= Len(other),
           \A i \in 1 .. 2 * m : other[i] = file[i]
    PROVE  Walk(state, n, end, m, other)
<1>1. PICK path :
        /\ path[n] = state /\ path[m] = end
        /\ \A r \in n + 1 .. m :
              Whole(file, r) /\ path[r] = Replayed(path[r - 1], file[2 * r - 1].tx)
  BY Zenon DEF Walk
<1>2. \A r \in n + 1 .. m :
         /\ 2 * r - 1 \in 1 .. 2 * m /\ 2 * r \in 1 .. 2 * m /\ 2 * r <= Len(other)
  OBVIOUS
<1>3. \A r \in n + 1 .. m :
         /\ other[2 * r - 1] = file[2 * r - 1] /\ other[2 * r] = file[2 * r]
         /\ 2 * r <= Len(other)
  BY <1>2, Zenon
<1>4. \A r \in n + 1 .. m :
         Whole(other, r) /\ path[r] = Replayed(path[r - 1], other[2 * r - 1].tx)
  BY <1>1, <1>3, Zenon DEF Whole
<1> QED
  BY <1>1, <1>4, Zenon DEF Walk

----------------------------------------------------------------------------
(* The history of commits and the records of them in the log. *)

InIdOrder(h) == \A i \in 2 .. Len(h) : h[i - 1].id < h[i].id

\* A record of the commit that took the ledger from one entry to the next.
RecordOf(unit, before, after) ==
    /\ unit.part = "head" /\ "part" \in DOMAIN unit
    /\ after.id = unit.tx.id
    /\ after.ledger = apply(before.ledger, unit.tx)

\* The log of this run starts after b records of earlier ones, and holds the
\* records of a prefix of h, the last of them perhaps in part.
Records(h, b, file) ==
    \A k \in 1 .. Len(h) - 1 :
        /\ 2 * (b + k) - 1 <= Len(file) => RecordOf(file[2 * (b + k) - 1], h[k], h[k + 1])
        /\ 2 * (b + k) <= Len(file) =>
              file[2 * (b + k)] = [file[2 * (b + k) - 1] EXCEPT !.part = "body"]

IsHistory(h) ==
    /\ Len(h) \in Nat \ {0}
    /\ \A i \in 1 .. Len(h) : h[i].id \in Nat
    /\ InIdOrder(h) => \A i \in 1 .. Len(h) : h[i].ledger.last_applied_id = h[i].id

History(h, b, file) ==
    /\ IsHistory(h)
    /\ b \in Nat /\ Len(file) \in Nat
    /\ 2 * b <= Len(file) /\ Len(file) <= 2 * (b + Len(h) - 1)
    /\ Records(h, b, file)

\* A state that is what recover() would have after n records: the ledger after
\* a commit of this run, or one from which the replay leads to its first.
AtCommit(state, n, h, b, j) == n = b + j - 1 /\ (InIdOrder(h) => state = h[j].ledger)

OnTrack(state, n, h, b, file) ==
    \/ \E j \in 1 .. Len(h) : AtCommit(state, n, h, b, j)
    \/ n <= b /\ Walk(state, n, h[1].ledger, b, file)

LEMMA TrackCases ==
    ASSUME NEW state, NEW n \in Nat, NEW h, NEW b, NEW file, History(h, b, file),
           OnTrack(state, n, h, b, file)
    PROVE  \/ \E j \in 1 .. Len(h) : AtCommit(state, n, h, b, j)
           \/ n < b /\ Walk(state, n, h[1].ledger, b, file)
<1>1. b \in Nat /\ Len(h) \in Nat \ {0}
  BY DEF History, IsHistory
<1>2. ASSUME n = b, Walk(state, n, h[1].ledger, b, file)
      PROVE  \E j \in 1 .. Len(h) : AtCommit(state, n, h, b, j)
  <2>1. state = h[1].ledger
    BY <1>2, Zenon DEF Walk
  <2>2. 1 \in 1 .. Len(h) /\ n = b + 1 - 1
    BY <1>1, <1>2
  <2> QED
    BY <2>1, <2>2, Zenon DEF AtCommit
<1>3. n <= b => n = b \/ n < b
  BY <1>1
<1> QED
  BY <1>2, <1>3, Zenon DEF OnTrack

\* One record is replayed.
LEMMA TrackReplayed ==
    ASSUME NEW state, NEW n \in Nat, NEW h, NEW b, NEW file, History(h, b, file),
           OnTrack(state, n, h, b, file), Whole(file, n + 1)
    PROVE  OnTrack(Replayed(state, file[2 * (n + 1) - 1].tx), n + 1, h, b, file)
<1> DEFINE t == file[2 * (n + 1) - 1].tx
<1>1. /\ b \in Nat /\ Len(h) \in Nat \ {0} /\ Len(file) \in Nat
      /\ Len(file) <= 2 * (b + Len(h) - 1)
  BY DEF History, IsHistory
<1>2. ASSUME NEW j \in 1 .. Len(h), AtCommit(state, n, h, b, j)
      PROVE  AtCommit(Replayed(state, t), n + 1, h, b, j + 1) /\ j + 1 \in 1 .. Len(h)
  <2>1. n = b + j - 1 /\ (InIdOrder(h) => state = h[j].ledger)
    BY <1>2 DEF AtCommit
  <2>2. 2 * (n + 1) <= Len(file)
    BY DEF Whole
  <2>3. /\ j \in 1 .. Len(h) - 1 /\ j + 1 \in 2 .. Len(h) /\ j + 1 \in 1 .. Len(h)
        /\ 2 * (b + j) - 1 <= Len(file) /\ n + 1 = b + j /\ (j + 1) - 1 = j
        /\ n + 1 = b + (j + 1) - 1
    BY <1>1, <2>1, <2>2
  <2>4. RecordOf(file[2 * (n + 1) - 1], h[j], h[j + 1])
    BY <2>3, Zenon DEF History, Records
  <2>5. h[j + 1].id = t.id /\ h[j + 1].ledger = apply(h[j].ledger, t)
    BY <2>4, Zenon DEF RecordOf
  <2>6. ASSUME InIdOrder(h) PROVE Replayed(state, t) = h[j + 1].ledger
    <3>1. h[j].id < h[j + 1].id
      BY <2>3, <2>6, Zenon DEF InIdOrder
    <3>2. h[j].id \in Nat /\ h[j + 1].id \in Nat /\ h[j].ledger.last_applied_id = h[j].id
      BY <2>3, <2>6, Zenon DEF History, IsHistory
    <3>3. h[j + 1].id > h[j].id
      BY <3>1, <3>2
    <3> QED
      BY <2>1, <2>5, <2>6, <3>2, <3>3, Zenon DEF Replayed
  <2> QED
    BY <2>3, <2>6, Zenon DEF AtCommit
<1>3. ASSUME n < b, Walk(state, n, h[1].ledger, b, file)
      PROVE  n + 1 <= b /\ Walk(Replayed(state, t), n + 1, h[1].ledger, b, file)
  <2>1. n + 1 <= b
    BY <1>1, <1>3
  <2> QED
    BY <1>1, <1>3, <2>1, WalkFirst, Zenon
<1> QED
  BY <1>2, <1>3, TrackCases, Zenon DEF OnTrack

\* There is no further record: the replay is at a commit of this run, and only
\* a part of the next record may follow.
LEMMA TrackEnds ==
    ASSUME NEW state, NEW n \in Nat, NEW h, NEW b, NEW file, History(h, b, file),
           OnTrack(state, n, h, b, file), ~ Whole(file, n + 1)
    PROVE  /\ \E j \in 1 .. Len(h) : AtCommit(state, n, h, b, j)
           /\ Len(file) <= 2 * n + 1
<1>1. /\ b \in Nat /\ Len(h) \in Nat \ {0} /\ Len(file) \in Nat
      /\ Len(file) <= 2 * (b + Len(h) - 1)
  BY DEF History, IsHistory
<1>2. ~ (n < b /\ Walk(state, n, h[1].ledger, b, file))
  BY <1>1, WalkFirst, Zenon
<1>3. PICK j \in 1 .. Len(h) : AtCommit(state, n, h, b, j)
  BY <1>2, TrackCases, Zenon
<1>4. n = b + j - 1
  BY <1>3 DEF AtCommit
<1>5. SUFFICES ASSUME ~ (Len(file) <= 2 * n + 1) PROVE FALSE
  BY <1>3, Zenon
<1>6. /\ j \in 1 .. Len(h) - 1 /\ n + 1 = b + j
      /\ 2 * (b + j) - 1 <= Len(file) /\ 2 * (b + j) <= Len(file)
  BY <1>1, <1>4, <1>5
<1>7. /\ RecordOf(file[2 * (n + 1) - 1], h[j], h[j + 1])
      /\ file[2 * (n + 1)] = [file[2 * (n + 1) - 1] EXCEPT !.part = "body"]
  BY <1>6, Zenon DEF History, Records
<1> QED
  BY <1>6, <1>7, Zenon DEF Whole, RecordOf

\* The log is cut short, but not into what earlier runs left.
LEMMA HistoryCut ==
    ASSUME NEW h, NEW b, NEW file, History(h, b, file), NEW other, Len(other) \in Nat,
           2 * b <= Len(other), Len(other) <= Len(file),
           \A i \in 1 .. Len(other) : other[i] = file[i]
    PROVE  /\ History(h, b, other)
           /\ \A state : \A n \in Nat : OnTrack(state, n, h, b, file) => OnTrack(state, n, h, b, other)
<1>1. /\ b \in Nat /\ Len(h) \in Nat \ {0} /\ Len(file) \in Nat
      /\ Len(file) <= 2 * (b + Len(h) - 1)
  BY DEF History, IsHistory
<1>2. Records(h, b, other)
  <2> SUFFICES ASSUME NEW k \in 1 .. Len(h) - 1
               PROVE  /\ 2 * (b + k) - 1 <= Len(other) =>
                            RecordOf(other[2 * (b + k) - 1], h[k], h[k + 1])
                      /\ 2 * (b + k) <= Len(other) =>
                            other[2 * (b + k)] = [other[2 * (b + k) - 1] EXCEPT !.part = "body"]
    BY Zenon DEF Records
  <2> DEFINE p == 2 * (b + k) - 1
             q == 2 * (b + k)
  <2>1. /\ p <= Len(other) => p \in 1 .. Len(other) /\ p <= Len(file)
        /\ q <= Len(other) => q \in 1 .. Len(other) /\ p \in 1 .. Len(other) /\ q <= Len(file)
    BY <1>1
  <2>2. /\ p <= Len(file) => RecordOf(file[p], h[k], h[k + 1])
        /\ q <= Len(file) => file[q] = [file[p] EXCEPT !.part = "body"]
    BY Zenon DEF History, Records
  <2> HIDE DEF p, q
  <2>3. /\ p <= Len(other) => RecordOf(other[p], h[k], h[k + 1])
        /\ q <= Len(other) => other[q] = [other[p] EXCEPT !.part = "body"]
    BY <2>1, <2>2, Zenon
  <2> QED
    BY <2>3 DEF p, q
<1>3. Len(other) <= 2 * (b + Len(h) - 1)
  BY <1>1
<1>4. ASSUME NEW state, NEW n \in Nat, OnTrack(state, n, h, b, file)
      PROVE  OnTrack(state, n, h, b, other)
  <2>1. \A i \in 1 .. 2 * b : other[i] = file[i]
    BY <1>1
  <2>2. Walk(state, n, h[1].ledger, b, file) => Walk(state, n, h[1].ledger, b, other)
    BY <1>1, <2>1, WalkKept, Zenon
  <2> QED
    BY <1>4, <2>2, Zenon DEF OnTrack
<1> QED
  BY <1>1, <1>2, <1>3, <1>4, Zenon DEF History

\* A transaction is logged and becomes the next commit.
OneMore(h, b, file, t, more, longer) ==
    /\ History(h, b, file) /\ Len(file) = 2 * (b + Len(h) - 1)
    /\ t.id \in Nat /\ Touched(t.legs) \subseteq DOMAIN h[Len(h)].ledger.accounts
    /\ Len(more) = Len(h) + 1 /\ \A i \in 1 .. Len(h) : more[i] = h[i]
    /\ more[Len(h) + 1] = [id |-> t.id, ledger |-> apply(h[Len(h)].ledger, t)]
    /\ Len(longer) = Len(file) + 2 /\ \A i \in 1 .. Len(file) : longer[i] = file[i]
    /\ longer[Len(file) + 1].part = "head" /\ longer[Len(file) + 1].tx = t
    /\ "part" \in DOMAIN longer[Len(file) + 1]
    /\ longer[Len(file) + 2] = [longer[Len(file) + 1] EXCEPT !.part = "body"]

LEMMA HistoryGrows ==
    ASSUME NEW h, NEW b, NEW file, NEW t, NEW more, NEW longer,
           OneMore(h, b, file, t, more, longer)
    PROVE  /\ History(more, b, longer) /\ Len(longer) = 2 * (b + Len(more) - 1)
           /\ \A state : \A n \in Nat :
                 OnTrack(state, n, h, b, file) => OnTrack(state, n, more, b, longer)
<1> DEFINE m == Len(h)
           l == Len(file)
           last == h[m].ledger
           c == [id |-> t.id, ledger |-> apply(last, t)]
<1>0. /\ c.id = t.id /\ c.ledger = apply(last, t) /\ t.id \in Nat
      /\ History(h, b, file)
  BY Zenon DEF OneMore
<1>1. /\ b \in Nat /\ m \in Nat \ {0} /\ l \in Nat /\ l = 2 * (b + m - 1)
  BY DEF OneMore, History, IsHistory
<1>2. /\ longer[l + 1].part = "head" /\ longer[l + 1].tx = t /\ "part" \in DOMAIN longer[l + 1]
      /\ longer[l + 2] = [longer[l + 1] EXCEPT !.part = "body"]
  BY Zenon DEF OneMore
<1>3. /\ Len(more) = m + 1 /\ more[m + 1] = c
      /\ \A i \in 1 .. m : more[i] = h[i]
  BY Zenon DEF OneMore
<1>4. Len(longer) = l + 2 /\ \A i \in 1 .. l : longer[i] = file[i]
  BY Zenon DEF OneMore
<1> HIDE DEF c
<1>5. Len(more) \in Nat \ {0} /\ Len(longer) \in Nat /\ Len(longer) = 2 * (b + Len(more) - 1)
  BY <1>1, <1>3, <1>4
<1>6. Records(more, b, longer)
  <2> SUFFICES ASSUME NEW k \in 1 .. m
               PROVE  /\ RecordOf(longer[2 * (b + k) - 1], more[k], more[k + 1])
                      /\ longer[2 * (b + k)] = [longer[2 * (b + k) - 1] EXCEPT !.part = "body"]
    <3>1. Len(more) - 1 = m
      BY <1>1, <1>3
    <3> QED
      BY <3>1, Zenon DEF Records
  <2>1. CASE k = m
    <3>1. 2 * (b + k) - 1 = l + 1 /\ 2 * (b + k) = l + 2 /\ k \in 1 .. m
      BY <1>1, <2>1
    <3>2. more[k] = h[m] /\ more[k + 1] = c
      BY <1>3, <2>1, Zenon
    <3> QED
      BY <1>0, <1>2, <1>4, <3>1, <3>2, Zenon DEF RecordOf
  <2>2. CASE k # m
    <3>1. /\ k \in 1 .. m - 1 /\ k + 1 \in 1 .. m
          /\ 2 * (b + k) - 1 \in 1 .. l /\ 2 * (b + k) \in 1 .. l
          /\ 2 * (b + k) - 1 <= l /\ 2 * (b + k) <= l
      BY <1>1, <2>2
    <3>2. /\ RecordOf(file[2 * (b + k) - 1], h[k], h[k + 1])
          /\ file[2 * (b + k)] = [file[2 * (b + k) - 1] EXCEPT !.part = "body"]
      BY <1>0, <3>1, Zenon DEF History, Records
    <3>3. more[k] = h[k] /\ more[k + 1] = h[k + 1]
      BY <1>3, <3>1, Zenon
    <3> QED
      BY <1>4, <3>1, <3>2, <3>3, Zenon
  <2> QED
    BY <2>1, <2>2, Zenon
<1>7. InIdOrder(more) => InIdOrder(h)
  <2> SUFFICES ASSUME InIdOrder(more), NEW i \in 2 .. m PROVE h[i - 1].id < h[i].id
    BY Zenon DEF InIdOrder
  <2>1. i \in 2 .. Len(more) /\ i \in 1 .. m /\ i - 1 \in 1 .. m
    BY <1>1, <1>3
  <2>2. more[i - 1].id < more[i].id
    BY <2>1, Zenon DEF InIdOrder
  <2> QED
    BY <1>3, <2>1, <2>2, Zenon
<1>8. \A i \in 1 .. Len(more) : i \in 1 .. m \/ i = m + 1
  BY <1>1, <1>3
<1>9. ASSUME InIdOrder(more) PROVE c.ledger.last_applied_id = c.id
  <2>1. m \in 1 .. m /\ m + 1 \in 2 .. Len(more) /\ (m + 1) - 1 = m
    BY <1>1, <1>3
  <2>2. h[m].id < t.id
    <3>1. more[(m + 1) - 1].id < more[m + 1].id
      BY <1>9, <2>1, Zenon DEF InIdOrder
    <3> QED
      BY <1>0, <1>3, <2>1, <3>1, Zenon
  <2>3. last.last_applied_id = h[m].id /\ h[m].id \in Nat
    BY <1>0, <1>7, <1>9, <2>1, Zenon DEF History, IsHistory
  <2>4. t.id > last.last_applied_id
    BY <2>2, <2>3
  <2>5. apply(last, t).last_applied_id = t.id
    BY <2>4, Zenon DEF OneMore, apply
  <2> QED
    BY <1>0, <2>5, Zenon
<1>10. IsHistory(more)
  <2>1. \A i \in 1 .. Len(more) : more[i].id \in Nat
    BY <1>0, <1>3, <1>8, Zenon DEF History, IsHistory
  <2>2. InIdOrder(more) => \A i \in 1 .. Len(more) : more[i].ledger.last_applied_id = more[i].id
    BY <1>0, <1>3, <1>7, <1>8, <1>9, Zenon DEF History, IsHistory
  <2> QED
    BY <1>3, <1>5, <2>1, <2>2, Zenon DEF IsHistory
<1>11. ASSUME NEW state, NEW n \in Nat, OnTrack(state, n, h, b, file)
       PROVE  OnTrack(state, n, more, b, longer)
  <2>1. ASSUME NEW j \in 1 .. m, AtCommit(state, n, h, b, j)
        PROVE  j \in 1 .. Len(more) /\ AtCommit(state, n, more, b, j)
    <3>1. j \in 1 .. Len(more)
      BY <1>1, <1>3
    <3> QED
      BY <1>3, <1>7, <2>1, <3>1, Zenon DEF AtCommit
  <2>2. Walk(state, n, h[1].ledger, b, file) => Walk(state, n, more[1].ledger, b, longer)
    <3>1. 1 \in 1 .. m /\ 2 * b <= Len(longer) /\ \A i \in 1 .. 2 * b : i \in 1 .. l
      BY <1>1, <1>4
    <3> QED
      BY <1>1, <1>3, <1>4, <1>5, <3>1, WalkKept, ZenonT(30)
  <2> QED
    BY <1>11, <2>1, <2>2, Zenon DEF OnTrack
<1>12. 2 * b <= Len(longer) /\ Len(longer) <= 2 * (b + Len(more) - 1)
  BY <1>1, <1>4, <1>5
<1> QED
  BY <1>1, <1>5, <1>6, <1>10, <1>11, <1>12, Zenon DEF History

LEMMA DistinctIds ==
    ASSUME NEW h, IsHistory(h), InIdOrder(h), NEW i \in 1 .. Len(h), NEW j \in 1 .. Len(h),
           h[i].id = h[j].id
    PROVE  i = j
<1> DEFINE m == Len(h)
           T == {d \in 0 .. m : \A x, y \in 1 .. m : y <= d /\ x < y => h[x].id < h[y].id}
<1>1. m \in Nat /\ \A x \in 1 .. m : h[x].id \in Nat
  BY DEF IsHistory
<1>2. 0 \in T
  BY <1>1
<1>3. ASSUME NEW d \in 1 .. m, d - 1 \in T PROVE d \in T
  <2> SUFFICES ASSUME NEW x \in 1 .. m, NEW y \in 1 .. m, y <= d, x < y
               PROVE  h[x].id < h[y].id
    BY <1>1
  <2>1. CASE y <= d - 1
    BY <1>3, <2>1
  <2>2. CASE ~ (y <= d - 1)
    <3>1. y = d /\ d \in 2 .. Len(h) /\ d - 1 \in 1 .. m /\ (x = d - 1 \/ x < d - 1)
      BY <1>1, <2>2
    <3>2. h[d - 1].id < h[d].id
      BY <3>1, Zenon DEF InIdOrder
    <3>3. x < d - 1 => h[x].id < h[d - 1].id
      BY <1>1, <1>3, <3>1
    <3> QED
      BY <1>1, <3>1, <3>2, <3>3
  <2> QED
    BY <2>1, <2>2
<1>4. m \in T
  <2> HIDE DEF T
  <2>1. \A d \in 0 .. m : d \in T
    BY <1>1, <1>2, <1>3, BoundedInduction, Zenon
  <2> QED
    BY <1>1, <2>1
<1>5. \A x, y \in 1 .. m : x < y => h[x].id < h[y].id
  BY <1>1, <1>4
<1> QED
  BY <1>1, <1>5

\* A run starts from one entry.
LEMMA FirstCommit ==
    ASSUME NEW c, c.id \in Nat, c.ledger.last_applied_id = c.id,
           NEW b \in Nat, NEW file, Len(file) = 2 * b
    PROVE  /\ History(<<c>>, b, file) /\ Len(<<c>>) = 1 /\ <<c>>[1] = c
           /\ Len(file) = 2 * (b + Len(<<c>>) - 1)
<1>1. Len(<<c>>) = 1 /\ <<c>>[1] = c
  OBVIOUS
<1>2. PICK h : h = <<c>>
  BY Zenon
<1>3. Len(h) = 1 /\ h[1] = c
  BY <1>1, <1>2, Zenon
<1>4. \A i \in 1 .. Len(h) : h[i] = c
  BY <1>3
<1>5. IsHistory(h)
  BY <1>3, <1>4 DEF IsHistory
<1>6. Records(h, b, file)
  BY <1>3 DEF Records
<1>7. Len(file) \in Nat /\ Len(file) = 2 * (b + Len(h) - 1)
  BY <1>3
<1>8. History(h, b, file)
  BY <1>5, <1>6, <1>7 DEF History
<1> QED
  BY <1>2, <1>3, <1>7, <1>8, Zenon

=============================================================================
