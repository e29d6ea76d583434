---------------------------- MODULE CacheProofs ----------------------------
(***************************************************************************)
(* The nodes and links of IdempotencyCache hold two lists and one chain    *)
(* per bucket whatever is asked, and so are the bounded set of recent keys *)
(* of SeenKeys, for any keys, any hash function and any capacity.          *)
(***************************************************************************)
EXTENDS IdempotencyCache, FiniteSetTheorems, TLAPS

\* A nonempty set of naturals has a least element.
LEMMA Least ==
    ASSUME NEW T, T \subseteq Nat, T # {}
    PROVE  \E x \in T : \A y \in T : x <= y
<1> DEFINE less == {ss \in Nat \X Nat : ss[1] < ss[2]}
<1>1. IsWellFoundedOn(less, Nat)
  BY NatLessThanWellFounded DEF OpToRel
<1>2. PICK x \in T : \A y \in T : <<y, x>> \notin less
  <2> HIDE DEF less
  <2> QED
    BY <1>1, WFMin, Zenon
<1>3. \A y \in T : ~ (y < x)
  BY <1>2, Zenon
<1> QED
  BY <1>3

\* Induction from 1 to n, with a set in place of a predicate.
LEMMA UpTo ==
    ASSUME NEW T, NEW n \in Nat, 1 \in T, \A i \in 2 .. n : i - 1 \in T => i \in T
    PROVE  \A i \in 1 .. n : i \in T
<1> DEFINE U == {i \in 1 .. n : i \notin T}
<1> SUFFICES ASSUME U # {} PROVE FALSE
  OBVIOUS
<1>1. PICK m \in U : \A y \in U : m <= y
  <2>1. U \subseteq Nat
    OBVIOUS
  <2> HIDE DEF U
  <2> QED
    BY <2>1, Least, Zenon
<1>2. m \in 2 .. n /\ m - 1 \in 1 .. n /\ m - 1 \notin U
  BY <1>1
<1> QED
  BY <1>2

----------------------------------------------------------------------------
(* The number of buckets. *)

\* The constructor makes at least one bucket.
LEMMA BitCeilPositive == \A n \in Nat : bit_ceil(n) \in Nat \ {0}
<1> SUFFICES ASSUME NEW n \in Nat PROVE bit_ceil(n) \in Nat \ {0}
  BY Zenon
<1> DEFINE Body(f, k) == [m \in 0 .. k |-> IF m <= 1 THEN 1 ELSE 2 * f[(m + 1) \div 2]]
           Ceil == CHOOSE f : f = Body(f, n)
           T == {k \in 1 .. n + 1 : \E f : f = Body(f, k - 1)}
<1>1. n + 1 \in T
  <2>1. 1 \in T
    <3> DEFINE f == [m \in 0 .. 0 |-> 1]
    <3>1. \A m \in 0 .. 0 : (IF m <= 1 THEN 1 ELSE 2 * f[(m + 1) \div 2]) = 1
      OBVIOUS
    <3>2. f = Body(f, 0)
      BY <3>1, Zenon
    <3>3. 0 = 1 - 1 /\ 1 \in 1 .. n + 1
      OBVIOUS
    <3> HIDE DEF f
    <3> QED
      BY <3>2, <3>3
  <2>2. ASSUME NEW k \in 2 .. n + 1, k - 1 \in T PROVE k \in T
    <3>1. PICK f : f = Body(f, (k - 1) - 1)
      BY <2>2
    <3> DEFINE g == [m \in 0 .. k - 1 |-> IF m <= 1 THEN 1 ELSE 2 * f[(m + 1) \div 2]]
    <3>2. ASSUME NEW m \in 0 .. k - 1, ~ (m <= 1) PROVE g[(m + 1) \div 2] = f[(m + 1) \div 2]
      <4>1. (m + 1) \div 2 \in 0 .. k - 1 /\ (m + 1) \div 2 \in 0 .. (k - 1) - 1
        BY <3>2
      <4>2. f[(m + 1) \div 2] = IF (m + 1) \div 2 <= 1 THEN 1
                                 ELSE 2 * f[((m + 1) \div 2 + 1) \div 2]
        BY <3>1, <4>1
      <4> QED
        BY <4>1, <4>2
    <3>3. g = Body(g, k - 1)
      BY <3>2, Zenon
    <3> HIDE DEF g
    <3> QED
      BY <3>3
  <2>3. \A i \in 1 .. n + 1 : i \in T
    <3>1. n + 1 \in Nat
      OBVIOUS
    <3> HIDE DEF T
    <3> QED
      BY <2>1, <2>2, <3>1, UpTo, Zenon
  <2>4. n + 1 \in 1 .. n + 1
    OBVIOUS
  <2> HIDE DEF T
  <2> QED
    BY <2>3, <2>4, Zenon
<1>2. Ceil = Body(Ceil, n)
  <2>1. (n + 1) - 1 = n
    OBVIOUS
  <2>2. PICK f : f = Body(f, n)
    BY <1>1, <2>1
  <2> QED
    BY <2>2, Zenon
<1>3. bit_ceil(n) = Ceil[n]
  BY DEF bit_ceil
<1> HIDE DEF Ceil
<1>4. \A m \in 0 .. n : Ceil[m] = IF m <= 1 THEN 1 ELSE 2 * Ceil[(m + 1) \div 2]
  BY <1>2
<1> DEFINE Bad == {m \in 0 .. n : Ceil[m] \notin Nat \ {0}}
<1>5. Bad = {}
  <2> SUFFICES ASSUME Bad # {} PROVE FALSE
    OBVIOUS
  <2>1. PICK m \in Bad : \A y \in Bad : m <= y
    <3>1. Bad \subseteq Nat
      OBVIOUS
    <3> HIDE DEF Bad
    <3> QED
      BY <3>1, Least, Zenon
  <2>2. m \in 0 .. n /\ Ceil[m] \notin Nat \ {0}
    OBVIOUS
  <2>3. m > 1
    BY <1>4, <2>2
  <2>4. (m + 1) \div 2 \in 0 .. n /\ ~ (m <= (m + 1) \div 2)
    BY <2>2, <2>3
  <2>5. Ceil[(m + 1) \div 2] \in Nat \ {0}
    BY <2>1, <2>4
  <2>6. Ceil[m] = 2 * Ceil[(m + 1) \div 2]
    BY <1>4, <2>2, <2>3
  <2> QED
    BY <2>2, <2>5, <2>6
<1> QED
  BY <1>3, <1>5

----------------------------------------------------------------------------
(* Lists of nodes along a link. *)

\* Nodes in some order, each at most once.
Listing(s, D) ==
    /\ s \in Seq(D)
    /\ \A m, n \in 1 .. Len(s) : s[m] = s[n] => m = n

\* The nth node of a list, or that there is none.
Nth(s, n) == IF n \in 1 .. Len(s) THEN s[n] ELSE kInvalid

Along(link, head, s) ==
    /\ head = Nth(s, 1)
    /\ \A n \in 1 .. Len(s) : link[s[n]] = Nth(s, n + 1)

IsIn(i, s) == \E n \in 1 .. Len(s) : s[n] = i

\* A list has no more entries than there are nodes, and as many as it has nodes.
LEMMA ListSize ==
    ASSUME NEW N \in Nat, NEW s, Listing(s, 0 .. N - 1)
    PROVE  /\ Len(s) \in Nat /\ Len(s) <= N /\ Cardinality(0 .. N - 1) = N
           /\ Cardinality(Range(s)) = Len(s)
<1> DEFINE D == 0 .. N - 1
           I == 1 .. Len(s)
<1>1. Len(s) \in Nat /\ s \in [I -> D]
  BY DEF Listing
<1>2. \A m, n \in I : s[m] = s[n] => m = n
  BY DEF Listing
<1>3. IsFiniteSet(D) /\ Cardinality(D) = N
  BY FS_Interval
<1>4. IsFiniteSet(I) /\ Cardinality(I) = Len(s)
  <2>1. ASSUME NEW n \in Nat PROVE IsFiniteSet(1 .. n) /\ Cardinality(1 .. n) = n
    BY FS_Interval
  <2> QED
    BY <1>1, <2>1, Zenon
<1> HIDE DEF D, I
<1>5. s \in Injection(I, D)
  BY <1>1, <1>2 DEF Injection, IsInjective
<1>6. Cardinality(I) <= Cardinality(D)
  BY <1>3, <1>5, FS_Injection
<1>7. s \in Bijection(I, Range(s))
  BY <1>1, <1>2 DEF Range, Bijection, Injection, Surjection, IsInjective
<1>8. Cardinality(Range(s)) = Cardinality(I)
  BY <1>4, <1>7, FS_Bijection, Zenon DEF ExistsBijection
<1> QED
  BY <1>1, <1>3, <1>4, <1>6, <1>8 DEF D

\* A loop along the links of a list visits the list.
LEMMA WalkAlong ==
    ASSUME NEW N \in Nat, NEW link, DOMAIN link = 0 .. N - 1, NEW head, NEW s,
           Listing(s, 0 .. N - 1), Along(link, head, s)
    PROVE  Walk(link, head) = s
<1> DEFINE I == 1 .. N + 1
           Body(f) == [n \in I |-> IF n = 1 THEN head
                                   ELSE IF f[n - 1] = kInvalid THEN kInvalid ELSE link[f[n - 1]]]
           cur == CHOOSE f : f = Body(f)
           g == [n \in I |-> Nth(s, n)]
<1>1. /\ Len(s) \in Nat /\ Len(s) <= N /\ Cardinality(DOMAIN link) = N
  BY ListSize
<1>2. \A n \in 1 .. Len(s) : s[n] # kInvalid
  BY DEF Listing, kInvalid
<1>3. ASSUME NEW n \in I, n # 1
      PROVE  Nth(s, n) = IF Nth(s, n - 1) = kInvalid THEN kInvalid ELSE link[Nth(s, n - 1)]
  <2>1. CASE n - 1 \in 1 .. Len(s)
    <3>1. Nth(s, n - 1) = s[n - 1] /\ (n - 1) + 1 = n
      BY <2>1 DEF Nth
    <3> QED
      BY <1>2, <2>1, <3>1, Zenon DEF Along
  <2>2. CASE n - 1 \notin 1 .. Len(s)
    <3>1. n \notin 1 .. Len(s)
      BY <1>1, <1>3, <2>2
    <3> QED
      BY <2>2, <3>1, Zenon DEF Nth
  <2> QED
    BY <2>1, <2>2
<1>4. g = Body(g)
  <2>1. \A n \in I : n # 1 => n - 1 \in I
    BY <1>1
  <2>2. \A n \in I : g[n] = Nth(s, n)
    OBVIOUS
  <2> HIDE DEF I
  <2>3. \A n \in I : Body(g)[n] = Nth(s, n)
    BY <1>3, <2>1, <2>2, Zenon DEF Along
  <2> QED
    BY <2>2, <2>3, Zenon
<1>5. cur = Body(cur)
  <2> HIDE DEF g
  <2> QED
    BY <1>4, Zenon
<1>6. Walk(link, head) = Restrict(cur, {n \in I : cur[n] # kInvalid})
  BY <1>1, Zenon DEF Walk
<1> HIDE DEF cur
<1>7. \A n \in I : cur[n] = Nth(s, n)
  <2> DEFINE T == {n \in I : cur[n] = Nth(s, n)}
  <2>1. 1 \in T
    BY <1>1, <1>5 DEF Along
  <2>2. ASSUME NEW n \in 2 .. N + 1, n - 1 \in T PROVE n \in T
    <3>1. n \in I /\ n # 1
      OBVIOUS
    <3>2. cur[n] = IF cur[n - 1] = kInvalid THEN kInvalid ELSE link[cur[n - 1]]
      BY <1>5, <3>1
    <3> QED
      BY <1>3, <2>2, <3>1, <3>2
  <2>3. N + 1 \in Nat
    OBVIOUS
  <2>4. \A n \in 1 .. N + 1 : n \in T
    <3> HIDE DEF T
    <3> QED
      BY <2>1, <2>2, <2>3, UpTo, Zenon
  <2> QED
    BY <2>4
<1>8. {n \in I : cur[n] # kInvalid} = 1 .. Len(s)
  <2>1. \A n \in I : cur[n] # kInvalid <=> n \in 1 .. Len(s)
    BY <1>2, <1>7, Zenon DEF Nth
  <2>2. 1 .. Len(s) \subseteq I
    BY <1>1
  <2> QED
    BY <2>1, <2>2, Zenon
<1>9. \A n \in 1 .. Len(s) : cur[n] = s[n]
  <2>1. 1 .. Len(s) \subseteq I
    BY <1>1
  <2> QED
    BY <1>7, <2>1, Zenon DEF Nth
<1>10. s = [n \in 1 .. Len(s) |-> s[n]]
  BY DEF Listing
<1>11. Restrict(cur, 1 .. Len(s)) = [n \in 1 .. Len(s) |-> s[n]]
  BY <1>9, Zenon DEF Restrict
<1> QED
  BY <1>6, <1>8, <1>10, <1>11, Zenon

----------------------------------------------------------------------------
(* What the operations do to a list. *)

Without(s, k) == [n \in 1 .. Len(s) - 1 |-> IF n < k THEN s[n] ELSE s[n + 1]]

Fronted(s, i) == [n \in 1 .. Len(s) + 1 |-> IF n = 1 THEN i ELSE s[n - 1]]

LEMMA WithoutIsListing ==
    ASSUME NEW D, NEW s, Listing(s, D), NEW k \in 1 .. Len(s)
    PROVE  /\ Listing(Without(s, k), D)
           /\ Len(Without(s, k)) = Len(s) - 1
           /\ \A n \in 1 .. Len(s) - 1 : Without(s, k)[n] = IF n < k THEN s[n] ELSE s[n + 1]
           /\ \A i : IsIn(i, Without(s, k)) <=> IsIn(i, s) /\ i # s[k]
<1> DEFINE t == Without(s, k)
           L == Len(s)
<1>1. L \in Nat /\ s \in [1 .. L -> D] /\ k \in 1 .. L
  BY DEF Listing
<1>2. \A m, n \in 1 .. L : s[m] = s[n] => m = n
  BY DEF Listing
<1>3. t = [n \in 1 .. L - 1 |-> IF n < k THEN s[n] ELSE s[n + 1]]
  BY DEF Without
<1> HIDE DEF t, L
<1>4. t \in [1 .. L - 1 -> D] /\ L - 1 \in Nat
  BY <1>1, <1>3
<1>5. t \in Seq(D) /\ Len(t) = L - 1
  BY <1>4
<1>6. \A n \in 1 .. L - 1 : t[n] = IF n < k THEN s[n] ELSE s[n + 1]
  BY <1>3
<1>7. \A m, n \in 1 .. L - 1 : t[m] = t[n] => m = n
  BY <1>1, <1>2, <1>6
<1>8. ASSUME NEW i
      PROVE  (\E n \in 1 .. L - 1 : t[n] = i) <=> (\E n \in 1 .. L : s[n] = i) /\ i # s[k]
  <2>1. ASSUME NEW n \in 1 .. L - 1, t[n] = i
        PROVE  (\E m \in 1 .. L : s[m] = i) /\ i # s[k]
    BY <1>1, <1>2, <1>6, <2>1
  <2>2. ASSUME NEW n \in 1 .. L, s[n] = i, i # s[k]
        PROVE  \E m \in 1 .. L - 1 : t[m] = i
    <3>1. CASE n < k
      BY <1>1, <1>6, <2>2, <3>1
    <3>2. CASE n > k
      <4>1. n - 1 \in 1 .. L - 1 /\ ~ (n - 1 < k) /\ (n - 1) + 1 = n
        BY <1>1, <3>2
      <4> QED
        BY <1>6, <2>2, <4>1
    <3> QED
      BY <1>1, <2>2, <3>1, <3>2
  <2> QED
    BY <2>1, <2>2, Zenon
<1> QED
  BY <1>5, <1>6, <1>7, <1>8, Zenon DEF Listing, IsIn, t, L

LEMMA WithoutHas ==
    ASSUME NEW D, NEW s, Listing(s, D), NEW k \in 1 .. Len(s), NEW i
    PROVE  IsIn(i, Without(s, k)) <=> IsIn(i, s) /\ i # s[k]
  BY WithoutIsListing

LEMMA FrontedIsListing ==
    ASSUME NEW D, NEW s, Listing(s, D), NEW i \in D, ~ IsIn(i, s)
    PROVE  /\ Listing(Fronted(s, i), D)
           /\ Len(Fronted(s, i)) = Len(s) + 1
           /\ \A n \in 1 .. Len(s) + 1 : Fronted(s, i)[n] = IF n = 1 THEN i ELSE s[n - 1]
           /\ \A j : IsIn(j, Fronted(s, i)) <=> IsIn(j, s) \/ j = i
<1> DEFINE t == Fronted(s, i)
           L == Len(s)
<1>1. L \in Nat /\ s \in [1 .. L -> D]
  BY DEF Listing
<1>2. \A m, n \in 1 .. L : s[m] = s[n] => m = n
  BY DEF Listing
<1>3. t = [n \in 1 .. L + 1 |-> IF n = 1 THEN i ELSE s[n - 1]]
  BY DEF Fronted
<1>a. \A n \in 1 .. L : s[n] # i
  BY DEF IsIn
<1> HIDE DEF t, L
<1>4. t \in [1 .. L + 1 -> D] /\ L + 1 \in Nat
  BY <1>1, <1>3
<1>5. t \in Seq(D) /\ Len(t) = L + 1
  BY <1>4
<1>6. \A n \in 1 .. L + 1 : t[n] = IF n = 1 THEN i ELSE s[n - 1]
  BY <1>3
<1>7. \A m, n \in 1 .. L + 1 : t[m] = t[n] => m = n
  BY <1>1, <1>2, <1>6, <1>a
<1>8. ASSUME NEW j
      PROVE  (\E n \in 1 .. L + 1 : t[n] = j) <=> (\E n \in 1 .. L : s[n] = j) \/ j = i
  <2>1. ASSUME NEW n \in 1 .. L + 1, t[n] = j
        PROVE  (\E m \in 1 .. L : s[m] = j) \/ j = i
    BY <1>1, <1>6, <2>1
  <2>2. ASSUME NEW n \in 1 .. L, s[n] = j
        PROVE  \E m \in 1 .. L + 1 : t[m] = j
    <3>1. n + 1 \in 1 .. L + 1 /\ n + 1 # 1 /\ (n + 1) - 1 = n
      BY <1>1
    <3> QED
      BY <1>6, <2>2, <3>1
  <2>3. t[1] = i /\ 1 \in 1 .. L + 1
    BY <1>1, <1>6
  <2> QED
    BY <2>1, <2>2, <2>3, Zenon
<1> QED
  BY <1>5, <1>6, <1>7, <1>8, Zenon DEF Listing, IsIn, t, L

LEMMA FrontedHas ==
    ASSUME NEW D, NEW s, Listing(s, D), NEW i \in D, ~ IsIn(i, s), NEW j
    PROVE  IsIn(j, Fronted(s, i)) <=> IsIn(j, s) \/ j = i
  BY FrontedIsListing

\* Links that lead past the kth node of a list.
Skips(link, head, link2, head2, s, k, D) ==
    /\ \A j \in D : j # s[k] =>
          link2[j] = IF k > 1 /\ j = s[k - 1] THEN link[s[k]] ELSE link[j]
    /\ head2 = IF k = 1 THEN link[s[k]] ELSE head

\* Taking a node out of a list along one link.
LEMMA AlongWithout ==
    ASSUME NEW N \in Nat, NEW s, Listing(s, 0 .. N - 1), NEW k \in 1 .. Len(s),
           NEW link, NEW head, Along(link, head, s), NEW link2, NEW head2,
           Skips(link, head, link2, head2, s, k, 0 .. N - 1)
    PROVE  Along(link2, head2, Without(s, k))
<1> DEFINE t == Without(s, k)
           L == Len(s)
           D == 0 .. N - 1
<1>0. /\ \A j \in D : j # s[k] =>
            link2[j] = IF k > 1 /\ j = s[k - 1] THEN link[s[k]] ELSE link[j]
      /\ head2 = IF k = 1 THEN link[s[k]] ELSE head
  BY Zenon DEF Skips
<1>1. L \in Nat /\ s \in [1 .. L -> D] /\ k \in 1 .. L
  BY DEF Listing
<1>2. \A m, n \in 1 .. L : s[m] = s[n] => m = n
  BY DEF Listing
<1>3. Len(t) = L - 1 /\ \A n \in 1 .. L - 1 : t[n] = IF n < k THEN s[n] ELSE s[n + 1]
  BY WithoutIsListing
<1>4. head = Nth(s, 1) /\ \A n \in 1 .. L : link[s[n]] = Nth(s, n + 1)
  BY DEF Along
<1>5. \A n \in Int : Nth(s, n) = IF n \in 1 .. L THEN s[n] ELSE kInvalid
  BY DEF Nth
<1>6. \A n \in Int : Nth(t, n) = IF n \in 1 .. L - 1 THEN t[n] ELSE kInvalid
  BY <1>3 DEF Nth
<1> HIDE DEF t, L, D
<1>7. ASSUME NEW n \in Int, 1 <= n, n < k PROVE Nth(t, n) = Nth(s, n)
  <2>1. n \in 1 .. L /\ n \in 1 .. L - 1
    BY <1>1, <1>7
  <2> QED
    BY <1>3, <1>5, <1>6, <1>7, <2>1
<1>8. ASSUME NEW n \in Int, k <= n PROVE Nth(t, n) = Nth(s, n + 1)
  <2>1. (n \in 1 .. L - 1 <=> n + 1 \in 1 .. L) /\ n + 1 \in Int /\ ~ (n < k)
    BY <1>1, <1>8
  <2> QED
    BY <1>3, <1>5, <1>6, <2>1
<1>a. head2 = Nth(t, 1)
  <2>1. CASE k = 1
    <3>1. Nth(t, 1) = Nth(s, 1 + 1)
      BY <1>8, <2>1
    <3> QED
      BY <1>0, <1>1, <1>4, <2>1, <3>1
  <2>2. CASE k # 1
    <3>1. 1 < k
      BY <1>1, <2>2
    <3>2. Nth(t, 1) = Nth(s, 1)
      BY <1>7, <3>1
    <3> QED
      BY <1>0, <1>4, <2>2, <3>2
  <2> QED
    BY <2>1, <2>2
<1>9. ASSUME NEW n \in 1 .. L - 1 PROVE link2[t[n]] = Nth(t, n + 1)
  <2>1. CASE n < k - 1
    <3>1. t[n] = s[n] /\ s[n] # s[k] /\ s[n] # s[k - 1] /\ s[n] \in D /\ n \in 1 .. L
      BY <1>1, <1>2, <1>3, <2>1
    <3>2. link2[s[n]] = link[s[n]]
      BY <1>0, <3>1
    <3> QED
      <4>1. Nth(t, n + 1) = Nth(s, n + 1)
        BY <1>1, <1>7, <2>1
      <4> QED
        BY <1>4, <3>1, <3>2, <4>1
  <2>2. CASE n = k - 1
    <3>1. t[n] = s[k - 1] /\ s[k - 1] # s[k] /\ s[k - 1] \in D /\ k > 1
      BY <1>1, <1>2, <1>3, <2>2
    <3>2. link2[s[k - 1]] = link[s[k]]
      BY <1>0, <3>1
    <3> QED
      <4>1. Nth(t, n + 1) = Nth(s, k + 1) /\ k \in 1 .. L
        BY <1>1, <1>8, <2>2
      <4> QED
        BY <1>4, <3>1, <3>2, <4>1
  <2>3. CASE n >= k
    <3>1. /\ t[n] = s[n + 1] /\ s[n + 1] # s[k] /\ n + 1 \in 1 .. L /\ s[n + 1] \in D
          /\ k > 1 => s[n + 1] # s[k - 1]
      BY <1>1, <1>2, <1>3, <2>3
    <3>2. link2[s[n + 1]] = link[s[n + 1]]
      BY <1>0, <3>1
    <3> QED
      <4>1. Nth(t, n + 1) = Nth(s, (n + 1) + 1)
        BY <1>1, <1>8, <2>3
      <4> QED
        BY <1>4, <3>1, <3>2, <4>1
  <2> QED
    BY <1>1, <2>1, <2>2, <2>3
<1> QED
  BY <1>3, <1>a, <1>9, Zenon DEF Along, t

\* Putting one in front.
LEMMA AlongFronted ==
    ASSUME NEW D, NEW s, Listing(s, D), NEW i \in D, ~ IsIn(i, s),
           NEW link, NEW head, Along(link, head, s), NEW link2,
           link2[i] = head, \A j : IsIn(j, s) => link2[j] = link[j]
    PROVE  Along(link2, i, Fronted(s, i))
<1> DEFINE t == Fronted(s, i)
           L == Len(s)
<1>1. L \in Nat
  BY DEF Listing
<1>2. Len(t) = L + 1 /\ \A n \in 1 .. L + 1 : t[n] = IF n = 1 THEN i ELSE s[n - 1]
  BY FrontedIsListing
<1>3. head = Nth(s, 1) /\ \A n \in 1 .. L : link[s[n]] = Nth(s, n + 1)
  BY DEF Along
<1>4. \A n \in 1 .. L : link2[s[n]] = link[s[n]]
  BY DEF IsIn
<1>5. \A n \in Int : Nth(s, n) = IF n \in 1 .. L THEN s[n] ELSE kInvalid
  BY DEF Nth
<1>6. \A n \in Int : Nth(t, n) = IF n \in 1 .. L + 1 THEN t[n] ELSE kInvalid
  BY <1>2 DEF Nth
<1> HIDE DEF t, L
<1>7. \A n \in Int : n >= 2 => Nth(t, n) = Nth(s, n - 1)
  BY <1>1, <1>2, <1>5, <1>6
<1>8. Nth(t, 1) = i
  BY <1>1, <1>2, <1>6
<1>9. ASSUME NEW n \in 1 .. L + 1 PROVE link2[t[n]] = Nth(t, n + 1)
  <2>1. CASE n = 1
    BY <1>1, <1>2, <1>3, <1>7, <2>1
  <2>2. CASE n # 1
    <3>1. t[n] = s[n - 1] /\ n - 1 \in 1 .. L /\ Nth(t, n + 1) = Nth(s, (n - 1) + 1)
      BY <1>1, <1>2, <1>7, <2>2
    <3> QED
      BY <1>3, <1>4, <3>1
  <2> QED
    BY <2>1, <2>2
<1> QED
  BY <1>2, <1>8, <1>9, Zenon DEF Along, t

\* Links that lead to i behind the last node of a list.
Extends(link, head, link2, head2, s, i) ==
    /\ link2[i] = kInvalid
    /\ \A n \in 1 .. Len(s) : link2[s[n]] = IF n = Len(s) THEN i ELSE link[s[n]]
    /\ head2 = IF Len(s) = 0 THEN i ELSE head

IsAppended(t, s, i) ==
    /\ Len(t) = Len(s) + 1
    /\ \A n \in 1 .. Len(s) + 1 : t[n] = IF n <= Len(s) THEN s[n] ELSE i

\* Putting one at the end.
LEMMA AlongAppended ==
    ASSUME NEW D, NEW s, Listing(s, D), NEW i \in D, NEW t, IsAppended(t, s, i),
           NEW link, NEW head, Along(link, head, s), NEW link2, NEW head2,
           Extends(link, head, link2, head2, s, i)
    PROVE  Along(link2, head2, t)
<1> DEFINE L == Len(s)
<1>1. L \in Nat
  BY DEF Listing
<1>2. Len(t) = L + 1 /\ \A n \in 1 .. L + 1 : t[n] = IF n <= L THEN s[n] ELSE i
  BY Zenon DEF IsAppended
<1>3. head = Nth(s, 1) /\ \A n \in 1 .. L : link[s[n]] = Nth(s, n + 1)
  BY DEF Along
<1>4. link2[i] = kInvalid /\ \A n \in 1 .. L : link2[s[n]] = IF n = L THEN i ELSE link[s[n]]
  BY Zenon DEF Extends
<1>5. \A n \in Int : Nth(s, n) = IF n \in 1 .. L THEN s[n] ELSE kInvalid
  BY DEF Nth
<1>6. \A n \in Int : Nth(t, n) = IF n \in 1 .. L + 1 THEN t[n] ELSE kInvalid
  BY <1>2 DEF Nth
<1>7. head2 = IF L = 0 THEN i ELSE head
  BY Zenon DEF Extends
<1> HIDE DEF L
<1>8. ASSUME NEW n \in 1 .. L PROVE Nth(t, n) = Nth(s, n) /\ t[n] = s[n]
  BY <1>1, <1>2, <1>5, <1>6
<1>9. Nth(t, L + 1) = i /\ t[L + 1] = i /\ Nth(t, (L + 1) + 1) = kInvalid
  BY <1>1, <1>2, <1>6
<1>a. head2 = Nth(t, 1)
  <2>1. CASE L = 0
    BY <1>7, <1>9, <2>1
  <2>2. CASE L # 0
    <3>1. 1 \in 1 .. L
      BY <1>1, <2>2
    <3> QED
      BY <1>3, <1>7, <1>8, <2>2, <3>1
  <2> QED
    BY <2>1, <2>2
<1>b. ASSUME NEW n \in 1 .. L + 1 PROVE link2[t[n]] = Nth(t, n + 1)
  <2>1. CASE n = L + 1
    BY <1>4, <1>9, <2>1
  <2>2. CASE n = L
    <3>1. n \in 1 .. L
      BY <1>1, <2>2
    <3> QED
      BY <1>4, <1>8, <1>9, <2>2, <3>1
  <2>3. CASE n < L
    <3>1. n \in 1 .. L /\ n + 1 \in 1 .. L /\ n # L
      BY <1>1, <2>3
    <3> QED
      BY <1>3, <1>4, <1>8, <3>1
  <2> QED
    BY <1>1, <2>1, <2>2, <2>3
<1> QED
  BY <1>2, <1>a, <1>b, Zenon DEF Along

Reversed(s) == [n \in 1 .. Len(s) |-> s[Len(s) + 1 - n]]

LEMMA ReversedIsListing ==
    ASSUME NEW D, NEW s, Listing(s, D)
    PROVE  /\ Listing(Reversed(s), D) /\ Len(Reversed(s)) = Len(s)
           /\ \A n \in 1 .. Len(s) : Reversed(s)[n] = s[Len(s) + 1 - n]
<1> DEFINE t == Reversed(s)
           L == Len(s)
<1>1. L \in Nat /\ s \in [1 .. L -> D]
  BY DEF Listing
<1>2. \A m, n \in 1 .. L : s[m] = s[n] => m = n
  BY DEF Listing
<1>3. t = [n \in 1 .. L |-> s[L + 1 - n]]
  BY DEF Reversed
<1> HIDE DEF t, L
<1>4. \A n \in 1 .. L : L + 1 - n \in 1 .. L
  BY <1>1
<1>5. t \in [1 .. L -> D]
  BY <1>1, <1>3, <1>4
<1>6. t \in Seq(D) /\ Len(t) = L
  BY <1>1, <1>5
<1>7. \A n \in 1 .. L : t[n] = s[L + 1 - n]
  BY <1>3
<1>8. ASSUME NEW m \in 1 .. L, NEW n \in 1 .. L, t[m] = t[n] PROVE m = n
  <2>1. L + 1 - m = L + 1 - n
    BY <1>2, <1>4, <1>7, <1>8
  <2> QED
    BY <1>1, <2>1
<1> QED
  BY <1>6, <1>7, <1>8, Zenon DEF Listing, t, L

\* The links of a list read in both directions.
Doubly(next, prev, head, tail, s) ==
    Along(next, head, s) /\ Along(prev, tail, Reversed(s))

LEMMA DoublyLinks ==
    ASSUME NEW D, NEW s, Listing(s, D), NEW next, NEW prev, NEW head, NEW tail,
           Doubly(next, prev, head, tail, s)
    PROVE  /\ head = Nth(s, 1) /\ tail = Nth(s, Len(s))
           /\ \A n \in 1 .. Len(s) : next[s[n]] = Nth(s, n + 1) /\ prev[s[n]] = Nth(s, n - 1)
<1> DEFINE t == Reversed(s)
           L == Len(s)
<1>1. L \in Nat
  BY DEF Listing
<1>2. Len(t) = L /\ \A n \in 1 .. L : t[n] = s[L + 1 - n]
  BY ReversedIsListing, Zenon
<1>3. head = Nth(s, 1) /\ \A n \in 1 .. L : next[s[n]] = Nth(s, n + 1)
  BY DEF Doubly, Along
<1>4. tail = Nth(t, 1) /\ \A n \in 1 .. L : prev[t[n]] = Nth(t, n + 1)
  BY <1>2 DEF Doubly, Along
<1>5. \A n \in Int : Nth(s, n) = IF n \in 1 .. L THEN s[n] ELSE kInvalid
  BY DEF Nth
<1>6. \A n \in Int : Nth(t, n) = IF n \in 1 .. L THEN t[n] ELSE kInvalid
  BY <1>2 DEF Nth
<1>a. SUFFICES tail = Nth(s, L) /\ \A n \in 1 .. L : prev[s[n]] = Nth(s, n - 1)
  BY <1>3, Zenon
<1> HIDE DEF t, L
<1>7. ASSUME NEW n \in Int PROVE Nth(t, n) = Nth(s, L + 1 - n)
  <2>1. (n \in 1 .. L <=> L + 1 - n \in 1 .. L) /\ L + 1 - n \in Int
    BY <1>1
  <2> QED
    BY <1>2, <1>5, <1>6, <2>1
<1>8. tail = Nth(s, L)
  <2>1. L + 1 - 1 = L
    BY <1>1
  <2> QED
    BY <1>4, <1>7, <2>1
<1>9. ASSUME NEW n \in 1 .. L PROVE prev[s[n]] = Nth(s, n - 1)
  <2>1. /\ L + 1 - n \in 1 .. L /\ L + 1 - (L + 1 - n) = n
        /\ L + 1 - ((L + 1 - n) + 1) = n - 1 /\ (L + 1 - n) + 1 \in Int
    BY <1>1
  <2>2. t[L + 1 - n] = s[n]
    BY <1>2, <2>1
  <2>3. Nth(t, (L + 1 - n) + 1) = Nth(s, n - 1)
    BY <1>7, <2>1
  <2> QED
    BY <1>4, <2>1, <2>2, <2>3
<1> QED
  BY <1>8, <1>9, Zenon

\* What unlink_lru does to the links and ends of a list.
Unlinks(next, prev, head, tail, next2, prev2, head2, tail2, i, D) ==
    /\ \A j \in D : j # i =>
          /\ next2[j] = IF j = prev[i] THEN next[i] ELSE next[j]
          /\ prev2[j] = IF j = next[i] THEN prev[i] ELSE prev[j]
    /\ head2 = IF prev[i] = kInvalid THEN next[i] ELSE head
    /\ tail2 = IF next[i] = kInvalid THEN prev[i] ELSE tail

\* It takes a node out of the list.
LEMMA DoublyWithout ==
    ASSUME NEW N \in Nat, NEW s, Listing(s, 0 .. N - 1), NEW k \in 1 .. Len(s),
           NEW next, NEW prev, NEW head, NEW tail, Doubly(next, prev, head, tail, s),
           NEW next2, NEW prev2, NEW head2, NEW tail2, NEW i, i = s[k],
           Unlinks(next, prev, head, tail, next2, prev2, head2, tail2, i, 0 .. N - 1)
    PROVE  Doubly(next2, prev2, head2, tail2, Without(s, k))
<1> DEFINE t == Reversed(s)
           L == Len(s)
           D == 0 .. N - 1
           q == L + 1 - k
<1>0. /\ \A j \in D : j # i =>
            /\ next2[j] = IF j = prev[i] THEN next[i] ELSE next[j]
            /\ prev2[j] = IF j = next[i] THEN prev[i] ELSE prev[j]
      /\ head2 = IF prev[i] = kInvalid THEN next[i] ELSE head
      /\ tail2 = IF next[i] = kInvalid THEN prev[i] ELSE tail
  BY Zenon DEF Unlinks
<1>1. L \in Nat /\ k \in 1 .. L /\ \A n \in 1 .. L : s[n] \in D /\ s[n] # kInvalid
  BY DEF Listing, kInvalid
<1>2. Listing(t, D) /\ Len(t) = L /\ \A n \in 1 .. L : t[n] = s[L + 1 - n]
  BY ReversedIsListing, Zenon
<1>3. next[i] = Nth(s, k + 1) /\ prev[i] = Nth(s, k - 1)
  BY DoublyLinks
<1>4. \A n \in Int : Nth(s, n) = IF n \in 1 .. L THEN s[n] ELSE kInvalid
  BY DEF Nth
<1>5. /\ prev[i] = IF k > 1 THEN s[k - 1] ELSE kInvalid
      /\ next[i] = IF k < L THEN s[k + 1] ELSE kInvalid
  <2> HIDE DEF t, L, D
  <2> QED
    BY <1>1, <1>3, <1>4
<1>6. Along(next2, head2, Without(s, k))
  <2>1. \A j \in D : j # s[k] =>
           next2[j] = IF k > 1 /\ j = s[k - 1] THEN next[s[k]] ELSE next[j]
    <3> HIDE DEF t, L
    <3> QED
      BY <1>0, <1>5 DEF kInvalid
  <2>2. head2 = IF k = 1 THEN next[s[k]] ELSE head
    <3> HIDE DEF t, L, D
    <3> QED
      BY <1>0, <1>1, <1>5
  <2>3. Along(next, head, s)
    BY DEF Doubly
  <2> QED
    <3>1. Skips(next, head, next2, head2, s, k, D)
      BY <2>1, <2>2, Zenon DEF Skips
    <3> QED
      BY <2>3, <3>1, AlongWithout, Zenon
<1>7. q \in 1 .. L /\ t[q] = i /\ (q > 1 <=> k < L) /\ (q = 1 <=> k = L)
  <2>1. q \in 1 .. L /\ L + 1 - q = k /\ (q > 1 <=> k < L) /\ (q = 1 <=> k = L)
    BY <1>1
  <2> HIDE DEF q, t, L
  <2> QED
    BY <1>2, <2>1
<1>8. q > 1 => t[q - 1] = s[k + 1]
  <2>1. q > 1 => q - 1 \in 1 .. L /\ L + 1 - (q - 1) = k + 1
    BY <1>1
  <2> HIDE DEF q, t, L
  <2> QED
    BY <1>2, <2>1
<1>9. Along(prev2, tail2, Without(t, q))
  <2>1. \A j \in D : j # t[q] =>
           prev2[j] = IF q > 1 /\ j = t[q - 1] THEN prev[t[q]] ELSE prev[j]
    <3> HIDE DEF t, L, q
    <3> QED
      BY <1>0, <1>5, <1>7, <1>8 DEF kInvalid
  <2>2. tail2 = IF q = 1 THEN prev[t[q]] ELSE tail
    <3> HIDE DEF t, L, D, q
    <3> QED
      BY <1>0, <1>1, <1>5, <1>7
  <2>3. Along(prev, tail, t)
    BY DEF Doubly
  <2>4. q \in 1 .. Len(t)
    BY <1>2, <1>7
  <2> HIDE DEF t, q
  <2> QED
    <3>1. Skips(prev, tail, prev2, tail2, t, q, D)
      BY <2>1, <2>2, Zenon DEF Skips
    <3> QED
      BY <1>2, <2>3, <2>4, <3>1, AlongWithout, Zenon
<1>a. Without(t, q) = Reversed(Without(s, k))
  <2>1. Len(Without(s, k)) = L - 1
    BY WithoutIsListing
  <2>2. \A n \in 1 .. L - 1 : Without(s, k)[n] = IF n < k THEN s[n] ELSE s[n + 1]
    BY WithoutIsListing
  <2>3. Reversed(Without(s, k)) = [n \in 1 .. L - 1 |-> Without(s, k)[(L - 1) + 1 - n]]
    BY <2>1 DEF Reversed
  <2>4. Without(t, q) = [n \in 1 .. L - 1 |-> IF n < q THEN t[n] ELSE t[n + 1]]
    BY <1>2 DEF Without
  <2>5. ASSUME NEW n \in 1 .. L - 1
        PROVE  Without(s, k)[(L - 1) + 1 - n] = IF n < q THEN t[n] ELSE t[n + 1]
    <3>1. /\ (L - 1) + 1 - n \in 1 .. L - 1 /\ ((L - 1) + 1 - n < k <=> ~ (n < q))
          /\ n \in 1 .. L /\ n + 1 \in 1 .. L
          /\ L + 1 - n = ((L - 1) + 1 - n) + 1 /\ L + 1 - (n + 1) = (L - 1) + 1 - n
      BY <1>1
    <3> HIDE DEF t, q, L
    <3>2. CASE n < q
      <4>1. Without(s, k)[(L - 1) + 1 - n] = s[((L - 1) + 1 - n) + 1] /\ t[n] = s[L + 1 - n]
        BY <1>2, <2>2, <3>1, <3>2, Zenon
      <4> QED
        BY <3>1, <3>2, <4>1, Zenon
    <3>3. CASE ~ (n < q)
      <4>1. Without(s, k)[(L - 1) + 1 - n] = s[(L - 1) + 1 - n] /\ t[n + 1] = s[L + 1 - (n + 1)]
        BY <1>2, <2>2, <3>1, <3>3, Zenon
      <4> QED
        BY <3>1, <3>3, <4>1, Zenon
    <3> QED
      BY <3>2, <3>3, Zenon
  <2> HIDE DEF t, q, L
  <2> QED
    BY <2>3, <2>4, <2>5, Zenon
<1> QED
  BY <1>6, <1>9, <1>a, Zenon DEF Doubly

\* What push_front_lru does to them.
Pushes(next, prev, head, tail, next2, prev2, head2, tail2, i, D) ==
    /\ next2[i] = head /\ \A j \in D : j # i => next2[j] = next[j]
    /\ \A j \in D : prev2[j] = IF j = head THEN i ELSE IF j = i THEN kInvalid ELSE prev[j]
    /\ head2 = i
    /\ tail2 = IF tail = kInvalid THEN i ELSE tail

\* It puts a node in front.
LEMMA DoublyFronted ==
    ASSUME NEW D, NEW s, Listing(s, D), kInvalid \notin D, NEW i \in D, ~ IsIn(i, s),
           NEW next, NEW prev, NEW head, NEW tail, Doubly(next, prev, head, tail, s),
           NEW next2, NEW prev2, NEW head2, NEW tail2,
           Pushes(next, prev, head, tail, next2, prev2, head2, tail2, i, D)
    PROVE  Doubly(next2, prev2, head2, tail2, Fronted(s, i))
<1> DEFINE t == Reversed(s)
           L == Len(s)
           u == Reversed(Fronted(s, i))
<1>0. /\ next2[i] = head /\ \A j \in D : j # i => next2[j] = next[j]
      /\ \A j \in D : prev2[j] = IF j = head THEN i ELSE IF j = i THEN kInvalid ELSE prev[j]
      /\ head2 = i /\ tail2 = IF tail = kInvalid THEN i ELSE tail
  BY Zenon DEF Pushes
<1>1. L \in Nat /\ \A n \in 1 .. L : s[n] \in D /\ s[n] # i /\ s[n] # kInvalid
  BY DEF Listing, IsIn
<1>2. Listing(t, D) /\ Len(t) = L /\ \A n \in 1 .. L : t[n] = s[L + 1 - n]
  BY ReversedIsListing, Zenon
<1>3. head = Nth(s, 1) /\ tail = Nth(s, L)
  BY DoublyLinks
<1>4. /\ head = IF L = 0 THEN kInvalid ELSE s[1]
      /\ tail = IF L = 0 THEN kInvalid ELSE s[L]
  <2>1. \A n \in Int : Nth(s, n) = IF n \in 1 .. L THEN s[n] ELSE kInvalid
    BY DEF Nth
  <2> HIDE DEF t, L, u
  <2> QED
    BY <1>1, <1>3, <2>1
<1>5. Along(next2, i, Fronted(s, i))
  <2>1. \A j : IsIn(j, s) => next2[j] = next[j]
    BY <1>0, <1>1 DEF IsIn
  <2>2. Along(next, head, s)
    BY DEF Doubly
  <2> QED
    BY <1>0, <2>1, <2>2, AlongFronted
<1>6. Len(u) = L + 1 /\ \A n \in 1 .. L + 1 : u[n] = IF n <= L THEN t[n] ELSE i
  <2>1. Listing(Fronted(s, i), D) /\ Len(Fronted(s, i)) = L + 1
    BY FrontedIsListing
  <2>2. \A n \in 1 .. L + 1 : Fronted(s, i)[n] = IF n = 1 THEN i ELSE s[n - 1]
    BY FrontedIsListing
  <2>3. Len(u) = L + 1 /\ \A n \in 1 .. L + 1 : u[n] = Fronted(s, i)[(L + 1) + 1 - n]
    <3> DEFINE f == Fronted(s, i)
    <3> HIDE DEF f
    <3>1. Listing(f, D) /\ Len(f) = L + 1
      BY <2>1 DEF f
    <3>2. /\ Len(Reversed(f)) = Len(f)
          /\ \A n \in 1 .. Len(f) : Reversed(f)[n] = f[Len(f) + 1 - n]
      BY <3>1, ReversedIsListing, Zenon
    <3> QED
      BY <3>1, <3>2, Zenon DEF f
  <2>4. ASSUME NEW n \in 1 .. L + 1
        PROVE  Fronted(s, i)[(L + 1) + 1 - n] = IF n <= L THEN t[n] ELSE i
    <3>1. /\ (L + 1) + 1 - n \in 1 .. L + 1 /\ ((L + 1) + 1 - n = 1 <=> ~ (n <= L))
          /\ n <= L => n \in 1 .. L /\ ((L + 1) + 1 - n) - 1 = L + 1 - n
      BY <1>1
    <3> HIDE DEF t, L
    <3> QED
      BY <1>2, <2>2, <3>1
  <2> HIDE DEF t, L, u
  <2> QED
    BY <2>3, <2>4
<1>7. Along(prev2, tail2, u)
  <2>1. prev2[i] = kInvalid
    <3>1. head # i
      <4> HIDE DEF L
      <4> QED
        BY <1>1, <1>4
    <3> QED
      BY <1>0, <3>1
  <2>2. ASSUME NEW n \in 1 .. L
        PROVE  prev2[t[n]] = IF n = L THEN i ELSE prev[t[n]]
    <3>1. L + 1 - n \in 1 .. L /\ (n = L <=> L + 1 - n = 1) /\ 1 \in 1 .. L
      BY <1>1
    <3>2. t[n] = s[L + 1 - n] /\ t[n] \in D /\ t[n] # i
      BY <1>1, <1>2, <3>1, Zenon
    <3>3. t[n] = head <=> n = L
      <4>1. \A m \in 1 .. L : s[m] = s[1] => m = 1
        BY <3>1 DEF Listing
      <4> HIDE DEF t, L
      <4> QED
        BY <1>1, <1>4, <3>1, <3>2, <4>1
    <3> HIDE DEF t, L
    <3> QED
      BY <1>0, <3>2, <3>3
  <2>3. tail2 = IF L = 0 THEN i ELSE tail
    <3> HIDE DEF L
    <3> QED
      BY <1>0, <1>1, <1>4
  <2>4. Along(prev, tail, t)
    BY DEF Doubly
  <2> HIDE DEF t, u, L
  <2>5. IsAppended(u, t, i)
    BY <1>2, <1>6, Zenon DEF IsAppended
  <2>6. Extends(prev, tail, prev2, tail2, t, i)
    BY <1>2, <2>1, <2>2, <2>3, Zenon DEF Extends
  <2> QED
    BY <1>2, <2>4, <2>5, <2>6, AlongAppended, Zenon
<1> QED
  BY <1>0, <1>5, <1>7, Zenon DEF Doubly

----------------------------------------------------------------------------
(* The object. *)

CacheType(N, B) ==
    LET D == 0 .. N - 1
        Link == D \cup {kInvalid}
    IN  [key : [D -> Keys \cup {NoKey}], occupied : [D -> BOOLEAN],
         prev : [D -> Link], next : [D -> Link], hash_next : [D -> Link],
         buckets : [0 .. B - 1 -> Link],
         lru_head : Link, lru_tail : Link, free_head : Link, size : Nat]

\* The fields that the list operations leave alone.
SameRest(c, d) ==
    /\ d.key = c.key /\ d.occupied = c.occupied /\ d.free_head = c.free_head /\ d.size = c.size

AfterUnlink(c, d, i, N, B) ==
    /\ d \in CacheType(N, B)
    /\ SameRest(c, d) /\ d.hash_next = c.hash_next /\ d.buckets = c.buckets
    /\ Unlinks(c.next, c.prev, c.lru_head, c.lru_tail,
               d.next, d.prev, d.lru_head, d.lru_tail, i, 0 .. N - 1)

LEMMA UnlinkFields ==
    ASSUME NEW N \in Nat, NEW B \in Nat, NEW c \in CacheType(N, B), NEW i \in 0 .. N - 1
    PROVE  AfterUnlink(c, unlink_lru(c, i), i, N, B)
<1> DEFINE d == unlink_lru(c, i)
           D == 0 .. N - 1
           Link == D \cup {kInvalid}
<1>1. /\ c = [key |-> c.key, occupied |-> c.occupied, prev |-> c.prev, next |-> c.next,
              hash_next |-> c.hash_next, buckets |-> c.buckets, lru_head |-> c.lru_head,
              lru_tail |-> c.lru_tail, free_head |-> c.free_head, size |-> c.size]
      /\ c.next \in [D -> Link] /\ c.prev \in [D -> Link]
      /\ c.lru_head \in Link /\ c.lru_tail \in Link
  BY DEF CacheType
<1> DEFINE nx == [j \in D |-> IF j = i THEN kInvalid ELSE IF j = c.prev[i] THEN c.next[i] ELSE c.next[j]]
           pv == [j \in D |-> IF j = i THEN kInvalid ELSE IF j = c.next[i] THEN c.prev[i] ELSE c.prev[j]]
           hd == IF c.prev[i] = kInvalid THEN c.next[i] ELSE c.lru_head
           tl == IF c.next[i] = kInvalid THEN c.prev[i] ELSE c.lru_tail
<1>2. DOMAIN c.next = D /\ DOMAIN c.prev = D
  BY <1>1, Zenon
<1>3. d = [c EXCEPT !.next = nx, !.prev = pv, !.lru_head = hd, !.lru_tail = tl]
  BY <1>2, Zenon DEF unlink_lru
<1>4. nx \in [D -> Link] /\ pv \in [D -> Link] /\ hd \in Link /\ tl \in Link
  BY <1>1
<1>5. /\ \A j \in D : j # i => nx[j] = IF j = c.prev[i] THEN c.next[i] ELSE c.next[j]
      /\ \A j \in D : j # i => pv[j] = IF j = c.next[i] THEN c.prev[i] ELSE c.prev[j]
  OBVIOUS
<1> HIDE DEF d, nx, pv, hd, tl, D, Link
<1>7. d \in CacheType(N, B)
  BY <1>3, <1>4, Zenon DEF CacheType, D, Link
<1>6. /\ SameRest(c, d) /\ d.hash_next = c.hash_next /\ d.buckets = c.buckets
      /\ d.next = nx /\ d.prev = pv /\ d.lru_head = hd /\ d.lru_tail = tl
  BY <1>1, <1>3 DEF SameRest
<1> QED
  BY <1>5, <1>6, <1>7, Zenon DEF AfterUnlink, Unlinks, d, D, hd, tl

AfterPush(c, d, i, N, B) ==
    /\ d \in CacheType(N, B)
    /\ SameRest(c, d) /\ d.hash_next = c.hash_next /\ d.buckets = c.buckets
    /\ Pushes(c.next, c.prev, c.lru_head, c.lru_tail,
              d.next, d.prev, d.lru_head, d.lru_tail, i, 0 .. N - 1)

LEMMA PushFields ==
    ASSUME NEW N \in Nat, NEW B \in Nat, NEW c \in CacheType(N, B), NEW i \in 0 .. N - 1
    PROVE  AfterPush(c, push_front_lru(c, i), i, N, B)
<1> DEFINE d == push_front_lru(c, i)
           D == 0 .. N - 1
           Link == D \cup {kInvalid}
<1>1. /\ c = [key |-> c.key, occupied |-> c.occupied, prev |-> c.prev, next |-> c.next,
              hash_next |-> c.hash_next, buckets |-> c.buckets, lru_head |-> c.lru_head,
              lru_tail |-> c.lru_tail, free_head |-> c.free_head, size |-> c.size]
      /\ c.next \in [D -> Link] /\ c.prev \in [D -> Link]
      /\ c.lru_head \in Link /\ c.lru_tail \in Link
  BY DEF CacheType
<1> DEFINE nx == [c.next EXCEPT ![i] = c.lru_head]
           pv == [j \in D |-> IF j = c.lru_head THEN i ELSE IF j = i THEN kInvalid ELSE c.prev[j]]
           tl == IF c.lru_tail = kInvalid THEN i ELSE c.lru_tail
<1>2. DOMAIN c.prev = D
  BY <1>1, Zenon
<1>3. d = [c EXCEPT !.prev = pv, !.next = nx, !.lru_head = i, !.lru_tail = tl]
  BY <1>2, Zenon DEF push_front_lru
<1>4. nx \in [D -> Link] /\ pv \in [D -> Link] /\ i \in Link /\ tl \in Link
  BY <1>1
<1>5. /\ nx[i] = c.lru_head /\ \A j \in D : j # i => nx[j] = c.next[j]
      /\ \A j \in D : pv[j] = IF j = c.lru_head THEN i ELSE IF j = i THEN kInvalid ELSE c.prev[j]
  BY <1>1
<1> HIDE DEF d, nx, pv, tl, D, Link
<1>6. /\ SameRest(c, d) /\ d.hash_next = c.hash_next /\ d.buckets = c.buckets
      /\ d.next = nx /\ d.prev = pv /\ d.lru_head = i /\ d.lru_tail = tl
  BY <1>1, <1>3 DEF SameRest
<1>7. d \in CacheType(N, B)
  BY <1>3, <1>4, Zenon DEF CacheType, D, Link
<1> QED
  BY <1>5, <1>6, <1>7, Zenon DEF AfterPush, Pushes, d, D, tl

AfterRemove(c, d, s, k, b, N, B) ==
    /\ d \in CacheType(N, B) /\ SameRest(c, d)
    /\ d.next = c.next /\ d.prev = c.prev
    /\ d.lru_head = c.lru_head /\ d.lru_tail = c.lru_tail
    /\ Skips(c.hash_next, c.buckets[b], d.hash_next, d.buckets[b], s, k, 0 .. N - 1)
    /\ \A a \in 0 .. B - 1 : a # b => d.buckets[a] = c.buckets[a]

\* remove_from_bucket, for a node that is the kth of its chain.
LEMMA RemoveFields ==
    ASSUME NEW N \in Nat, NEW B \in Nat, NEW c \in CacheType(N, B), NEW b \in 0 .. B - 1,
           NEW s, Listing(s, 0 .. N - 1), Along(c.hash_next, c.buckets[b], s),
           NEW k \in 1 .. Len(s), NEW i, i = s[k], bucket_for(c, c.key[i]) = b
    PROVE  AfterRemove(c, remove_from_bucket(c, i), s, k, b, N, B)
<1> DEFINE d == remove_from_bucket(c, i)
           D == 0 .. N - 1
           Link == D \cup {kInvalid}
           hn == [j \in D |-> IF j = i THEN kInvalid
                              ELSE IF k > 1 /\ j = s[k - 1] THEN c.hash_next[i] ELSE c.hash_next[j]]
           hd == IF k = 1 THEN c.hash_next[i] ELSE c.buckets[b]
           bs == [c.buckets EXCEPT ![b] = hd]
<1>1. /\ c = [key |-> c.key, occupied |-> c.occupied, prev |-> c.prev, next |-> c.next,
              hash_next |-> c.hash_next, buckets |-> c.buckets, lru_head |-> c.lru_head,
              lru_tail |-> c.lru_tail, free_head |-> c.free_head, size |-> c.size]
      /\ c.hash_next \in [D -> Link] /\ c.buckets \in [0 .. B - 1 -> Link]
  BY DEF CacheType
<1>2. Len(s) \in Nat /\ i \in D /\ \A m, n \in 1 .. Len(s) : s[m] = s[n] => m = n
  BY DEF Listing
<1>3. Walk(c.hash_next, c.buckets[b]) = s
  <2>1. DOMAIN c.hash_next = 0 .. N - 1
    BY <1>1
  <2> QED
    BY <2>1, WalkAlong, Zenon
<1>4. Contains(s, i)
  BY DEF Contains
<1>5. (CHOOSE n \in 1 .. Len(s) : s[n] = i /\ \A m \in 1 .. n - 1 : s[m] # i) = k
  <2> DEFINE P(n) == s[n] = i /\ \A m \in 1 .. n - 1 : s[m] # i
  <2>1. P(k)
    BY <1>2
  <2>2. \A n \in 1 .. Len(s) : P(n) => n = k
    BY <1>2
  <2> HIDE DEF P
  <2>3. (CHOOSE n \in 1 .. Len(s) : P(n)) = k
    BY <2>1, <2>2, Zenon
  <2> QED
    BY <2>3, Zenon DEF P
<1>6. d = [c EXCEPT !.buckets = bs, !.hash_next = hn]
  <2>1. DOMAIN c.hash_next = D
    BY <1>1, Zenon
  <2> DEFINE At(t) == CHOOSE n \in 1 .. Len(t) : t[n] = i /\ \A m \in 1 .. n - 1 : t[m] # i
             Cut(a, t, n) == [c EXCEPT
                    !.buckets[a] = IF n = 1 THEN c.hash_next[i] ELSE @,
                    !.hash_next = [j \in DOMAIN @ |->
                        IF j = i THEN kInvalid
                        ELSE IF n > 1 /\ j = t[n - 1] THEN @[i] ELSE @[j]]]
             Chained(a) == Walk(c.hash_next, c.buckets[a])
             Removed(a) == IF ~ Contains(Chained(a), i) THEN c ELSE Cut(a, Chained(a), At(Chained(a)))
  <2>2. d = Removed(bucket_for(c, c.key[i]))
    BY Zenon DEF remove_from_bucket
  <2>3. At(s) = k
    BY <1>5, Zenon
  <2>4. Cut(b, s, k) = [c EXCEPT !.buckets = bs, !.hash_next = hn]
    BY <2>1, Zenon
  <2> HIDE DEF At, Cut, bs, hn
  <2> QED
    BY <1>3, <1>4, <2>2, <2>3, <2>4, Zenon
<1>7. hn \in [D -> Link] /\ hd \in Link
  BY <1>1, <1>2
<1>8. bs \in [0 .. B - 1 -> Link] /\ bs[b] = hd /\ \A a \in 0 .. B - 1 : a # b => bs[a] = c.buckets[a]
  <2> HIDE DEF hd
  <2> QED
    BY <1>1, <1>7
<1>9. Skips(c.hash_next, c.buckets[b], hn, hd, s, k, D)
  BY <1>2, Zenon DEF Skips
<1> HIDE DEF d, hn, hd, bs, D, Link
<1>10. /\ SameRest(c, d) /\ d.next = c.next /\ d.prev = c.prev
       /\ d.lru_head = c.lru_head /\ d.lru_tail = c.lru_tail
       /\ d.hash_next = hn /\ d.buckets = bs
  BY <1>1, <1>6 DEF SameRest
<1>11. d \in CacheType(N, B)
  BY <1>6, <1>7, <1>8, Zenon DEF CacheType, D, Link
<1> QED
  BY <1>8, <1>9, <1>10, <1>11, Zenon DEF AfterRemove, d, D

----------------------------------------------------------------------------
(* The two lists of nodes. *)

\* The list of use and the free list, of which every node is on one.
Lists(c, N, use, free) ==
    /\ Listing(use, 0 .. N - 1) /\ Listing(free, 0 .. N - 1)
    /\ Doubly(c.next, c.prev, c.lru_head, c.lru_tail, use)
    /\ Along(c.next, c.free_head, free)
    /\ \A j \in 0 .. N - 1 : (IsIn(j, use) <=> c.occupied[j]) /\ (IsIn(j, free) <=> ~ c.occupied[j])
    /\ Len(use) + Len(free) = N /\ c.size = Len(use)

\* The same while check_and_insert holds node i, which is on neither.
Detached(c, N, use, free, i) ==
    /\ Listing(use, 0 .. N - 1) /\ Listing(free, 0 .. N - 1)
    /\ Doubly(c.next, c.prev, c.lru_head, c.lru_tail, use)
    /\ Along(c.next, c.free_head, free)
    /\ i \in 0 .. N - 1 /\ ~ IsIn(i, use) /\ ~ IsIn(i, free)
    /\ \A j \in 0 .. N - 1 : j # i =>
          (IsIn(j, use) <=> c.occupied[j]) /\ (IsIn(j, free) <=> ~ c.occupied[j])
    /\ Len(use) + Len(free) + 1 = N /\ c.size = Len(use) + 1

SameOn(link, link2, s) == \A j : IsIn(j, s) => link2[j] = link[j]

\* A list whose links stay is a list still.
LEMMA AlongSame ==
    ASSUME NEW s, NEW link, NEW head, Along(link, head, s), NEW link2,
           SameOn(link, link2, s)
    PROVE  Along(link2, head, s)
  BY Zenon DEF Along, IsIn, SameOn

LEMMA ListsUnlink ==
    ASSUME NEW N \in Nat, NEW B \in Nat, NEW c \in CacheType(N, B), NEW use, NEW free,
           Lists(c, N, use, free), NEW k \in 1 .. Len(use), NEW i, i = use[k],
           NEW d, AfterUnlink(c, d, i, N, B)
    PROVE  Detached(d, N, Without(use, k), free, i)
<1> DEFINE D == 0 .. N - 1
           t == Without(use, k)
<1>1. /\ Listing(use, D) /\ Listing(free, D)
      /\ Doubly(c.next, c.prev, c.lru_head, c.lru_tail, use)
      /\ Along(c.next, c.free_head, free)
      /\ \A j \in D : (IsIn(j, use) <=> c.occupied[j]) /\ (IsIn(j, free) <=> ~ c.occupied[j])
      /\ Len(use) + Len(free) = N /\ c.size = Len(use)
  BY Zenon DEF Lists
<1>2. i \in D /\ IsIn(i, use) /\ Len(use) \in Nat /\ Len(free) \in Nat
  <2>1. IsIn(i, use)
    BY Zenon DEF IsIn
  <2>2. use \in Seq(D) /\ free \in Seq(D)
    BY <1>1, Zenon DEF Listing
  <2> QED
    BY <2>1, <2>2
<1>3. /\ d \in CacheType(N, B)
      /\ SameRest(c, d) /\ d.hash_next = c.hash_next /\ d.buckets = c.buckets
      /\ Unlinks(c.next, c.prev, c.lru_head, c.lru_tail,
                 d.next, d.prev, d.lru_head, d.lru_tail, i, D)
  BY Zenon DEF AfterUnlink
<1>4. /\ Listing(t, D) /\ Len(t) = Len(use) - 1
      /\ \A j : IsIn(j, t) <=> IsIn(j, use) /\ j # i
  <2>1. Listing(t, D) /\ Len(t) = Len(use) - 1
    BY <1>1, WithoutIsListing
  <2>2. ASSUME NEW j PROVE IsIn(j, t) <=> IsIn(j, use) /\ j # i
    <3>1. Listing(use, D)
      BY <1>1, Zenon
    <3> HIDE DEF D
    <3> QED
      BY <3>1, WithoutHas, Zenon
  <2> QED
    BY <2>1, <2>2, Zenon
<1>5. Doubly(d.next, d.prev, d.lru_head, d.lru_tail, t)
  BY <1>1, <1>3, DoublyWithout, Zenon
<1>6. Along(d.next, d.free_head, free)
  <2>1. c.prev[i] = Nth(use, k - 1)
    BY <1>1, DoublyLinks
  <2>2. c.prev[i] = kInvalid \/ IsIn(c.prev[i], use)
    BY <2>1, Zenon DEF Nth, IsIn
  <2>3. ASSUME NEW j, IsIn(j, free) PROVE d.next[j] = c.next[j]
    <3>1. j \in D /\ j # kInvalid
      <4>1. PICK n \in 1 .. Len(free) : j = free[n]
        BY <2>3, Zenon DEF IsIn
      <4>2. free \in Seq(0 .. N - 1)
        BY <1>1, Zenon DEF Listing
      <4>3. free[n] \in 0 .. N - 1
        BY <4>1, <4>2
      <4> QED
        BY <4>1, <4>3 DEF kInvalid
    <3>2. j # i /\ j # c.prev[i]
      BY <1>1, <1>2, <2>2, <2>3, <3>1, Zenon
    <3> QED
      BY <1>3, <3>1, <3>2, Zenon DEF Unlinks
  <2>4. SameOn(c.next, d.next, free) /\ d.free_head = c.free_head
    BY <1>3, <2>3, Zenon DEF SameOn, SameRest
  <2> QED
    BY <1>1, <2>4, AlongSame, Zenon
<1>7. ~ IsIn(i, free) /\ ~ IsIn(i, t)
  BY <1>1, <1>2, <1>4, Zenon
<1>8. \A j \in D : j # i => (IsIn(j, t) <=> d.occupied[j]) /\ (IsIn(j, free) <=> ~ d.occupied[j])
  BY <1>1, <1>3, <1>4, Zenon DEF SameRest
<1>9. Len(t) + Len(free) + 1 = N /\ d.size = Len(t) + 1
  <2>1. d.size = c.size
    BY <1>3, Zenon DEF SameRest
  <2> HIDE DEF t
  <2> QED
    BY <1>1, <1>2, <1>4, <2>1
<1> QED
  BY <1>1, <1>2, <1>3, <1>4, <1>5, <1>6, <1>7, <1>8, <1>9, Zenon DEF Detached

LEMMA ListsPush ==
    ASSUME NEW N \in Nat, NEW B \in Nat, NEW c \in CacheType(N, B), NEW use, NEW free, NEW i,
           Detached(c, N, use, free, i), c.occupied[i], NEW d, AfterPush(c, d, i, N, B)
    PROVE  Lists(d, N, Fronted(use, i), free)
<1> DEFINE D == 0 .. N - 1
           t == Fronted(use, i)
<1>1. /\ Listing(use, D) /\ Listing(free, D)
      /\ Doubly(c.next, c.prev, c.lru_head, c.lru_tail, use)
      /\ Along(c.next, c.free_head, free)
      /\ i \in D /\ ~ IsIn(i, use) /\ ~ IsIn(i, free)
      /\ \A j \in D : j # i => (IsIn(j, use) <=> c.occupied[j]) /\ (IsIn(j, free) <=> ~ c.occupied[j])
      /\ Len(use) + Len(free) + 1 = N /\ c.size = Len(use) + 1
  BY Zenon DEF Detached
<1>2. kInvalid \notin D /\ Len(use) \in Nat /\ Len(free) \in Nat
  BY <1>1 DEF Listing, kInvalid
<1>3. /\ d \in CacheType(N, B)
      /\ SameRest(c, d) /\ d.hash_next = c.hash_next /\ d.buckets = c.buckets
      /\ Pushes(c.next, c.prev, c.lru_head, c.lru_tail,
                d.next, d.prev, d.lru_head, d.lru_tail, i, D)
  BY Zenon DEF AfterPush
<1>4. /\ Listing(t, D) /\ Len(t) = Len(use) + 1
      /\ \A j : IsIn(j, t) <=> IsIn(j, use) \/ j = i
  <2>1. Listing(t, D) /\ Len(t) = Len(use) + 1
    BY <1>1, FrontedIsListing
  <2>2. ASSUME NEW j PROVE IsIn(j, t) <=> IsIn(j, use) \/ j = i
    <3>1. Listing(use, D) /\ i \in D /\ ~ IsIn(i, use)
      BY <1>1, Zenon
    <3> HIDE DEF D
    <3> QED
      BY <3>1, FrontedHas, Zenon
  <2> QED
    BY <2>1, <2>2, Zenon
<1>5. Doubly(d.next, d.prev, d.lru_head, d.lru_tail, t)
  BY <1>1, <1>2, <1>3, DoublyFronted, Zenon
<1>6. Along(d.next, d.free_head, free)
  <2>1. ASSUME NEW j, IsIn(j, free) PROVE d.next[j] = c.next[j]
    <3>1. j \in D
      BY <1>1, <2>1 DEF IsIn, Listing
    <3> QED
      BY <1>1, <1>3, <2>1, <3>1, Zenon DEF Pushes
  <2>2. SameOn(c.next, d.next, free) /\ d.free_head = c.free_head
    BY <1>3, <2>1, Zenon DEF SameOn, SameRest
  <2> QED
    BY <1>1, <2>2, AlongSame, Zenon
<1>7. \A j \in D : (IsIn(j, t) <=> d.occupied[j]) /\ (IsIn(j, free) <=> ~ d.occupied[j])
  BY <1>1, <1>3, <1>4, Zenon DEF SameRest
<1>8. Len(t) + Len(free) = N /\ d.size = Len(t)
  <2>1. d.size = c.size
    BY <1>3, Zenon DEF SameRest
  <2> HIDE DEF t
  <2> QED
    BY <1>1, <1>2, <1>4, <2>1
<1> QED
  BY <1>1, <1>3, <1>4, <1>5, <1>6, <1>7, <1>8, Zenon DEF Lists

\* The head of the free list, when check_and_insert takes it.
Taken(c) ==
    [c EXCEPT !.free_head = c.next[c.free_head], !.next[c.free_head] = kInvalid, !.size = @ + 1]

AfterTake(c, d, N, B) ==
    /\ d \in CacheType(N, B)
    /\ d.key = c.key /\ d.occupied = c.occupied /\ d.prev = c.prev /\ d.hash_next = c.hash_next
    /\ d.buckets = c.buckets /\ d.lru_head = c.lru_head /\ d.lru_tail = c.lru_tail
    /\ d.free_head = c.next[c.free_head] /\ d.size = c.size + 1
    /\ \A j \in 0 .. N - 1 : j # c.free_head => d.next[j] = c.next[j]

LEMMA TakeFields ==
    ASSUME NEW N \in Nat, NEW B \in Nat, NEW c \in CacheType(N, B), c.free_head # kInvalid
    PROVE  AfterTake(c, Taken(c), N, B)
<1> DEFINE d == Taken(c)
           D == 0 .. N - 1
           Link == D \cup {kInvalid}
           i == c.free_head
           nx == [c.next EXCEPT ![i] = kInvalid]
<1>1. /\ c = [key |-> c.key, occupied |-> c.occupied, prev |-> c.prev, next |-> c.next,
              hash_next |-> c.hash_next, buckets |-> c.buckets, lru_head |-> c.lru_head,
              lru_tail |-> c.lru_tail, free_head |-> c.free_head, size |-> c.size]
      /\ c.next \in [D -> Link] /\ i \in D /\ c.size \in Nat
  BY DEF CacheType
<1>2. d = [c EXCEPT !.free_head = c.next[i], !.next = nx, !.size = c.size + 1]
  BY Zenon DEF Taken
<1>3. nx \in [D -> Link] /\ c.next[i] \in Link /\ c.size + 1 \in Nat
  BY <1>1
<1>4. \A j \in D : j # i => nx[j] = c.next[j]
  BY <1>1
<1> HIDE DEF d, nx, D, Link
<1>5. /\ d.key = c.key /\ d.occupied = c.occupied /\ d.prev = c.prev /\ d.hash_next = c.hash_next
      /\ d.buckets = c.buckets /\ d.lru_head = c.lru_head /\ d.lru_tail = c.lru_tail
      /\ d.free_head = c.next[i] /\ d.size = c.size + 1 /\ d.next = nx
  BY <1>1, <1>2
<1>6. d \in CacheType(N, B)
  BY <1>2, <1>3, Zenon DEF CacheType, D, Link
<1> QED
  BY <1>4, <1>5, <1>6, Zenon DEF AfterTake, d, D

LEMMA ListsTake ==
    ASSUME NEW N \in Nat, NEW B \in Nat, NEW c \in CacheType(N, B), NEW use, NEW free,
           Lists(c, N, use, free), c.free_head # kInvalid, NEW d, AfterTake(c, d, N, B)
    PROVE  Detached(d, N, use, Without(free, 1), c.free_head)
<1> DEFINE D == 0 .. N - 1
           i == c.free_head
           t == Without(free, 1)
<1>1. /\ Listing(use, D) /\ Listing(free, D)
      /\ Doubly(c.next, c.prev, c.lru_head, c.lru_tail, use)
      /\ Along(c.next, c.free_head, free)
      /\ \A j \in D : (IsIn(j, use) <=> c.occupied[j]) /\ (IsIn(j, free) <=> ~ c.occupied[j])
      /\ Len(use) + Len(free) = N /\ c.size = Len(use)
  BY Zenon DEF Lists
<1>2. 1 \in 1 .. Len(free) /\ i = free[1]
  BY <1>1, Zenon DEF Along, Nth
<1>3. i \in D /\ IsIn(i, free) /\ Len(use) \in Nat /\ Len(free) \in Nat
  <2>1. IsIn(i, free)
    BY <1>2, Zenon DEF IsIn
  <2>2. use \in Seq(D) /\ free \in Seq(D)
    BY <1>1, Zenon DEF Listing
  <2> QED
    BY <1>2, <2>1, <2>2
<1>4. Listing(t, D) /\ Len(t) = Len(free) - 1 /\ \A j : IsIn(j, t) <=> IsIn(j, free) /\ j # i
  <2>1. Listing(free, D)
    BY <1>1, Zenon
  <2> HIDE DEF D
  <2>2. Listing(t, D) /\ Len(t) = Len(free) - 1
    BY <1>2, <2>1, WithoutIsListing
  <2>3. ASSUME NEW j PROVE IsIn(j, t) <=> IsIn(j, free) /\ j # i
    BY <1>2, <2>1, WithoutHas, Zenon
  <2> QED
    BY <2>2, <2>3, Zenon
<1>5. Doubly(d.next, d.prev, d.lru_head, d.lru_tail, use)
  <2>1. ASSUME NEW j, IsIn(j, use) PROVE d.next[j] = c.next[j]
    <3>1. j \in D
      BY <1>1, <2>1 DEF IsIn, Listing
    <3>2. j # i
      BY <1>1, <1>3, <2>1, <3>1, Zenon
    <3> QED
      BY <3>1, <3>2, Zenon DEF AfterTake
  <2>2. SameOn(c.next, d.next, use) /\ Along(c.next, c.lru_head, use)
    BY <1>1, <2>1, Zenon DEF SameOn, Doubly
  <2>3. Along(d.next, c.lru_head, use)
    BY <2>2, AlongSame, Zenon
  <2> QED
    BY <1>1, <2>3, Zenon DEF Doubly, AfterTake
<1>6. Along(d.next, d.free_head, t)
  <2>1. Skips(c.next, c.free_head, d.next, d.free_head, free, 1, D)
    <3>1. ~ (1 > 1)
      OBVIOUS
    <3> QED
      BY <1>2, <3>1, Zenon DEF AfterTake, Skips
  <2> QED
    BY <1>1, <1>2, <2>1, AlongWithout, Zenon
<1>7. \A j \in D : j # i => (IsIn(j, use) <=> d.occupied[j]) /\ (IsIn(j, t) <=> ~ d.occupied[j])
  BY <1>1, <1>4, Zenon DEF AfterTake
<1>8. ~ IsIn(i, use) /\ ~ IsIn(i, t)
  BY <1>1, <1>3, <1>4, Zenon
<1>9. Len(use) + Len(t) + 1 = N /\ d.size = Len(use) + 1
  <2>1. d.size = c.size + 1
    BY Zenon DEF AfterTake
  <2> HIDE DEF t
  <2> QED
    BY <1>1, <1>3, <1>4, <2>1
<1> QED
  BY <1>1, <1>3, <1>4, <1>5, <1>6, <1>7, <1>8, <1>9, Zenon DEF Detached

\* Node i of c, when it gets the key and comes first in bucket b.
Filled(c, i, key, b) ==
    [c EXCEPT !.key[i] = key, !.occupied[i] = TRUE,
              !.hash_next[i] = c.buckets[b], !.buckets[b] = i]

AfterFill(c, d, i, key, b, N, B) ==
    /\ d \in CacheType(N, B)
    /\ d.prev = c.prev /\ d.next = c.next /\ d.lru_head = c.lru_head /\ d.lru_tail = c.lru_tail
    /\ d.free_head = c.free_head /\ d.size = c.size
    /\ d.key[i] = key /\ d.occupied[i] /\ d.hash_next[i] = c.buckets[b] /\ d.buckets[b] = i
    /\ \A j \in 0 .. N - 1 : j # i =>
          d.key[j] = c.key[j] /\ d.occupied[j] = c.occupied[j] /\ d.hash_next[j] = c.hash_next[j]
    /\ \A a \in 0 .. B - 1 : a # b => d.buckets[a] = c.buckets[a]

LEMMA FillFields ==
    ASSUME NEW N \in Nat, NEW B \in Nat, NEW c \in CacheType(N, B), NEW i \in 0 .. N - 1,
           NEW key \in Keys, NEW b \in 0 .. B - 1
    PROVE  AfterFill(c, Filled(c, i, key, b), i, key, b, N, B)
<1> DEFINE d == Filled(c, i, key, b)
           D == 0 .. N - 1
           E == 0 .. B - 1
           Link == D \cup {kInvalid}
           ky == [c.key EXCEPT ![i] = key]
           oc == [c.occupied EXCEPT ![i] = TRUE]
           hn == [c.hash_next EXCEPT ![i] = c.buckets[b]]
           bs == [c.buckets EXCEPT ![b] = i]
<1>1. /\ c = [key |-> c.key, occupied |-> c.occupied, prev |-> c.prev, next |-> c.next,
              hash_next |-> c.hash_next, buckets |-> c.buckets, lru_head |-> c.lru_head,
              lru_tail |-> c.lru_tail, free_head |-> c.free_head, size |-> c.size]
      /\ c.key \in [D -> Keys \cup {NoKey}] /\ c.occupied \in [D -> BOOLEAN]
      /\ c.hash_next \in [D -> Link] /\ c.buckets \in [E -> Link]
  BY DEF CacheType
<1>2. d = [c EXCEPT !.key = ky, !.occupied = oc, !.hash_next = hn, !.buckets = bs]
  BY Zenon DEF Filled
<1>3. /\ ky \in [D -> Keys \cup {NoKey}] /\ hn \in [D -> Link] /\ bs \in [E -> Link]
      /\ ky[i] = key /\ hn[i] = c.buckets[b] /\ bs[b] = i
  BY <1>1
<1>4. oc \in [D -> BOOLEAN] /\ oc[i] = TRUE /\ \A j \in D : j # i => oc[j] = c.occupied[j]
  BY <1>1, Zenon
<1>5. /\ \A j \in D : j # i => ky[j] = c.key[j] /\ hn[j] = c.hash_next[j]
      /\ \A a \in E : a # b => bs[a] = c.buckets[a]
  BY <1>1
<1> HIDE DEF d, ky, oc, hn, bs, D, E, Link
<1>6. /\ d.prev = c.prev /\ d.next = c.next /\ d.lru_head = c.lru_head /\ d.lru_tail = c.lru_tail
      /\ d.free_head = c.free_head /\ d.size = c.size
      /\ d.key = ky /\ d.occupied = oc /\ d.hash_next = hn /\ d.buckets = bs
  BY <1>1, <1>2
<1>7. d \in CacheType(N, B)
  BY <1>2, <1>3, <1>4, Zenon DEF CacheType, D, E, Link
<1>8. d.key[i] = key /\ d.occupied[i] /\ d.hash_next[i] = c.buckets[b] /\ d.buckets[b] = i
  BY <1>3, <1>4, <1>6, Zenon
<1>9. \A j \in D : j # i =>
         d.key[j] = c.key[j] /\ d.occupied[j] = c.occupied[j] /\ d.hash_next[j] = c.hash_next[j]
  BY <1>4, <1>5, <1>6, Zenon
<1>10. \A a \in E : a # b => d.buckets[a] = c.buckets[a]
  BY <1>5, <1>6, Zenon
<1> QED
  BY <1>6, <1>7, <1>8, <1>9, <1>10, Zenon DEF AfterFill, d, D, E

LEMMA ListsFill ==
    ASSUME NEW N, NEW B, NEW c, NEW use, NEW free, NEW i, Detached(c, N, use, free, i),
           NEW key, NEW b, NEW d, AfterFill(c, d, i, key, b, N, B)
    PROVE  Detached(d, N, use, free, i)
  BY Zenon DEF Detached, AfterFill

----------------------------------------------------------------------------
(* The chains of the buckets. *)

\* A chain that ends and holds exactly the nodes of H.
HasChain(link, head, H, N) ==
    \E s : /\ Listing(s, 0 .. N - 1) /\ Along(link, head, s)
           /\ \A j : IsIn(j, s) <=> j \in H

\* The nodes of S whose keys belong to bucket b.
Home(h, B, c, S, b) == {j \in S : h[c.key[j]] % B = b}

\* The chains hold exactly the nodes of S, and no key has two of them.
Chains(h, c, N, B, S) ==
    /\ S \subseteq 0 .. N - 1
    /\ \A b \in 0 .. B - 1 : HasChain(c.hash_next, c.buckets[b], Home(h, B, c, S, b), N)
    /\ \A i, j \in S : c.key[i] = c.key[j] => i = j
    /\ \A i \in S : c.key[i] \in Keys

LEMMA ChainSame ==
    ASSUME NEW link, NEW head, NEW H, NEW N, HasChain(link, head, H, N),
           NEW link2, \A j \in H : link2[j] = link[j]
    PROVE  HasChain(link2, head, H, N)
<1>1. PICK s : /\ Listing(s, 0 .. N - 1) /\ Along(link, head, s)
               /\ \A j : IsIn(j, s) <=> j \in H
  BY Zenon DEF HasChain
<1>2. SameOn(link, link2, s)
  BY <1>1, Zenon DEF SameOn
<1>3. Along(link2, head, s)
  BY <1>1, <1>2, AlongSame, Zenon
<1> QED
  BY <1>1, <1>3, Zenon DEF HasChain

LEMMA ChainPush ==
    ASSUME NEW link, NEW head, NEW H, NEW N, HasChain(link, head, H, N),
           NEW i \in 0 .. N - 1, i \notin H,
           NEW link2, link2[i] = head, \A j \in H : link2[j] = link[j]
    PROVE  HasChain(link2, i, H \cup {i}, N)
<1> DEFINE D == 0 .. N - 1
<1>1. PICK s : /\ Listing(s, D) /\ Along(link, head, s)
               /\ \A j : IsIn(j, s) <=> j \in H
  BY Zenon DEF HasChain
<1>2. ~ IsIn(i, s) /\ i \in D /\ \A j : IsIn(j, s) => link2[j] = link[j]
  BY <1>1, Zenon
<1> HIDE DEF D
<1>3. Listing(Fronted(s, i), D)
  BY <1>1, <1>2, FrontedIsListing
<1>4. Along(link2, i, Fronted(s, i))
  BY <1>1, <1>2, AlongFronted
<1>5. ASSUME NEW j PROVE IsIn(j, Fronted(s, i)) <=> j \in H \cup {i}
  <2>1. IsIn(j, Fronted(s, i)) <=> IsIn(j, s) \/ j = i
    BY <1>1, <1>2, FrontedHas, Zenon
  <2> QED
    BY <1>1, <2>1, Zenon
<1> QED
  BY <1>3, <1>4, <1>5, Zenon DEF HasChain, D

LEMMA ChainsFill ==
    ASSUME NEW h, NEW N \in Nat, NEW B \in Nat, NEW c, NEW S, Chains(h, c, N, B, S),
           NEW i \in 0 .. N - 1, i \notin S, NEW key \in Keys, \A j \in S : c.key[j] # key,
           NEW b, b = h[key] % B, NEW d, AfterFill(c, d, i, key, b, N, B)
    PROVE  Chains(h, d, N, B, S \cup {i})
<1> DEFINE D == 0 .. N - 1
           T == S \cup {i}
<1>1. /\ d.key[i] = key /\ d.hash_next[i] = c.buckets[b] /\ d.buckets[b] = i
      /\ \A j \in D : j # i => d.key[j] = c.key[j] /\ d.hash_next[j] = c.hash_next[j]
      /\ \A a \in 0 .. B - 1 : a # b => d.buckets[a] = c.buckets[a]
  BY Zenon DEF AfterFill
<1>2. /\ S \subseteq D
      /\ \A a \in 0 .. B - 1 : HasChain(c.hash_next, c.buckets[a], Home(h, B, c, S, a), N)
      /\ \A j, k \in S : c.key[j] = c.key[k] => j = k
      /\ \A j \in S : c.key[j] \in Keys
  BY Zenon DEF Chains
<1>3. \A j \in S : j \in D /\ j # i /\ d.key[j] = c.key[j] /\ d.hash_next[j] = c.hash_next[j]
  BY <1>1, <1>2, Zenon
<1>4. ASSUME NEW a \in 0 .. B - 1 PROVE HasChain(d.hash_next, d.buckets[a], Home(h, B, d, T, a), N)
  <2>1. \A j \in Home(h, B, c, S, a) : d.hash_next[j] = c.hash_next[j]
    BY <1>3, Zenon DEF Home
  <2>2. i \notin Home(h, B, c, S, a)
    BY Zenon DEF Home
  <2>3. HasChain(c.hash_next, c.buckets[a], Home(h, B, c, S, a), N)
    BY <1>2, Zenon
  <2>a. h[d.key[i]] % B = b /\ \A j \in S : h[d.key[j]] % B = h[c.key[j]] % B
    BY <1>1, <1>3, Zenon
  <2>4. CASE a = b
    <3>1. Home(h, B, d, T, a) = Home(h, B, c, S, a) \cup {i}
      BY <2>4, <2>a, Zenon DEF Home
    <3>2. d.hash_next[i] = c.buckets[a] /\ d.buckets[a] = i
      BY <1>1, <2>4, Zenon
    <3>3. HasChain(d.hash_next, i, Home(h, B, c, S, a) \cup {i}, N)
      BY <2>1, <2>2, <2>3, <3>2, ChainPush, Zenon
    <3> QED
      BY <3>1, <3>2, <3>3, Zenon
  <2>5. CASE a # b
    <3>1. Home(h, B, d, T, a) = Home(h, B, c, S, a)
      <4>1. \A j \in T : h[d.key[j]] % B = a => j \in S
        BY <2>5, <2>a, Zenon
      <4> QED
        BY <2>a, <4>1, Zenon DEF Home
    <3>2. HasChain(d.hash_next, c.buckets[a], Home(h, B, c, S, a), N)
      BY <2>1, <2>3, ChainSame, Zenon
    <3> QED
      BY <1>1, <2>5, <3>1, <3>2, Zenon
  <2> QED
    BY <2>4, <2>5, Zenon
<1>5. ASSUME NEW j \in T, NEW k \in T, d.key[j] = d.key[k] PROVE j = k
  <2>1. \A l \in S : d.key[l] # key
    BY <1>3, Zenon
  <2>2. CASE j = i \/ k = i
    BY <1>1, <1>5, <2>1, <2>2, Zenon
  <2>3. CASE j \in S /\ k \in S
    BY <1>2, <1>3, <1>5, <2>3, Zenon
  <2> QED
    BY <2>2, <2>3, Zenon
<1>6. T \subseteq D /\ \A j \in T : d.key[j] \in Keys
  BY <1>1, <1>2, <1>3, Zenon
<1> QED
  BY <1>4, <1>5, <1>6, Zenon DEF Chains

LEMMA ChainsRemove ==
    ASSUME NEW h, NEW N \in Nat, NEW B \in Nat, NEW c, NEW S, Chains(h, c, N, B, S),
           NEW b \in 0 .. B - 1, NEW s, Listing(s, 0 .. N - 1),
           Along(c.hash_next, c.buckets[b], s), \A j : IsIn(j, s) <=> j \in Home(h, B, c, S, b),
           NEW k \in 1 .. Len(s), NEW d, AfterRemove(c, d, s, k, b, N, B)
    PROVE  Chains(h, d, N, B, S \ {s[k]})
<1> DEFINE D == 0 .. N - 1
           i == s[k]
           T == S \ {i}
<1>1. /\ d.key = c.key
      /\ Skips(c.hash_next, c.buckets[b], d.hash_next, d.buckets[b], s, k, D)
      /\ \A a \in 0 .. B - 1 : a # b => d.buckets[a] = c.buckets[a]
  BY Zenon DEF AfterRemove, SameRest
<1>2. /\ S \subseteq D
      /\ \A a \in 0 .. B - 1 : HasChain(c.hash_next, c.buckets[a], Home(h, B, c, S, a), N)
      /\ \A j, l \in S : c.key[j] = c.key[l] => j = l
      /\ \A j \in S : c.key[j] \in Keys
  BY Zenon DEF Chains
<1>3. IsIn(i, s) /\ (k > 1 => IsIn(s[k - 1], s))
  <2>1. k > 1 => k - 1 \in 1 .. Len(s)
    BY DEF Listing
  <2> QED
    BY <2>1, Zenon DEF IsIn
<1>4. ASSUME NEW a \in 0 .. B - 1 PROVE HasChain(d.hash_next, d.buckets[a], Home(h, B, d, T, a), N)
  <2>1. Home(h, B, d, T, a) = Home(h, B, c, S, a) \ {i}
    BY <1>1, Zenon DEF Home
  <2>2. CASE a = b
    <3>1. Along(d.hash_next, d.buckets[b], Without(s, k))
      BY <1>1, AlongWithout, Zenon
    <3>2. Listing(Without(s, k), D)
      BY WithoutIsListing
    <3>3. ASSUME NEW j PROVE IsIn(j, Without(s, k)) <=> j \in Home(h, B, c, S, b) \ {i}
      <4>1. Listing(s, D)
        OBVIOUS
      <4> HIDE DEF D
      <4>2. IsIn(j, Without(s, k)) <=> IsIn(j, s) /\ j # i
        BY <4>1, WithoutHas, Zenon
      <4> QED
        BY <4>2, Zenon
    <3> QED
      BY <2>1, <2>2, <3>1, <3>2, <3>3, Zenon DEF HasChain
  <2>3. CASE a # b
    <3>1. ASSUME NEW j \in Home(h, B, c, S, a) PROVE j # i /\ d.hash_next[j] = c.hash_next[j]
      <4>1. j \in D /\ j \notin Home(h, B, c, S, b)
        BY <1>2, <2>3, <3>1, Zenon DEF Home
      <4>2. j # i /\ ~ (k > 1 /\ j = s[k - 1])
        BY <1>3, <4>1, Zenon
      <4> QED
        BY <1>1, <4>1, <4>2, Zenon DEF Skips
    <3>2. HasChain(c.hash_next, c.buckets[a], Home(h, B, c, S, a), N)
      BY <1>2, Zenon
    <3>3. HasChain(d.hash_next, c.buckets[a], Home(h, B, c, S, a), N)
      BY <3>1, <3>2, ChainSame, Zenon
    <3>4. Home(h, B, c, S, a) \ {i} = Home(h, B, c, S, a)
      BY <3>1, Zenon
    <3> QED
      BY <1>1, <2>1, <2>3, <3>3, <3>4, Zenon
  <2> QED
    BY <2>2, <2>3, Zenon
<1>5. \A j, l \in T : d.key[j] = d.key[l] => j = l
  BY <1>1, <1>2, Zenon
<1>6. T \subseteq D /\ \A j \in T : d.key[j] \in Keys
  BY <1>1, <1>2, Zenon
<1> QED
  BY <1>4, <1>5, <1>6, Zenon DEF Chains

\* Operations that keep the chains' fields keep the chains.
LEMMA ChainsSame ==
    ASSUME NEW h, NEW N, NEW B, NEW c, NEW S, Chains(h, c, N, B, S), NEW d,
           d.key = c.key, d.hash_next = c.hash_next, d.buckets = c.buckets
    PROVE  Chains(h, d, N, B, S)
<1>1. \A b : Home(h, B, d, S, b) = Home(h, B, c, S, b)
  BY Zenon DEF Home
<1> QED
  BY <1>1, Zenon DEF Chains

----------------------------------------------------------------------------
(* The invariant. *)

OccupiedIn(c, N) == {j \in 0 .. N - 1 : c.occupied[j]}

Good(h, c, N, B, use, free) ==
    /\ c \in CacheType(N, B)
    /\ Lists(c, N, use, free)
    /\ Chains(h, c, N, B, OccupiedIn(c, N))

CacheInv ==
    /\ hash \in [Keys -> Nat]
    /\ \E N, B \in Nat \ {0} : \E use, free : Good(hash, cache, N, B, use, free)

LEMMA BucketOf ==
    ASSUME hash \in [Keys -> Nat], NEW N, NEW B \in Nat \ {0}, NEW c \in CacheType(N, B),
           NEW key \in Keys
    PROVE  bucket_for(c, key) = hash[key] % B /\ hash[key] % B \in 0 .. B - 1
<1>1. DOMAIN c.buckets = 0 .. B - 1
  BY DEF CacheType
<1>2. Cardinality(0 .. B - 1) = B
  BY FS_Interval
<1>3. hash[key] \in Nat
  OBVIOUS
<1>4. ASSUME NEW n \in Nat PROVE n % B \in 0 .. B - 1
  OBVIOUS
<1> QED
  BY <1>1, <1>2, <1>3, <1>4, Zenon DEF bucket_for

\* A key that is seen again: its node goes to the front.
LEMMA GoodUse ==
    ASSUME NEW h, NEW N \in Nat, NEW B \in Nat, NEW c, NEW use, NEW free,
           Good(h, c, N, B, use, free), NEW k \in 1 .. Len(use), NEW d,
           d = push_front_lru(unlink_lru(c, use[k]), use[k])
    PROVE  Good(h, d, N, B, Fronted(Without(use, k), use[k]), free) /\ d.key = c.key
<1> DEFINE i == use[k]
           e == unlink_lru(c, i)
<1>1. c \in CacheType(N, B) /\ Lists(c, N, use, free) /\ Chains(h, c, N, B, OccupiedIn(c, N))
  BY Zenon DEF Good
<1>2. i \in 0 .. N - 1 /\ c.occupied[i]
  <2>1. use \in Seq(0 .. N - 1)
    BY <1>1, Zenon DEF Lists, Listing
  <2>2. i \in 0 .. N - 1
    BY <2>1
  <2>3. IsIn(i, use)
    BY Zenon DEF IsIn
  <2> QED
    BY <1>1, <2>2, <2>3, Zenon DEF Lists
<1>3. d = push_front_lru(e, i)
  OBVIOUS
<1>4. AfterUnlink(c, e, i, N, B)
  BY <1>1, <1>2, UnlinkFields, Zenon
<1> HIDE DEF e
<1>5. e \in CacheType(N, B) /\ e.occupied = c.occupied /\ e.key = c.key
      /\ e.hash_next = c.hash_next /\ e.buckets = c.buckets
  BY <1>4, Zenon DEF AfterUnlink, SameRest
<1>6. Detached(e, N, Without(use, k), free, i)
  BY <1>1, <1>4, ListsUnlink, Zenon
<1>7. AfterPush(e, d, i, N, B)
  BY <1>2, <1>3, <1>5, PushFields, Zenon
<1>8. Lists(d, N, Fronted(Without(use, k), i), free)
  BY <1>2, <1>5, <1>6, <1>7, ListsPush, Zenon
<1>9. d \in CacheType(N, B) /\ d.occupied = c.occupied /\ d.key = c.key
      /\ d.hash_next = c.hash_next /\ d.buckets = c.buckets
  BY <1>5, <1>7, Zenon DEF AfterPush, SameRest
<1>10. OccupiedIn(d, N) = OccupiedIn(c, N)
  BY <1>9, Zenon DEF OccupiedIn
<1>11. Chains(h, d, N, B, OccupiedIn(c, N))
  BY <1>1, <1>9, ChainsSame, Zenon
<1> QED
  BY <1>8, <1>9, <1>10, <1>11, Zenon DEF Good

\* A node that is on no list and in no chain gets a key that has none.
LEMMA GoodOccupy ==
    ASSUME hash \in [Keys -> Nat], NEW N \in Nat, NEW B \in Nat \ {0},
           NEW c \in CacheType(N, B), NEW use, NEW free, NEW i, Detached(c, N, use, free, i),
           NEW S, S = OccupiedIn(c, N) \ {i}, Chains(hash, c, N, B, S),
           NEW key \in Keys, \A j \in S : c.key[j] # key,
           NEW d, d = Occupy(c, i, key)
    PROVE  /\ Good(hash, d, N, B, Fronted(use, i), free)
           /\ d.key[i] = key /\ \A j \in 0 .. N - 1 : j # i => d.key[j] = c.key[j]
<1> DEFINE b == hash[key] % B
           e == Filled(c, i, key, b)
<1>1. bucket_for(c, key) = b /\ b \in 0 .. B - 1
  BY BucketOf, Zenon
<1>2. d = push_front_lru(e, i)
  BY <1>1, Zenon DEF Occupy, Filled
<1>3. i \in 0 .. N - 1 /\ i \notin S
  BY Zenon DEF Detached
<1>4. AfterFill(c, e, i, key, b, N, B)
  BY <1>1, <1>3, FillFields, Zenon
<1> HIDE DEF e
<1>5. /\ e \in CacheType(N, B) /\ e.key[i] = key /\ e.occupied[i]
      /\ \A j \in 0 .. N - 1 : j # i => e.key[j] = c.key[j] /\ e.occupied[j] = c.occupied[j]
  BY <1>4, Zenon DEF AfterFill
<1>6. Detached(e, N, use, free, i)
  BY <1>4, ListsFill, Zenon
<1>7. AfterPush(e, d, i, N, B)
  BY <1>2, <1>3, <1>5, PushFields, Zenon
<1>8. Lists(d, N, Fronted(use, i), free)
  BY <1>5, <1>6, <1>7, ListsPush, Zenon
<1>9. d \in CacheType(N, B) /\ d.occupied = e.occupied /\ d.key = e.key
      /\ d.hash_next = e.hash_next /\ d.buckets = e.buckets
  BY <1>7, Zenon DEF AfterPush, SameRest
<1>10. OccupiedIn(d, N) = S \cup {i}
  BY <1>3, <1>5, <1>9, Zenon DEF OccupiedIn
<1>11. Chains(hash, e, N, B, S \cup {i})
  BY <1>3, <1>4, ChainsFill, Zenon
<1>12. Chains(hash, d, N, B, S \cup {i})
  BY <1>9, <1>11, ChainsSame, Zenon
<1> QED
  BY <1>5, <1>8, <1>9, <1>10, <1>12, Zenon DEF Good

\* d is c without the first node of the free list, which no list and no chain holds.
TakenFrom(h, c, d, N, B, use, free) ==
    /\ d \in CacheType(N, B) /\ d.key = c.key
    /\ Detached(d, N, use, Without(free, 1), c.free_head)
    /\ OccupiedIn(d, N) \ {c.free_head} = OccupiedIn(c, N)
    /\ Chains(h, d, N, B, OccupiedIn(c, N))
    /\ Len(use) < N

LEMMA GoodTake ==
    ASSUME NEW h, NEW N \in Nat, NEW B \in Nat, NEW c, NEW use, NEW free,
           Good(h, c, N, B, use, free), c.free_head # kInvalid
    PROVE  TakenFrom(h, c, Taken(c), N, B, use, free)
<1> DEFINE i == c.free_head
           d == Taken(c)
<1>1. c \in CacheType(N, B) /\ Lists(c, N, use, free) /\ Chains(h, c, N, B, OccupiedIn(c, N))
  BY Zenon DEF Good
<1>2. AfterTake(c, d, N, B)
  BY <1>1, TakeFields, Zenon
<1> HIDE DEF d
<1>3. Detached(d, N, use, Without(free, 1), i)
  BY <1>1, <1>2, ListsTake, Zenon
<1>4. d \in CacheType(N, B) /\ d.occupied = c.occupied /\ d.key = c.key
      /\ d.hash_next = c.hash_next /\ d.buckets = c.buckets
  BY <1>2, Zenon DEF AfterTake
<1>5. 1 \in 1 .. Len(free) /\ i = free[1]
  BY <1>1, Zenon DEF Lists, Along, Nth
<1>6. ~ c.occupied[i]
  <2>1. IsIn(i, free)
    BY <1>5, Zenon DEF IsIn
  <2>2. i \in 0 .. N - 1
    BY <1>3, Zenon DEF Detached
  <2> QED
    BY <1>1, <2>1, <2>2, Zenon DEF Lists
<1>7. OccupiedIn(d, N) \ {i} = OccupiedIn(c, N)
  BY <1>4, <1>6, Zenon DEF OccupiedIn
<1>8. Chains(h, d, N, B, OccupiedIn(c, N))
  BY <1>1, <1>4, ChainsSame, Zenon
<1>9. Len(use) < N
  <2>1. use \in Seq(0 .. N - 1) /\ free \in Seq(0 .. N - 1) /\ Len(use) + Len(free) = N
    BY <1>1, Zenon DEF Lists, Listing
  <2> QED
    BY <1>5, <2>1
<1> QED
  BY <1>3, <1>4, <1>7, <1>8, <1>9, Zenon DEF TakenFrom, d

\* d is c without the least recently used node.
EvictedFrom(h, c, d, N, B, use, free) ==
    /\ d \in CacheType(N, B) /\ d.key = c.key
    /\ Len(use) = N /\ c.lru_tail = use[N]
    /\ Detached(d, N, Without(use, N), free, c.lru_tail)
    /\ OccupiedIn(d, N) = OccupiedIn(c, N)
    /\ Chains(h, d, N, B, OccupiedIn(c, N) \ {c.lru_tail})

LEMMA GoodEvict ==
    ASSUME hash \in [Keys -> Nat], NEW N \in Nat \ {0}, NEW B \in Nat \ {0},
           NEW c, NEW use, NEW free, Good(hash, c, N, B, use, free), c.free_head = kInvalid,
           NEW i, i = c.lru_tail
    PROVE  EvictedFrom(hash, c, unlink_lru(remove_from_bucket(c, i), i), N, B, use, free)
<1> DEFINE d == unlink_lru(remove_from_bucket(c, i), i)
           D == 0 .. N - 1
           S == OccupiedIn(c, N)
           e == remove_from_bucket(c, i)
           b == hash[c.key[i]] % B
<1>1. c \in CacheType(N, B) /\ Lists(c, N, use, free) /\ Chains(hash, c, N, B, S)
  BY Zenon DEF Good
<1>2. /\ Listing(use, D) /\ Listing(free, D)
      /\ Doubly(c.next, c.prev, c.lru_head, c.lru_tail, use)
      /\ Along(c.next, c.free_head, free)
      /\ Len(use) + Len(free) = N
  BY <1>1, Zenon DEF Lists
<1>3. Len(use) = N /\ N \in 1 .. Len(use) /\ i = use[N]
  <2>1. use \in Seq(D) /\ free \in Seq(D)
    BY <1>2, Zenon DEF Listing
  <2>2. Nth(free, 1) = kInvalid
    BY <1>2, Zenon DEF Along
  <2>3. 1 \notin 1 .. Len(free)
    <3> SUFFICES ASSUME 1 \in 1 .. Len(free) PROVE FALSE
      BY Zenon
    <3>1. free[1] \in D
      BY <2>1
    <3> QED
      BY <2>2, <3>1 DEF Nth, kInvalid
  <2>4. Len(use) = N /\ N \in 1 .. Len(use)
    BY <1>2, <2>1, <2>3
  <2>5. i = Nth(use, Len(use))
    BY <1>2, DoublyLinks
  <2> QED
    BY <2>4, <2>5, Zenon DEF Nth
<1>4. i \in D /\ i \in S /\ c.key[i] \in Keys
  <2>1. IsIn(i, use)
    BY <1>3, Zenon DEF IsIn
  <2>2. i \in D
    BY <1>2, <1>3 DEF Listing
  <2> QED
    BY <1>1, <2>1, <2>2, Zenon DEF Lists, OccupiedIn, Chains
<1>5. bucket_for(c, c.key[i]) = b /\ b \in 0 .. B - 1
  BY <1>1, <1>4, BucketOf, Zenon
<1>6. PICK s : /\ Listing(s, D) /\ Along(c.hash_next, c.buckets[b], s)
               /\ \A j : IsIn(j, s) <=> j \in Home(hash, B, c, S, b)
  BY <1>1, <1>5, Zenon DEF Chains, HasChain
<1>7. PICK k \in 1 .. Len(s) : s[k] = i
  <2>1. i \in Home(hash, B, c, S, b)
    BY <1>4, Zenon DEF Home
  <2> QED
    BY <1>6, <2>1, Zenon DEF IsIn
<1>8. AfterRemove(c, e, s, k, b, N, B)
  <2>1. i = s[k]
    BY <1>7, Zenon
  <2> QED
    BY <1>1, <1>5, <1>6, <2>1, RemoveFields, Zenon
<1>d. d = unlink_lru(e, i)
  OBVIOUS
<1> HIDE DEF d, e, b
<1>9. /\ e \in CacheType(N, B) /\ e.key = c.key /\ e.occupied = c.occupied
      /\ e.next = c.next /\ e.prev = c.prev /\ e.lru_head = c.lru_head
      /\ e.lru_tail = c.lru_tail /\ e.free_head = c.free_head /\ e.size = c.size
  BY <1>8, Zenon DEF AfterRemove, SameRest
<1>10. Chains(hash, e, N, B, S \ {i})
  <2>1. Chains(hash, e, N, B, S \ {s[k]})
    BY <1>1, <1>5, <1>6, <1>8, ChainsRemove, Zenon
  <2> QED
    BY <1>7, <2>1, Zenon
<1>11. Lists(e, N, use, free)
  BY <1>1, <1>9, Zenon DEF Lists
<1>12. AfterUnlink(e, d, i, N, B)
  BY <1>4, <1>9, <1>d, UnlinkFields, Zenon
<1>13. d \in CacheType(N, B) /\ d.key = c.key /\ d.occupied = c.occupied
       /\ d.hash_next = e.hash_next /\ d.buckets = e.buckets
  BY <1>9, <1>12, Zenon DEF AfterUnlink, SameRest
<1>14. Detached(d, N, Without(use, N), free, i)
  BY <1>3, <1>9, <1>11, <1>12, ListsUnlink, Zenon
<1>15. Chains(hash, d, N, B, S \ {i})
  BY <1>9, <1>10, <1>13, ChainsSame, Zenon
<1>16. OccupiedIn(d, N) = S
  BY <1>13, Zenon DEF OccupiedIn
<1> QED
  BY <1>3, <1>13, <1>14, <1>15, <1>16, Zenon DEF EvictedFrom, d

----------------------------------------------------------------------------
(* The loop of check_and_insert finds the key's node if there is one. *)

LEMMA Lookup ==
    ASSUME hash \in [Keys -> Nat], NEW N \in Nat \ {0}, NEW B \in Nat \ {0}, NEW use, NEW free,
           Good(hash, cache, N, B, use, free), NEW key \in Keys
    PROVE  /\ Hits(key) = {} => \A j \in OccupiedIn(cache, N) : cache.key[j] # key
           /\ Hits(key) # {} => \E k \in 1 .. Len(use) :
                                   Hit(key) = use[k] /\ cache.key[use[k]] = key
<1> DEFINE D == 0 .. N - 1
           S == OccupiedIn(cache, N)
           b == hash[key] % B
<1>1. cache \in CacheType(N, B) /\ Lists(cache, N, use, free) /\ Chains(hash, cache, N, B, S)
  BY Zenon DEF Good
<1>2. bucket_for(cache, key) = b /\ b \in 0 .. B - 1
  BY <1>1, BucketOf, Zenon
<1> HIDE DEF b
<1>3. PICK s : /\ Listing(s, D) /\ Along(cache.hash_next, cache.buckets[b], s)
               /\ \A j : IsIn(j, s) <=> j \in Home(hash, B, cache, S, b)
  BY <1>1, <1>2, Zenon DEF Chains, HasChain
<1>4. KeyChain(key) = s
  <2>1. DOMAIN cache.hash_next = D
    BY <1>1 DEF CacheType
  <2>2. Walk(cache.hash_next, cache.buckets[b]) = s
    BY <1>3, <2>1, WalkAlong, Zenon
  <2> QED
    BY <1>2, <2>2, Zenon DEF KeyChain
<1>5. DOMAIN s = 1 .. Len(s) /\ Len(s) \in Nat
  BY <1>3 DEF Listing
<1>6. Hits(key) = {n \in 1 .. Len(s) : cache.occupied[s[n]] /\ cache.key[s[n]] = key}
  BY <1>4, <1>5, Zenon DEF Hits
<1>7. ASSUME NEW n \in 1 .. Len(s) PROVE s[n] \in S
  BY <1>3, Zenon DEF IsIn, Home
<1>8. ASSUME Hits(key) = {}, NEW j \in S, cache.key[j] = key PROVE FALSE
  <2>1. j \in Home(hash, B, cache, S, b)
    BY <1>8, Zenon DEF Home, b
  <2>2. PICK n \in 1 .. Len(s) : s[n] = j
    BY <1>3, <2>1, Zenon DEF IsIn
  <2>3. cache.occupied[j]
    BY Zenon DEF OccupiedIn
  <2>4. n \in Hits(key)
    BY <1>6, <1>8, <2>2, <2>3, Zenon
  <2> QED
    BY <1>8, <2>4, Zenon
<1>9. ASSUME Hits(key) # {}
      PROVE  \E k \in 1 .. Len(use) : Hit(key) = use[k] /\ cache.key[use[k]] = key
  <2>1. Hits(key) \subseteq Nat
    BY <1>5, <1>6
  <2>2. \E n \in Hits(key) : \A m \in Hits(key) : n <= m
    BY <1>9, <2>1, Least, Zenon
  <2> DEFINE first == CHOOSE n \in Hits(key) : \A m \in Hits(key) : n <= m
  <2>3. first \in Hits(key)
    BY <2>2, Zenon
  <2>4. Hit(key) = s[first]
    BY <1>4, Zenon DEF Hit
  <2> HIDE DEF first
  <2>5. first \in 1 .. Len(s) /\ cache.key[s[first]] = key
    BY <1>6, <2>3, Zenon
  <2>6. s[first] \in D /\ cache.occupied[s[first]]
    BY <1>7, <2>5, Zenon DEF OccupiedIn
  <2>7. IsIn(s[first], use)
    BY <1>1, <2>6, Zenon DEF Lists
  <2> QED
    BY <2>4, <2>5, <2>7, Zenon DEF IsIn
<1> QED
  BY <1>8, <1>9, Zenon

----------------------------------------------------------------------------
(* The keys in the order of their use, as LruSet has them. *)

UsedKeys(c, use) == [n \in 1 .. Len(use) |-> c.key[use[n]]]

\* The key comes first, and those before place k move down.
Shifted(lru, key, k, len) ==
    [n \in 1 .. len |-> IF n = 1 THEN key ELSE IF n <= k THEN lru[n - 1] ELSE lru[n]]

\* From c to d the key of node i may have become key, and no other changed.
Rekeyed(c, d, i, key, N) ==
    d.key[i] = key /\ \A j \in 0 .. N - 1 : j # i => d.key[j] = c.key[j]

OnlyAt(lru, k, key) == lru[k] = key /\ \A n \in 1 .. Len(lru) : lru[n] = key => n = k

\* The order of use when the kth node, with the key, becomes the first.
MovesUp(c, d, use, k, key) ==
    UsedKeys(d, Fronted(Without(use, k), use[k])) = Shifted(UsedKeys(c, use), key, k, Len(use))

LEMMA RecentKeys ==
    ASSUME NEW N \in Nat, NEW c, NEW use, Listing(use, 0 .. N - 1),
           NEW k \in 1 .. Len(use), NEW d, NEW key, Rekeyed(c, d, use[k], key, N)
    PROVE  MovesUp(c, d, use, k, key)
<1> DEFINE D == 0 .. N - 1
           L == Len(use)
           i == use[k]
           t == Without(use, k)
           u == Fronted(t, i)
<1>1. /\ L \in Nat /\ k \in 1 .. L /\ (\A n \in 1 .. L : use[n] \in D)
      /\ \A m, n \in 1 .. L : use[m] = use[n] => m = n
  BY DEF Listing
<1>0. d.key[i] = key /\ \A j \in D : j # i => d.key[j] = c.key[j]
  BY Zenon DEF Rekeyed
<1>2. /\ Listing(t, D) /\ Len(t) = L - 1
      /\ \A n \in 1 .. L - 1 : t[n] = IF n < k THEN use[n] ELSE use[n + 1]
  BY WithoutIsListing
<1>3. ~ IsIn(i, t) /\ i \in D
  <2>1. Listing(use, D)
    OBVIOUS
  <2> HIDE DEF D
  <2> QED
    BY <1>1, <2>1, WithoutHas, Zenon
<1>4. Len(u) = L /\ \A n \in 1 .. L : u[n] = IF n = 1 THEN i ELSE t[n - 1]
  <2> HIDE DEF t, D
  <2>1. /\ Len(u) = Len(t) + 1
        /\ \A n \in 1 .. Len(t) + 1 : u[n] = IF n = 1 THEN i ELSE t[n - 1]
    <3>1. Listing(t, D) /\ ~ IsIn(i, t) /\ i \in D
      BY <1>2, <1>3, Zenon
    <3> HIDE DEF u
    <3>2. Len(Fronted(t, i)) = Len(t) + 1
      BY <3>1, FrontedIsListing
    <3>3. \A n \in 1 .. Len(t) + 1 : Fronted(t, i)[n] = IF n = 1 THEN i ELSE t[n - 1]
      BY <3>1, FrontedIsListing
    <3> QED
      BY <3>2, <3>3, Zenon DEF u
  <2>2. Len(t) + 1 = L
    BY <1>1, <1>2
  <2> QED
    BY <2>1, <2>2, Zenon
<1> HIDE DEF t, u, D, L, i
<1>5. \A n \in 1 .. L : UsedKeys(c, use)[n] = c.key[use[n]]
  BY Zenon DEF UsedKeys, L
<1>6. ASSUME NEW n \in 1 .. L
      PROVE  d.key[u[n]] = IF n = 1 THEN key ELSE IF n <= k THEN UsedKeys(c, use)[n - 1]
                           ELSE UsedKeys(c, use)[n]
  <2>1. CASE n = 1
    BY <1>0, <1>4, <2>1
  <2>2. CASE n # 1 /\ n <= k
    <3>1. n - 1 \in 1 .. L - 1 /\ n - 1 \in 1 .. L /\ n - 1 < k /\ n - 1 # k
      BY <1>1, <2>2
    <3>2. u[n] = use[n - 1] /\ use[n - 1] # i /\ use[n - 1] \in D
      BY <1>1, <1>2, <1>4, <2>2, <3>1, Zenon DEF i
    <3> QED
      BY <1>0, <1>5, <2>2, <3>1, <3>2, Zenon
  <2>3. CASE n # 1 /\ ~ (n <= k)
    <3>1. n - 1 \in 1 .. L - 1 /\ ~ (n - 1 < k) /\ (n - 1) + 1 = n /\ n # k
      BY <1>1, <2>3
    <3>2. u[n] = use[n] /\ use[n] # i /\ use[n] \in D
      BY <1>1, <1>2, <1>4, <2>3, <3>1, Zenon DEF i
    <3> QED
      BY <1>0, <1>5, <2>3, <3>1, <3>2, Zenon
  <2> QED
    BY <2>1, <2>2, <2>3, Zenon
<1>7. UsedKeys(d, u) = [n \in 1 .. L |-> d.key[u[n]]]
  BY <1>4, Zenon DEF UsedKeys
<1> QED
  BY <1>6, <1>7, Zenon DEF MovesUp, Shifted, u, t, L, i

LEMMA NewKeys ==
    ASSUME NEW N \in Nat, NEW c, NEW use, Listing(use, 0 .. N - 1),
           NEW i \in 0 .. N - 1, ~ IsIn(i, use), NEW d, NEW key,
           Rekeyed(c, d, i, key, N)
    PROVE  UsedKeys(d, Fronted(use, i)) =
              Shifted(UsedKeys(c, use), key, Len(use) + 1, Len(use) + 1)
<1> DEFINE D == 0 .. N - 1
           L == Len(use)
           u == Fronted(use, i)
<1>1. L \in Nat /\ \A n \in 1 .. L : use[n] \in D /\ use[n] # i
  BY DEF Listing, IsIn
<1>0. d.key[i] = key /\ \A j \in D : j # i => d.key[j] = c.key[j]
  BY Zenon DEF Rekeyed
<1>2. Len(u) = L + 1 /\ \A n \in 1 .. L + 1 : u[n] = IF n = 1 THEN i ELSE use[n - 1]
  BY FrontedIsListing
<1> HIDE DEF u, D, L
<1>3. \A n \in 1 .. L : UsedKeys(c, use)[n] = c.key[use[n]]
  BY Zenon DEF UsedKeys, L
<1>4. ASSUME NEW n \in 1 .. L + 1
      PROVE  d.key[u[n]] = IF n = 1 THEN key ELSE UsedKeys(c, use)[n - 1]
  <2>1. CASE n = 1
    BY <1>0, <1>2, <2>1
  <2>2. CASE n # 1
    <3>1. n - 1 \in 1 .. L /\ u[n] = use[n - 1]
      BY <1>1, <1>2, <2>2
    <3> QED
      BY <1>0, <1>1, <1>3, <2>2, <3>1, Zenon
  <2> QED
    BY <2>1, <2>2, Zenon
<1>5. UsedKeys(d, u) = [n \in 1 .. L + 1 |-> d.key[u[n]]]
  BY <1>2, Zenon DEF UsedKeys
<1>6. \A n \in 1 .. L + 1 : n <= L + 1
  BY <1>1
<1> QED
  BY <1>4, <1>5, <1>6, Zenon DEF Shifted, u, L

LEMMA UsedKeysOf ==
    ASSUME NEW D, NEW c, NEW use, Listing(use, D)
    PROVE  /\ Len(UsedKeys(c, use)) = Len(use) /\ Len(use) \in Nat
           /\ \A n \in 1 .. Len(use) : UsedKeys(c, use)[n] = c.key[use[n]]
<1>1. Len(use) \in Nat
  BY DEF Listing
<1>2. ASSUME NEW L \in Nat PROVE Len([n \in 1 .. L |-> c.key[use[n]]]) = L
  OBVIOUS
<1> QED
  BY <1>1, <1>2, Zenon DEF UsedKeys

\* What Remember does in its three cases.
LEMMA RememberSeen ==
    ASSUME NEW lru, Len(lru) \in Nat, NEW k \in 1 .. Len(lru), NEW key, OnlyAt(lru, k, key),
           NEW capacity
    PROVE  Contains(lru, key) /\ Remember(lru, key, capacity) = Shifted(lru, key, k, Len(lru))
<1>1. Contains(lru, key)
  BY Zenon DEF Contains, OnlyAt
<1>2. (CHOOSE n \in 1 .. Len(lru) : lru[n] = key) = k
  BY Zenon DEF OnlyAt
<1>3. Place(lru, key, capacity) = k
  BY <1>1, <1>2, Zenon DEF Place
<1>4. ~ (k > Len(lru))
  OBVIOUS
<1> QED
  BY <1>1, <1>3, <1>4, Zenon DEF Remember, Shifted

LEMMA RememberNew ==
    ASSUME NEW lru, Len(lru) \in Nat, NEW key, ~ Contains(lru, key), NEW capacity, Len(lru) < capacity
    PROVE  Remember(lru, key, capacity) = Shifted(lru, key, Len(lru) + 1, Len(lru) + 1)
<1>1. Place(lru, key, capacity) = Len(lru) + 1
  BY Zenon DEF Place
<1>2. Len(lru) + 1 > Len(lru)
  OBVIOUS
<1> QED
  BY <1>1, <1>2, Zenon DEF Remember, Shifted

LEMMA RememberFull ==
    ASSUME NEW lru, NEW capacity \in Nat, Len(lru) = capacity, NEW key, ~ Contains(lru, key)
    PROVE  Remember(lru, key, capacity) = Shifted(lru, key, capacity, capacity)
<1>1. ~ (capacity < capacity) /\ ~ (capacity > capacity)
  OBVIOUS
<1>2. Place(lru, key, capacity) = capacity
  BY <1>1, Zenon DEF Place
<1> QED
  BY <1>1, <1>2, Zenon DEF Remember, Shifted

----------------------------------------------------------------------------
(* check_and_insert keeps the invariant, and does what Remember says. *)

\* The cache as c, whose keys of use are those of lru after a call with key.
Answers(c, N, B, lru, key) ==
    \E use, free : /\ Good(hash, c, N, B, use, free)
                   /\ UsedKeys(c, use) = Remember(lru, key, N)

LEMMA FindStep ==
    ASSUME hash \in [Keys -> Nat], NEW N \in Nat \ {0}, NEW B \in Nat \ {0}, NEW use, NEW free,
           Good(hash, cache, N, B, use, free), NEW key \in Keys, FindDuplicate(key)
    PROVE  /\ Answers(cache', N, B, UsedKeys(cache, use), key)
           /\ Contains(UsedKeys(cache, use), key)
<1> DEFINE lru == UsedKeys(cache, use)
<1>1. PICK new : new = cache'
  BY Zenon
<1>2. Hits(key) # {} /\ new = push_front_lru(unlink_lru(cache, Hit(key)), Hit(key))
  BY <1>1, Zenon DEF FindDuplicate
<1>3. PICK k \in 1 .. Len(use) : Hit(key) = use[k] /\ cache.key[use[k]] = key
  BY <1>2, Lookup
<1>4. new = push_front_lru(unlink_lru(cache, use[k]), use[k])
  BY <1>2, <1>3, Zenon
<1>5. Good(hash, new, N, B, Fronted(Without(use, k), use[k]), free) /\ new.key = cache.key
  BY <1>4, GoodUse
<1>6. Lists(cache, N, use, free) /\ Chains(hash, cache, N, B, OccupiedIn(cache, N))
  BY Zenon DEF Good
<1>7. Listing(use, 0 .. N - 1)
  BY <1>6, Zenon DEF Lists
<1>8. Len(lru) = Len(use) /\ Len(use) \in Nat /\ \A n \in 1 .. Len(use) : lru[n] = cache.key[use[n]]
  BY <1>7, UsedKeysOf
<1>9. ASSUME NEW n \in 1 .. Len(use), lru[n] = key PROVE n = k
  <2>1. use[n] \in OccupiedIn(cache, N) /\ use[k] \in OccupiedIn(cache, N)
    <3>1. use[n] \in 0 .. N - 1 /\ use[k] \in 0 .. N - 1
      BY <1>7 DEF Listing
    <3>2. IsIn(use[n], use) /\ IsIn(use[k], use)
      BY Zenon DEF IsIn
    <3> QED
      BY <1>6, <3>1, <3>2, Zenon DEF Lists, OccupiedIn
  <2>2. use[n] = use[k]
    BY <1>3, <1>6, <1>8, <1>9, <2>1, Zenon DEF Chains
  <2> QED
    BY <1>7, <2>2, Zenon DEF Listing
<1> HIDE DEF lru
<1>10. Contains(lru, key) /\ Remember(lru, key, N) = Shifted(lru, key, k, Len(use))
  <2>1. OnlyAt(lru, k, key)
    BY <1>3, <1>8, <1>9, Zenon DEF OnlyAt
  <2>2. Len(lru) \in Nat /\ k \in 1 .. Len(lru)
    BY <1>8, Zenon
  <2>3. Contains(lru, key) /\ Remember(lru, key, N) = Shifted(lru, key, k, Len(lru))
    BY <2>1, <2>2, RememberSeen
  <2> QED
    BY <1>8, <2>3, Zenon
<1>11. UsedKeys(new, Fronted(Without(use, k), use[k])) = Remember(lru, key, N)
  <2>1. Rekeyed(cache, new, use[k], key, N)
    BY <1>3, <1>5, Zenon DEF Rekeyed
  <2>2. UsedKeys(new, Fronted(Without(use, k), use[k])) = Shifted(lru, key, k, Len(use))
    <3>1. MovesUp(cache, new, use, k, key)
      BY <1>7, <2>1, RecentKeys, Zenon
    <3> QED
      BY <3>1, Zenon DEF MovesUp, lru
  <2> QED
    BY <1>10, <2>2, Zenon
<1>12. Answers(new, N, B, lru, key)
  BY <1>5, <1>11, Zenon DEF Answers
<1> QED
  BY <1>1, <1>10, <1>12, Zenon DEF lru

\* A key that no node holds is none of the keys of use.
LEMMA NotUsed ==
    ASSUME NEW h, NEW N \in Nat, NEW B, NEW c, NEW use, NEW free, Good(h, c, N, B, use, free),
           NEW key, \A j \in OccupiedIn(c, N) : c.key[j] # key
    PROVE  ~ Contains(UsedKeys(c, use), key)
<1>1. Lists(c, N, use, free)
  BY Zenon DEF Good
<1>2. Listing(use, 0 .. N - 1)
  BY <1>1, Zenon DEF Lists
<1>3. Len(UsedKeys(c, use)) = Len(use) /\ \A n \in 1 .. Len(use) : UsedKeys(c, use)[n] = c.key[use[n]]
  BY <1>2, UsedKeysOf
<1>4. ASSUME NEW n \in 1 .. Len(use) PROVE use[n] \in OccupiedIn(c, N)
  <2>1. use[n] \in 0 .. N - 1
    BY <1>2 DEF Listing
  <2>2. IsIn(use[n], use)
    BY Zenon DEF IsIn
  <2> QED
    BY <1>1, <2>1, <2>2, Zenon DEF Lists, OccupiedIn
<1> QED
  BY <1>3, <1>4, Zenon DEF Contains

LEMMA InsertStep ==
    ASSUME hash \in [Keys -> Nat], NEW N \in Nat \ {0}, NEW B \in Nat \ {0}, NEW use, NEW free,
           Good(hash, cache, N, B, use, free), NEW key \in Keys, InsertInFreeNode(key)
    PROVE  /\ Answers(cache', N, B, UsedKeys(cache, use), key)
           /\ ~ Contains(UsedKeys(cache, use), key)
<1> DEFINE lru == UsedKeys(cache, use)
           i == cache.free_head
           S == OccupiedIn(cache, N)
           c == Taken(cache)
<1>1. PICK new : new = cache'
  BY Zenon
<1>2. Hits(key) = {} /\ i # kInvalid /\ new = Occupy(c, i, key)
  BY <1>1, Zenon DEF InsertInFreeNode, Taken
<1>3. \A j \in S : cache.key[j] # key
  BY <1>2, Lookup
<1>4. /\ c \in CacheType(N, B) /\ c.key = cache.key
      /\ Detached(c, N, use, Without(free, 1), i)
      /\ OccupiedIn(c, N) \ {i} = S /\ Chains(hash, c, N, B, S) /\ Len(use) < N
  <2>1. TakenFrom(hash, cache, c, N, B, use, free)
    BY <1>2, GoodTake, Zenon
  <2> QED
    BY <2>1, Zenon DEF TakenFrom
<1> HIDE DEF c, i, S
<1>5. S = OccupiedIn(c, N) \ {i} /\ \A j \in S : c.key[j] # key
  BY <1>3, <1>4, Zenon
<1>6. /\ Good(hash, new, N, B, Fronted(use, i), Without(free, 1))
      /\ new.key[i] = key /\ \A j \in 0 .. N - 1 : j # i => new.key[j] = c.key[j]
  BY <1>2, <1>4, <1>5, GoodOccupy
<1>7. Listing(use, 0 .. N - 1) /\ i \in 0 .. N - 1 /\ ~ IsIn(i, use)
  BY <1>4, Zenon DEF Detached
<1>8. ~ Contains(lru, key)
  BY <1>3, NotUsed, Zenon DEF S
<1>9. Len(lru) = Len(use) /\ Len(use) \in Nat
  BY <1>7, UsedKeysOf
<1> HIDE DEF lru
<1>10. Remember(lru, key, N) = Shifted(lru, key, Len(use) + 1, Len(use) + 1)
  <2>1. Len(lru) \in Nat /\ Len(lru) < N
    BY <1>4, <1>9, Zenon
  <2>2. Remember(lru, key, N) = Shifted(lru, key, Len(lru) + 1, Len(lru) + 1)
    BY <1>8, <2>1, RememberNew, Zenon
  <2> QED
    BY <1>9, <2>2, Zenon
<1>11. UsedKeys(new, Fronted(use, i)) = Remember(lru, key, N)
  <2>1. Rekeyed(cache, new, i, key, N)
    BY <1>4, <1>6, Zenon DEF Rekeyed
  <2>2. UsedKeys(new, Fronted(use, i)) = Shifted(lru, key, Len(use) + 1, Len(use) + 1)
    BY <1>7, <2>1, NewKeys DEF lru
  <2> QED
    BY <1>10, <2>2, Zenon
<1>12. Answers(new, N, B, lru, key)
  BY <1>6, <1>11, Zenon DEF Answers
<1> QED
  BY <1>1, <1>8, <1>12, Zenon DEF lru

LEMMA EvictStep ==
    ASSUME hash \in [Keys -> Nat], NEW N \in Nat \ {0}, NEW B \in Nat \ {0}, NEW use, NEW free,
           Good(hash, cache, N, B, use, free), NEW key \in Keys, InsertEvicting(key)
    PROVE  /\ Answers(cache', N, B, UsedKeys(cache, use), key)
           /\ ~ Contains(UsedKeys(cache, use), key)
<1> DEFINE lru == UsedKeys(cache, use)
           i == cache.lru_tail
           S == OccupiedIn(cache, N)
           c == unlink_lru(remove_from_bucket(cache, i), i)
<1>1. PICK new : new = cache'
  BY Zenon
<1>2. Hits(key) = {} /\ cache.free_head = kInvalid /\ new = Occupy(c, i, key)
  BY <1>1, Zenon DEF InsertEvicting
<1>3. \A j \in S : cache.key[j] # key
  BY <1>2, Lookup
<1>4. /\ c \in CacheType(N, B) /\ c.key = cache.key /\ Len(use) = N /\ i = use[N]
      /\ Detached(c, N, Without(use, N), free, i)
      /\ OccupiedIn(c, N) = S /\ Chains(hash, c, N, B, S \ {i})
  <2>1. EvictedFrom(hash, cache, c, N, B, use, free)
    BY <1>2, GoodEvict, Zenon
  <2> QED
    BY <2>1, Zenon DEF EvictedFrom
<1> HIDE DEF c, i, S
<1>5. PICK T : T = OccupiedIn(c, N) \ {i}
  BY Zenon
<1>6. Chains(hash, c, N, B, T) /\ \A j \in T : c.key[j] # key
  BY <1>3, <1>4, <1>5, Zenon
<1>7. /\ Good(hash, new, N, B, Fronted(Without(use, N), i), free)
      /\ new.key[i] = key /\ \A j \in 0 .. N - 1 : j # i => new.key[j] = c.key[j]
  BY <1>2, <1>4, <1>5, <1>6, GoodOccupy
<1>8. Listing(use, 0 .. N - 1)
  BY Zenon DEF Good, Lists
<1>9. ~ Contains(lru, key)
  BY <1>3, NotUsed, Zenon DEF S
<1>10. Len(lru) = N
  <2>1. Len(lru) = Len(use)
    BY <1>8, UsedKeysOf
  <2> QED
    BY <1>4, <2>1, Zenon
<1> HIDE DEF lru
<1>11. Remember(lru, key, N) = Shifted(lru, key, N, N)
  BY <1>9, <1>10, RememberFull, Zenon
<1>12. UsedKeys(new, Fronted(Without(use, N), i)) = Remember(lru, key, N)
  <2>1. Rekeyed(cache, new, use[N], key, N)
    BY <1>4, <1>7, Zenon DEF Rekeyed
  <2>2. N \in 1 .. Len(use)
    BY <1>4
  <2>3. UsedKeys(new, Fronted(Without(use, N), use[N])) = Shifted(lru, key, N, Len(use))
    <3>1. MovesUp(cache, new, use, N, key)
      BY <1>8, <2>1, <2>2, RecentKeys, Zenon
    <3> QED
      BY <3>1, Zenon DEF MovesUp, lru
  <2> QED
    BY <1>4, <1>11, <2>3, Zenon
<1>13. Answers(new, N, B, lru, key)
  BY <1>7, <1>12, Zenon DEF Answers
<1> QED
  BY <1>1, <1>9, <1>13, Zenon DEF lru

----------------------------------------------------------------------------
(* The theorems. *)

\* The constructor's free list has every node, and every chain is empty.
LEMMA GoodInit ==
    ASSUME NEW h, NEW requested \in Nat
    PROVE  \E N, B \in Nat \ {0} : \E use, free :
              /\ Good(h, Construct(requested), N, B, use, free)
              /\ UsedKeys(Construct(requested), use) = <<>>
<1> DEFINE N == IF requested < 1 THEN 1 ELSE requested
           B == bit_ceil(2 * N)
           D == 0 .. N - 1
           c == Construct(requested)
           use == <<>>
           free == [n \in 1 .. N |-> n - 1]
<1>1. N \in Nat \ {0}
  OBVIOUS
<1>2. c = [key |-> [i \in D |-> NoKey],
           occupied |-> [i \in D |-> FALSE],
           prev |-> [i \in D |-> kInvalid],
           next |-> [i \in D |-> IF i + 1 < N THEN i + 1 ELSE kInvalid],
           hash_next |-> [i \in D |-> kInvalid],
           buckets |-> [b \in 0 .. B - 1 |-> kInvalid],
           lru_head |-> kInvalid, lru_tail |-> kInvalid, free_head |-> 0, size |-> 0]
  BY Zenon DEF Construct
<1>3. B \in Nat \ {0}
  <2>1. 2 * N \in Nat
    BY <1>1
  <2> HIDE DEF N
  <2> QED
    BY <2>1, BitCeilPositive
<1> HIDE DEF N, B, c
<1>4. c \in CacheType(N, B)
  <2> DEFINE Link == D \cup {kInvalid}
  <2>1. 0 \in Link /\ kInvalid \in Link /\ 0 \in Nat
    BY <1>1
  <2>2. [i \in D |-> IF i + 1 < N THEN i + 1 ELSE kInvalid] \in [D -> Link]
    BY <1>1
  <2>3. /\ [i \in D |-> NoKey] \in [D -> Keys \cup {NoKey}] /\ [i \in D |-> FALSE] \in [D -> BOOLEAN]
        /\ [i \in D |-> kInvalid] \in [D -> Link] /\ [b \in 0 .. B - 1 |-> kInvalid] \in [0 .. B - 1 -> Link]
    BY Zenon
  <2> QED
    BY <1>2, <2>1, <2>2, <2>3, Zenon DEF CacheType
<1>5. /\ c.occupied = [i \in D |-> FALSE] /\ c.hash_next = [i \in D |-> kInvalid]
      /\ c.buckets = [b \in 0 .. B - 1 |-> kInvalid] /\ c.lru_head = kInvalid /\ c.lru_tail = kInvalid
      /\ c.free_head = 0 /\ c.size = 0
      /\ c.next = [i \in D |-> IF i + 1 < N THEN i + 1 ELSE kInvalid]
  BY <1>2
<1>6. Listing(use, D) /\ Len(use) = 0 /\ (\A j : ~ IsIn(j, use)) /\ \A n : Nth(use, n) = kInvalid
  BY DEF Listing, IsIn, Nth
<1>7. ASSUME NEW link PROVE Along(link, kInvalid, use)
  BY <1>6 DEF Along
<1>8. Doubly(c.next, c.prev, c.lru_head, c.lru_tail, use)
  <2>1. Reversed(use) = use
    BY <1>6 DEF Reversed
  <2> QED
    BY <1>5, <1>7, <2>1, Zenon DEF Doubly
<1>9. /\ Listing(free, D) /\ Len(free) = N /\ \A n \in 1 .. N : free[n] = n - 1
  <2>1. free \in [1 .. N -> D]
    BY <1>1
  <2>2. free \in Seq(D) /\ Len(free) = N
    BY <1>1, <2>1
  <2>3. \A n \in 1 .. N : free[n] = n - 1
    OBVIOUS
  <2> HIDE DEF free, D
  <2>4. \A m, n \in 1 .. N : free[m] = free[n] => m = n
    BY <1>1, <2>3
  <2> QED
    BY <2>2, <2>3, <2>4, Zenon DEF Listing
<1> HIDE DEF free
<1>10. \A j \in D : IsIn(j, free)
  <2>1. \A j \in D : j + 1 \in 1 .. N /\ (j + 1) - 1 = j
    BY <1>1
  <2> QED
    BY <1>9, <2>1 DEF IsIn
<1>11. Along(c.next, c.free_head, free)
  <2>1. \A n \in Int : Nth(free, n) = IF n \in 1 .. N THEN n - 1 ELSE kInvalid
    BY <1>9 DEF Nth
  <2>2. c.free_head = Nth(free, 1)
    BY <1>1, <1>5, <2>1
  <2>3. ASSUME NEW n \in 1 .. N PROVE c.next[free[n]] = Nth(free, n + 1)
    <3>1. /\ n - 1 \in D /\ (n - 1) + 1 = n /\ (n + 1) - 1 = n /\ n + 1 \in Int
          /\ n < N <=> n + 1 \in 1 .. N
      BY <1>1
    <3>2. free[n] = n - 1
      BY <1>9, Zenon
    <3>3. c.next[n - 1] = IF (n - 1) + 1 < N THEN (n - 1) + 1 ELSE kInvalid
      BY <1>5, <3>1, Zenon
    <3>4. Nth(free, n + 1) = IF n + 1 \in 1 .. N THEN (n + 1) - 1 ELSE kInvalid
      BY <2>1, <3>1, Zenon
    <3> QED
      BY <3>1, <3>2, <3>3, <3>4, Zenon
  <2> QED
    BY <1>9, <2>2, <2>3, Zenon DEF Along
<1>12. Lists(c, N, use, free)
  <2>1. Len(use) + Len(free) = N /\ c.size = Len(use)
    BY <1>1, <1>5, <1>6, <1>9
  <2>2. \A j \in D : ~ c.occupied[j]
    BY <1>5, Zenon
  <2> HIDE DEF use
  <2> QED
    BY <1>6, <1>8, <1>9, <1>10, <1>11, <2>1, <2>2, Zenon DEF Lists
<1>13. Chains(h, c, N, B, OccupiedIn(c, N))
  <2>1. OccupiedIn(c, N) = {}
    BY <1>5, Zenon DEF OccupiedIn
  <2>2. ASSUME NEW b \in 0 .. B - 1 PROVE HasChain(c.hash_next, c.buckets[b], Home(h, B, c, {}, b), N)
    <3>1. c.buckets[b] = kInvalid
      BY <1>5, Zenon
    <3>2. Home(h, B, c, {}, b) = {}
      BY Zenon DEF Home
    <3> HIDE DEF use
    <3> QED
      BY <1>6, <1>7, <3>1, <3>2, Zenon DEF HasChain
  <2> QED
    BY <2>1, <2>2, Zenon DEF Chains
<1>14. Good(h, c, N, B, use, free)
  BY <1>4, <1>12, <1>13, Zenon DEF Good
<1>15. UsedKeys(c, use) = <<>>
  BY <1>6 DEF UsedKeys
<1> HIDE DEF use
<1> QED
  BY <1>1, <1>3, <1>14, <1>15, Zenon DEF c

LEMMA CacheInvInit ==
    ASSUME Init
    PROVE  CacheInv
<1>1. PICK requested \in Capacities : cache = Construct(requested)
  BY Zenon DEF Init
<1>2. requested \in Nat
  BY CacheAssumption, Zenon
<1>3. hash \in [Keys -> Nat]
  BY CacheAssumption, Zenon DEF Init
<1> QED
  BY <1>1, <1>2, <1>3, GoodInit, Zenon DEF CacheInv

\* A call with any key.
LEMMA CallStep ==
    ASSUME hash \in [Keys -> Nat], NEW N \in Nat \ {0}, NEW B \in Nat \ {0}, NEW use, NEW free,
           Good(hash, cache, N, B, use, free), NEW key \in Keys,
           FindDuplicate(key) \/ InsertInFreeNode(key) \/ InsertEvicting(key)
    PROVE  /\ Answers(cache', N, B, UsedKeys(cache, use), key)
           /\ duplicate' = Contains(UsedKeys(cache, use), key)
           /\ asked' = key /\ hash' = hash
<1>1. CASE FindDuplicate(key)
  <2>1. Answers(cache', N, B, UsedKeys(cache, use), key) /\ Contains(UsedKeys(cache, use), key)
    BY <1>1, FindStep
  <2>2. Contains(UsedKeys(cache, use), key) = TRUE
    BY <2>1, Zenon DEF Contains
  <2> QED
    BY <1>1, <2>1, <2>2, Zenon DEF FindDuplicate
<1>2. CASE InsertInFreeNode(key)
  <2>1. Answers(cache', N, B, UsedKeys(cache, use), key) /\ ~ Contains(UsedKeys(cache, use), key)
    BY <1>2, InsertStep
  <2>2. Contains(UsedKeys(cache, use), key) = FALSE
    BY <2>1, Zenon DEF Contains
  <2> QED
    BY <1>2, <2>1, <2>2, Zenon DEF InsertInFreeNode
<1>3. CASE InsertEvicting(key)
  <2>1. Answers(cache', N, B, UsedKeys(cache, use), key) /\ ~ Contains(UsedKeys(cache, use), key)
    BY <1>3, EvictStep
  <2>2. Contains(UsedKeys(cache, use), key) = FALSE
    BY <2>1, Zenon DEF Contains
  <2> QED
    BY <1>3, <2>1, <2>2, Zenon DEF InsertEvicting
<1> QED
  BY <1>1, <1>2, <1>3, Zenon

LEMMA CacheInvStep ==
    ASSUME CacheInv, [Next]_vars
    PROVE  CacheInv'
<1>1. hash \in [Keys -> Nat]
  BY Zenon DEF CacheInv
<1>sizes. PICK N \in Nat \ {0}, B \in Nat \ {0} :
             \E use, free : Good(hash, cache, N, B, use, free)
  BY Zenon DEF CacheInv
<1>2. PICK use, free : Good(hash, cache, N, B, use, free)
  BY <1>sizes, Zenon
<1>3. CASE Next
  <2>1. PICK key \in Keys : FindDuplicate(key) \/ InsertInFreeNode(key) \/ InsertEvicting(key)
    BY <1>3, Zenon DEF Next
  <2>2. Answers(cache', N, B, UsedKeys(cache, use), key) /\ hash' = hash
    BY <1>1, <1>2, <2>1, CallStep
  <2>3. PICK use2, free2 : Good(hash, cache', N, B, use2, free2)
    BY <2>2, Zenon DEF Answers
  <2>4. Good(hash', cache', N, B, use2, free2)
    BY <2>2, <2>3, Zenon
  <2> QED
    BY <1>1, <2>2, <2>4, Zenon DEF CacheInv
<1>4. CASE UNCHANGED vars
  BY <1>1, <1>2, <1>4, Zenon DEF CacheInv, vars
<1> QED
  BY <1>3, <1>4, Zenon

\* In every state there are the two lists and the chains of Good, for the node
\* array the constructor made.
THEOREM CacheInvariant == Spec => []CacheInv
<1>1. Init => CacheInv
  BY CacheInvInit
<1>2. CacheInv /\ [Next]_vars => CacheInv'
  BY CacheInvStep
<1> QED
  BY <1>1, <1>2, PTL DEF Spec

\* The loops over the lists visit them.
LEMMA Visited ==
    ASSUME NEW N \in Nat \ {0}, NEW B \in Nat \ {0}, NEW use, NEW free,
           Good(hash, cache, N, B, use, free)
    PROVE  /\ Nodes = 0 .. N - 1 /\ Cardinality(Nodes) = N
           /\ ListOfUse = use /\ FreeList = free /\ Walk(cache.prev, cache.lru_tail) = Reversed(use)
<1>1. cache \in CacheType(N, B) /\ Lists(cache, N, use, free)
  BY Zenon DEF Good
<1>2. /\ Nodes = 0 .. N - 1 /\ DOMAIN cache.next = 0 .. N - 1 /\ DOMAIN cache.prev = 0 .. N - 1
  BY <1>1 DEF CacheType, Nodes
<1>3. Cardinality(0 .. N - 1) = N
  BY FS_Interval
<1>4. /\ Listing(use, 0 .. N - 1) /\ Listing(free, 0 .. N - 1)
      /\ Along(cache.next, cache.lru_head, use) /\ Along(cache.next, cache.free_head, free)
      /\ Along(cache.prev, cache.lru_tail, Reversed(use))
  BY <1>1, Zenon DEF Lists, Doubly
<1>5. Listing(Reversed(use), 0 .. N - 1)
  BY <1>4, ReversedIsListing
<1>6. ListOfUse = use
  BY <1>2, <1>4, WalkAlong, Zenon DEF ListOfUse
<1>7. FreeList = free
  BY <1>2, <1>4, WalkAlong, Zenon DEF FreeList
<1>8. Walk(cache.prev, cache.lru_tail) = Reversed(use)
  BY <1>2, <1>4, <1>5, WalkAlong, Zenon
<1> QED
  BY <1>2, <1>3, <1>6, <1>7, <1>8, Zenon

LEMMA RangeOf ==
    ASSUME NEW D, NEW s, Listing(s, D)
    PROVE  \A i : i \in Range(s) <=> IsIn(i, s)
<1>1. DOMAIN s = 1 .. Len(s)
  BY DEF Listing
<1> QED
  BY <1>1, Zenon DEF Range, IsIn

\* ListsPartitionNodes, for any keys, hash function and capacity: the free list
\* and the list of use share next and never a node, nor do they lose one.
THEOREM ListsStayWhole == Spec => []ListsPartitionNodes
<1>1. ASSUME CacheInv PROVE ListsPartitionNodes
  <2>sizes. PICK N \in Nat \ {0}, B \in Nat \ {0} :
               \E use, free : Good(hash, cache, N, B, use, free)
    BY <1>1, Zenon DEF CacheInv
  <2>1. PICK use, free : Good(hash, cache, N, B, use, free)
    BY <2>sizes, Zenon
  <2>2. /\ Nodes = 0 .. N - 1 /\ Cardinality(Nodes) = N
        /\ ListOfUse = use /\ FreeList = free /\ Walk(cache.prev, cache.lru_tail) = Reversed(use)
    BY <2>1, Visited
  <2>3. Lists(cache, N, use, free)
    BY <2>1, Zenon DEF Good
  <2>4. /\ Listing(use, 0 .. N - 1) /\ Listing(free, 0 .. N - 1)
        /\ \A j \in 0 .. N - 1 :
              (IsIn(j, use) <=> cache.occupied[j]) /\ (IsIn(j, free) <=> ~ cache.occupied[j])
        /\ Len(use) + Len(free) = N /\ cache.size = Len(use)
    BY <2>3, Zenon DEF Lists
  <2>5. (\A i : i \in Range(use) <=> IsIn(i, use)) /\ (\A i : i \in Range(free) <=> IsIn(i, free))
    BY <2>4, RangeOf, Zenon
  <2>6. \A i : IsIn(i, use) \/ IsIn(i, free) => i \in 0 .. N - 1
    BY <2>4 DEF IsIn, Listing
  <2>7. Range(use) \cup Range(free) = 0 .. N - 1
    BY <2>4, <2>5, <2>6, Zenon
  <2>8. Range(use) = {i \in 0 .. N - 1 : cache.occupied[i]}
    BY <2>4, <2>5, <2>6, Zenon
  <2> QED
    BY <2>2, <2>4, <2>7, <2>8, Zenon DEF ListsPartitionNodes, Reversed
<1> QED
  BY <1>1, CacheInvariant, PTL

\* ChainsHoldOccupied, for any keys, hash function and capacity: however keys
\* collide, a chain ends and holds its bucket's occupied nodes, once each.
THEOREM ChainsStayExact == Spec => []ChainsHoldOccupied
<1>1. ASSUME CacheInv PROVE ChainsHoldOccupied
  <2>sizes. PICK N \in Nat \ {0}, B \in Nat \ {0} :
               \E use, free : Good(hash, cache, N, B, use, free)
    BY <1>1, Zenon DEF CacheInv
  <2>1. PICK use, free : Good(hash, cache, N, B, use, free)
    BY <2>sizes, Zenon
  <2> DEFINE S == OccupiedIn(cache, N)
  <2>2. Nodes = 0 .. N - 1 /\ ListOfUse = use
    BY <2>1, Visited
  <2>3. cache \in CacheType(N, B) /\ Lists(cache, N, use, free) /\ Chains(hash, cache, N, B, S)
    BY <2>1, Zenon DEF Good
  <2>4. DOMAIN cache.buckets = 0 .. B - 1 /\ DOMAIN cache.hash_next = 0 .. N - 1
    BY <2>3 DEF CacheType
  <2>5. ASSUME NEW i \in S PROVE bucket_for(cache, cache.key[i]) = hash[cache.key[i]] % B
    <3>1. cache.key[i] \in Keys /\ hash \in [Keys -> Nat]
      BY <1>1, <2>3, <2>5, Zenon DEF Chains, CacheInv
    <3> QED
      BY <2>3, <3>1, BucketOf
  <2>6. ASSUME NEW b \in DOMAIN cache.buckets
        PROVE  /\ Range(Chain(b)) =
                     {i \in Nodes : cache.occupied[i] /\ bucket_for(cache, cache.key[i]) = b}
               /\ Len(Chain(b)) = Cardinality(Range(Chain(b)))
    <3>1. PICK s : /\ Listing(s, 0 .. N - 1) /\ Along(cache.hash_next, cache.buckets[b], s)
                   /\ \A j : IsIn(j, s) <=> j \in Home(hash, B, cache, S, b)
      BY <2>3, <2>4, <2>6, Zenon DEF Chains, HasChain
    <3>2. Chain(b) = s
      BY <2>4, <3>1, WalkAlong, Zenon DEF Chain
    <3>3. \A i : i \in Range(s) <=> IsIn(i, s)
      BY <3>1, RangeOf, Zenon
    <3>4. Range(s) = Home(hash, B, cache, S, b)
      BY <3>1, <3>3, Zenon
    <3>5. Home(hash, B, cache, S, b) =
             {i \in Nodes : cache.occupied[i] /\ bucket_for(cache, cache.key[i]) = b}
      <4>1. \A i : i \in Home(hash, B, cache, S, b) <=> i \in S /\ bucket_for(cache, cache.key[i]) = b
        BY <2>5, Zenon DEF Home
      <4>2. \A i : i \in S <=> i \in Nodes /\ cache.occupied[i]
        BY <2>2, Zenon DEF OccupiedIn
      <4> HIDE DEF S
      <4> QED
        BY <4>1, <4>2, Zenon
    <3>6. Len(s) = Cardinality(Range(s))
      BY <3>1, ListSize
    <3> QED
      BY <3>2, <3>4, <3>5, <3>6, Zenon
  <2>7. ASSUME NEW i \in Range(ListOfUse), NEW j \in Range(ListOfUse), cache.key[i] = cache.key[j]
        PROVE  i = j
    <3>1. Listing(use, 0 .. N - 1)
      BY <2>3, Zenon DEF Lists
    <3>2. IsIn(i, use) /\ IsIn(j, use)
      BY <2>2, <2>7, <3>1, RangeOf, Zenon
    <3>3. i \in 0 .. N - 1 /\ j \in 0 .. N - 1
      BY <3>1, <3>2 DEF IsIn, Listing
    <3>4. i \in S /\ j \in S
      BY <2>3, <3>2, <3>3, Zenon DEF Lists, OccupiedIn
    <3> QED
      BY <2>3, <2>7, <3>4, Zenon DEF Chains
  <2> QED
    BY <2>6, <2>7, Zenon DEF ChainsHoldOccupied
<1> QED
  BY <1>1, CacheInvariant, PTL

----------------------------------------------------------------------------

\* The mapping of ImplementsSeenKeys, in terms of the list of use.
MapsTo(c, N, lru) ==
    LET list == Walk(c.next, c.lru_head)
    IN  /\ Cardinality(DOMAIN c.key) = N
        /\ [n \in 1 .. Len(list) |-> c.key[list[n]]] = lru

LEMMA MappedKeys ==
    ASSUME NEW h, NEW N \in Nat \ {0}, NEW B \in Nat \ {0}, NEW c, NEW use, NEW free,
           Good(h, c, N, B, use, free)
    PROVE  MapsTo(c, N, UsedKeys(c, use))
<1>1. c \in CacheType(N, B) /\ Lists(c, N, use, free)
  BY Zenon DEF Good
<1>2. DOMAIN c.key = 0 .. N - 1 /\ DOMAIN c.next = 0 .. N - 1
  BY <1>1 DEF CacheType
<1>3. Cardinality(0 .. N - 1) = N
  BY FS_Interval
<1>4. Listing(use, 0 .. N - 1) /\ Along(c.next, c.lru_head, use)
  BY <1>1, Zenon DEF Lists, Doubly
<1>5. Walk(c.next, c.lru_head) = use
  BY <1>2, <1>4, WalkAlong, Zenon
<1> QED
  BY <1>2, <1>3, <1>5, Zenon DEF MapsTo, UsedKeys

LEMMA SameRemember ==
    /\ \A lru, key : Abstract!Contains(lru, key) = Contains(lru, key)
    /\ \A lru, key, capacity : Abstract!Remember(lru, key, capacity) = Remember(lru, key, capacity)
  BY Zenon DEF Contains, Abstract!Contains, Place, Abstract!Place, Remember, Abstract!Remember

\* ImplementsSeenKeys, for any keys, hash function and capacity: a call answers
\* whether the key is among the last capacity distinct ones used, and makes it
\* the most recent, evicting only when the cache is full.
THEOREM CacheRefinesSeenKeys == Spec => ImplementsSeenKeys
<1>1. ASSUME Init PROVE Abstract!Init
  <2>1. PICK requested \in Capacities : cache = Construct(requested)
    BY <1>1, Zenon DEF Init
  <2>2. requested \in Nat
    BY CacheAssumption, Zenon
  <2>sizes. PICK N \in Nat \ {0}, B \in Nat \ {0} :
               \E use, free : Good(hash, cache, N, B, use, free) /\ UsedKeys(cache, use) = <<>>
    BY <2>1, <2>2, GoodInit, Zenon
  <2>3. PICK use, free : Good(hash, cache, N, B, use, free) /\ UsedKeys(cache, use) = <<>>
    BY <2>sizes, Zenon
  <2>4. /\ Cardinality(Nodes) = N
        /\ [n \in 1 .. Len(ListOfUse) |-> cache.key[ListOfUse[n]]] = <<>>
    <3>1. MapsTo(cache, N, UsedKeys(cache, use))
      BY <2>3, MappedKeys, Zenon
    <3> QED
      BY <2>3, <3>1, Zenon DEF MapsTo, Nodes, ListOfUse
  <2> QED
    BY <1>1, <2>4, Zenon DEF Init, Abstract!Init, NoKey, Abstract!NoKey
<1>2. ASSUME CacheInv, CacheInv', [Next]_vars PROVE [Abstract!Next]_Abstract!vars
  <2>1. hash \in [Keys -> Nat]
    BY <1>2, Zenon DEF CacheInv
  <2>sizes. PICK N \in Nat \ {0}, B \in Nat \ {0} :
               \E use, free : Good(hash, cache, N, B, use, free)
    BY <1>2, Zenon DEF CacheInv
  <2>2. PICK use, free : Good(hash, cache, N, B, use, free)
    BY <2>sizes, Zenon
  <2> DEFINE lru == UsedKeys(cache, use)
  <2>3. /\ Cardinality(Nodes) = N
        /\ [n \in 1 .. Len(ListOfUse) |-> cache.key[ListOfUse[n]]] = lru
    <3>1. MapsTo(cache, N, lru)
      BY <2>2, MappedKeys, Zenon
    <3> QED
      BY <3>1, Zenon DEF MapsTo, Nodes, ListOfUse
  <2>4. CASE Next
    <3>1. PICK key \in Keys : FindDuplicate(key) \/ InsertInFreeNode(key) \/ InsertEvicting(key)
      BY <2>4, Zenon DEF Next
    <3>2. Answers(cache', N, B, lru, key) /\ duplicate' = Contains(lru, key) /\ asked' = key /\ hash' = hash
      BY <2>1, <2>2, <3>1, CallStep
    <3>3. PICK use2, free2 : /\ Good(hash, cache', N, B, use2, free2)
                             /\ UsedKeys(cache', use2) = Remember(lru, key, N)
      BY <3>2, Zenon DEF Answers
    <3>4. MapsTo(cache', N, UsedKeys(cache', use2))
      BY <3>3, MappedKeys, Zenon
    <3>5. /\ Cardinality(Nodes)' = N
          /\ [n \in 1 .. Len(ListOfUse) |-> cache.key[ListOfUse[n]]]' = Remember(lru, key, N)
      BY <3>3, <3>4, Zenon DEF MapsTo, Nodes, ListOfUse
    <3> HIDE DEF lru
    <3>6. Abstract!CheckAndInsert(key)
      BY <2>3, <3>2, <3>5, SameRemember, Zenon DEF Abstract!CheckAndInsert
    <3> QED
      BY <3>1, <3>6, Zenon DEF Abstract!Next
  <2>5. CASE UNCHANGED vars
    BY <2>5, Zenon DEF vars, Abstract!vars, Nodes, ListOfUse
  <2> QED
    BY <1>2, <2>4, <2>5, Zenon
<1> QED
  BY <1>1, <1>2, CacheInvariant, PTL DEF Spec, ImplementsSeenKeys, Abstract!Spec

=============================================================================
