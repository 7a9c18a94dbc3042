------------------------------- MODULE NatFacts -------------------------------
(***************************************************************************)
(* Induction and recursion on the natural numbers, stated about sets and    *)
(* functions: to prove P(n) for every n, take S to be the set of those n.   *)
(* The proofs about scans of a table or of a line rest on these facts.      *)
(***************************************************************************)
EXTENDS Integers, WellFoundedInduction, TLAPS

\* A nonempty set of natural numbers has a least element.
LEMMA LeastElement ==
    ASSUME NEW T \in SUBSET Nat, T # {}
    PROVE  \E m \in T : \A n \in T : m <= n
<1> DEFINE R == {ss \in Nat \X Nat : ss[1] < ss[2]}
<1>1. IsWellFoundedOn(R, Nat)
  BY NatLessThanWellFounded DEF OpToRel
<1> HIDE DEF R
<1>2. PICK m \in T : \A n \in T : ~(<<n, m>> \in R)
  BY <1>1, WFMin, Zenon
<1>3. \A n \in T : ~(n < m)
  BY <1>2 DEF R
<1>4. QED
  BY <1>3

\* A nonempty set of natural numbers up to a bound has a greatest element.
LEMMA GreatestElement ==
    ASSUME NEW N \in Nat, NEW T \in SUBSET (0 .. N), T # {}
    PROVE  \E m \in T : \A n \in T : n <= m
<1> DEFINE U == {n \in 0 .. N : N - n \in T}
<1>1. U \in SUBSET Nat /\ U # {}
  <2>1. PICK n \in T : TRUE
    OBVIOUS
  <2>2. N - n \in U
    OBVIOUS
  <2>3. U \subseteq Nat
    OBVIOUS
  <2> HIDE DEF U
  <2>4. QED
    BY <2>2, <2>3
<1>2. PICK k \in U : \A n \in U : k <= n
  BY <1>1, LeastElement
<1>3. N - k \in T
  OBVIOUS
<1>4. ASSUME NEW n \in T PROVE n <= N - k
  <2>1. N - n \in U
    OBVIOUS
  <2>2. k <= N - n
    BY <1>2, <2>1
  <2>3. QED
    BY <2>2
<1>5. QED
  BY <1>3, <1>4

\* A set that holds 0 and, with each number, the next, is all of them.
LEMMA SetInduction ==
    ASSUME NEW S \in SUBSET Nat, 0 \in S, \A n \in S : n + 1 \in S
    PROVE  S = Nat
<1> SUFFICES ASSUME Nat \ S # {} PROVE FALSE
  OBVIOUS
<1>1. PICK m \in Nat \ S : \A n \in Nat \ S : m <= n
  <2>1. Nat \ S \in SUBSET Nat
    OBVIOUS
  <2>2. QED
    BY <2>1, LeastElement
<1>2. m # 0 /\ m - 1 \in Nat
  OBVIOUS
<1>3. m - 1 \in S
  BY <1>1, <1>2
<1>4. QED
  BY <1>3

\* The same up to a bound.
LEMMA BoundedInduction ==
    ASSUME NEW N \in Nat, NEW S, 0 \in S, \A n \in 0 .. N - 1 : n \in S => n + 1 \in S
    PROVE  \A n \in 0 .. N : n \in S
<1> DEFINE T == {n \in Nat : n <= N => n \in S}
<1>1. T \in SUBSET Nat /\ 0 \in T
  OBVIOUS
<1>2. ASSUME NEW n \in T PROVE n + 1 \in T
  OBVIOUS
<1> HIDE DEF T
<1>3. T = Nat
  BY <1>1, <1>2, SetInduction
<1>4. QED
  BY <1>3 DEF T

\* What takes the value of an earlier position to that of the next, and the
\* functions that start from e and take each value from the one before.
Steps(N, D) == [(1 .. N) \X D -> D]

Recurs(f, N, D, e, step) ==
    /\ f \in [0 .. N -> D]
    /\ f[0] = e /\ \A n \in 1 .. N : f[n] = step[<<n, f[n - 1]>>]

\* There is such a function.
LEMMA Recursion ==
    ASSUME NEW N \in Nat, NEW D, NEW e \in D, NEW step \in Steps(N, D)
    PROVE  \E f : Recurs(f, N, D, e, step)
<1> USE DEF Steps
<1> DEFINE Ok(n, f) == f[0] = e /\ \A k \in 1 .. n : f[k] = step[<<k, f[k - 1]>>]
           S == {n \in 0 .. N : \E f \in [0 .. n -> D] : Ok(n, f)}
<1>1. 0 \in S
  <2> DEFINE f == [k \in 0 .. 0 |-> e]
  <2>1. f \in [0 .. 0 -> D] /\ f[0] = e
    OBVIOUS
  <2> HIDE DEF f
  <2>2. QED
    BY <2>1
<1>2. ASSUME NEW n \in 0 .. N - 1, n \in S PROVE n + 1 \in S
  <2>1. PICK f \in [0 .. n -> D] : Ok(n, f)
    BY <1>2
  <2> DEFINE v == step[<<n + 1, f[n]>>]
             g == [k \in 0 .. n + 1 |-> IF k = n + 1 THEN v ELSE f[k]]
  <2>2. v \in D
    <3>1. n + 1 \in 1 .. N /\ f[n] \in D
      OBVIOUS
    <3>2. QED
      BY <3>1
  <2>3. g \in [0 .. n + 1 -> D]
    BY <2>2
  <2>4. g[0] = e
    BY <2>1
  <2>5. ASSUME NEW k \in 1 .. n + 1 PROVE g[k] = step[<<k, g[k - 1]>>]
    <3>1. CASE k = n + 1
      <4>1. g[n + 1] = v /\ g[n] = f[n]
        OBVIOUS
      <4>2. k - 1 = n
        BY <3>1
      <4>3. QED
        BY <3>1, <4>1, <4>2
    <3>2. CASE k # n + 1
      <4>1. k \in 1 .. n /\ k - 1 \in 0 .. n
        BY <3>2
      <4>2. g[k] = f[k] /\ g[k - 1] = f[k - 1]
        BY <4>1
      <4>3. QED
        BY <2>1, <4>1, <4>2
    <3>3. QED
      BY <3>1, <3>2
  <2>6. n + 1 \in 0 .. N
    OBVIOUS
  <2>7. QED
    BY <2>3, <2>4, <2>5, <2>6
<1> HIDE DEF S
<1>3. N \in S
  BY <1>1, <1>2, BoundedInduction
<1>4. QED
  BY <1>3 DEF S, Recurs

\* A set that holds each position all of whose later positions it holds is all of them.
LEMMA BackwardInduction ==
    ASSUME NEW N \in Nat, NEW S, \A i \in 1 .. N : (\A j \in i + 1 .. N : j \in S) => i \in S
    PROVE  \A i \in 1 .. N : i \in S
<1> DEFINE T == {i \in 1 .. N : i \notin S}
<1> SUFFICES ASSUME T # {} PROVE FALSE
  OBVIOUS
<1>1. T \in SUBSET (0 .. N)
  OBVIOUS
<1>2. PICK m \in T : \A n \in T : n <= m
  BY <1>1, GreatestElement
<1>3. ASSUME NEW j \in m + 1 .. N PROVE j \in S
  <2>1. m \in 1 .. N /\ j \in 1 .. N /\ ~(j <= m)
    OBVIOUS
  <2>2. QED
    BY <1>2, <2>1
<1>4. QED
  BY <1>3

\* Functions that take each value from those of the positions behind it.
StepsBack(N, D) == [(1 .. N) \X [1 .. N -> D] -> D]

LooksBehind(N, D, step) ==
    \A i \in 1 .. N : \A f, g \in [1 .. N -> D] :
        (\A j \in i + 1 .. N : f[j] = g[j]) => step[<<i, f>>] = step[<<i, g>>]

\* There is such a function.
LEMMA BackwardRecursion ==
    ASSUME NEW N \in Nat, NEW D, NEW d \in D, NEW step \in StepsBack(N, D), LooksBehind(N, D, step)
    PROVE  \E f \in [1 .. N -> D] : \A i \in 1 .. N : f[i] = step[<<i, f>>]
<1> DEFINE Ok(m, f) == \A i \in 1 .. N : i > N - m => f[i] = step[<<i, f>>]
           S == {m \in 0 .. N : \E f \in [1 .. N -> D] : Ok(m, f)}
<1>1. 0 \in S
  <2> DEFINE f == [i \in 1 .. N |-> d]
  <2>1. f \in [1 .. N -> D]
    OBVIOUS
  <2> HIDE DEF f
  <2>2. Ok(0, f)
    OBVIOUS
  <2>3. QED
    BY <2>1, <2>2
<1>2. ASSUME NEW m \in 0 .. N - 1, m \in S PROVE m + 1 \in S
  <2>1. PICK f \in [1 .. N -> D] : Ok(m, f)
    BY <1>2
  <2> DEFINE k == N - m
             v == step[<<k, f>>]
             g == [i \in 1 .. N |-> IF i = k THEN v ELSE f[i]]
  <2>2. k \in 1 .. N /\ \A i \in 1 .. N : (i > N - (m + 1) <=> i = k \/ i > k)
    OBVIOUS
  <2>3. \A i \in 1 .. N : i > N - m <=> i > k
    OBVIOUS
  <2> HIDE DEF k
  <2>4. v \in D
    BY <2>2 DEF StepsBack
  <2> HIDE DEF v
  <2>5. g \in [1 .. N -> D]
    BY <2>4
  <2>6. /\ g[k] = v
        /\ \A i \in 1 .. N : i > k => g[i] = f[i]
    BY <2>2
  <2> HIDE DEF g
  <2>7. ASSUME NEW i \in 1 .. N, i = k \/ i > k PROVE step[<<i, g>>] = step[<<i, f>>]
    <3>1. \A j \in i + 1 .. N : j \in 1 .. N /\ j > k
      BY <2>2, <2>7
    <3>2. \A j \in i + 1 .. N : g[j] = f[j]
      BY <2>6, <3>1
    <3>3. QED
      BY <2>5, <3>2 DEF LooksBehind
  <2>8. ASSUME NEW i \in 1 .. N, i = k \/ i > k PROVE g[i] = step[<<i, g>>]
    <3>1. CASE i = k
      BY <2>2, <2>6, <2>7, <3>1 DEF v
    <3>2. CASE i > k
      BY <2>1, <2>3, <2>6, <2>7, <3>2
    <3>3. QED
      BY <2>8, <3>1, <3>2
  <2>9. Ok(m + 1, g)
    BY <2>2, <2>8
  <2>10. m + 1 \in 0 .. N
    OBVIOUS
  <2>11. QED
    BY <2>5, <2>9, <2>10
<1> HIDE DEF S
<1>3. N \in S
  BY <1>1, <1>2, BoundedInduction
<1>4. PICK f \in [1 .. N -> D] : Ok(N, f)
  BY <1>3 DEF S
<1>5. \A i \in 1 .. N : i > N - N
  OBVIOUS
<1>6. QED
  BY <1>4, <1>5
=============================================================================
