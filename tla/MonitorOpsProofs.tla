-------------------------- MODULE MonitorOpsProofs --------------------------
(***************************************************************************)
(* Proofs about the two operations of a monitor in main.cpp, for windows   *)
(* of any size.  solveSMT: what the answer is when the table is empty,     *)
(* where it is the right one, and what entries in both directions do to    *)
(* it.  readSegTrace: the names it gives to events, and what it puts into  *)
(* hbSet.                                                                  *)
(***************************************************************************)
EXTENDS SolveSMTInputs, SegmentOps, Induction, FiniteSetTheorems

\* The powers of two.
LEMMA Pow2Def ==
  /\ Pow2 \in [Nat -> Nat]
  /\ Pow2[0] = 1
  /\ \A k \in Nat : Pow2[k + 1] = 2 * Pow2[k]
<1> DEFINE G == [x \in Nat \X Nat |-> 2 * x[1]]
           E(g) == [k \in Nat |-> IF k = 0 THEN 1 ELSE 2 * g[k - 1]]
<1>1. G \in [Nat \X Nat -> Nat]
  OBVIOUS
<1>2. PICK f : RecursNat(f, Nat, 1, G)
  <2>1. 1 \in Nat
    OBVIOUS
  <2> HIDE DEF G
  <2> QED
    BY <1>1, <2>1, RecursionNat
<1>3. ASSUME NEW k \in Nat, k # 0 PROVE f[k] = 2 * f[k - 1]
  <2>1. k - 1 \in Nat /\ (k - 1) + 1 = k
    BY <1>3
  <2>2. f[(k - 1) + 1] = G[<<f[k - 1], (k - 1) + 1>>]
    <3> HIDE DEF G
    <3> QED
      BY <1>2, <2>1 DEF RecursNat
  <2>3. G[<<f[k - 1], k>>] = 2 * f[k - 1]
    BY <1>2, <2>1 DEF RecursNat
  <2> HIDE DEF G
  <2> QED
    BY <2>1, <2>2, <2>3
<1>4. f = E(f)
  BY <1>2, <1>3 DEF RecursNat
<1>5. Pow2 = CHOOSE g : g = E(g)
  BY DEF Pow2
<1>6. Pow2 = E(Pow2)
  <2> HIDE DEF E
  <2> QED
    BY <1>4, <1>5
<1>7. Pow2[0] = 1 /\ \A k \in Nat : k # 0 => Pow2[k] = 2 * Pow2[k - 1]
  BY <1>6
<1>8. \A k \in Nat : Pow2[k + 1] = 2 * Pow2[k]
  <2> SUFFICES ASSUME NEW k \in Nat PROVE Pow2[k + 1] = 2 * Pow2[k]
    OBVIOUS
  <2>1. k + 1 \in Nat /\ k + 1 # 0 /\ (k + 1) - 1 = k
    OBVIOUS
  <2>2. Pow2[k + 1] = 2 * Pow2[(k + 1) - 1]
    BY <1>7, <2>1
  <2> QED
    BY <2>1, <2>2
<1>9. Pow2 \in [Nat -> Nat]
  <2> DEFINE S == {k \in Nat : Pow2[k] \in Nat}
  <2>1. 0 \in S
    BY <1>7
  <2>2. \A k \in Nat : k \in S => k + 1 \in S
    BY <1>8
  <2>3. Nat \subseteq S
    <3> HIDE DEF S
    <3> QED
      BY <2>1, <2>2, Induct
  <2>4. \A k \in Nat : Pow2[k] \in Nat
    BY <2>3
  <2> QED
    BY <1>6, <2>4
<1> QED
  BY <1>7, <1>8, <1>9

\* The levels of Reachable.
LEMMA ReachableDef ==
  ASSUME NEW n \in Nat, NEW entries
  PROVE  LET reach == Reachable(n, entries)
         IN  /\ reach[0] = {0} \cap Allowed(n, entries)
             /\ \A i \in 1 .. n :
                  reach[i] = {v + j : v \in reach[i - 1], j \in EventOrder(n)}
                               \cap Allowed(n, entries)
<1> DEFINE A == Allowed(n, entries)
           After(X) == {v + j : v \in X, j \in EventOrder(n)} \cap A
           d == {0} \cap A
           D == SUBSET A
           G == [x \in D \X (1 .. n) |-> After(x[1])]
           E(g) == [i \in 0 .. n |-> IF i = 0 THEN d ELSE After(g[i - 1])]
           reach == Reachable(n, entries)
<1>1. d \in D /\ G \in [D \X (1 .. n) -> D]
  OBVIOUS
<1>2. reach = CHOOSE g : g = E(g)
  BY DEF Reachable
<1> HIDE DEF reach, After, d, D
<1>3. PICK f : Recurs(f, n, D, d, G)
  <2> HIDE DEF G
  <2> QED
    BY <1>1, Recursion
<1>4. ASSUME NEW i \in 1 .. n PROVE f[i] = After(f[i - 1])
  <2>1. f[i - 1] \in D
    BY <1>3 DEF Recurs
  <2>2. G[<<f[i - 1], i>>] = After(f[i - 1])
    BY <2>1
  <2> HIDE DEF G
  <2> QED
    BY <1>3, <2>2 DEF Recurs
<1>5. f = E(f)
  <2>1. f \in [0 .. n -> D] /\ f[0] = d
    BY <1>3 DEF Recurs
  <2> QED
    BY <1>4, <2>1
<1>6. reach = E(reach)
  <2> HIDE DEF E
  <2> QED
    BY <1>2, <1>5
<1>7. reach[0] = d /\ \A i \in 1 .. n : reach[i] = After(reach[i - 1])
  BY <1>6
<1> QED
  BY <1>7 DEF reach, After, d

-----------------------------------------------------------------------------
\* The types of the inputs.
InputTypeOK ==
  /\ totNumEvents \in Nat \ {0}
  /\ hbEntries \subseteq (Nat \ {0}) \X (Nat \ {0})

\* Inputs keep their types.
LEMMA InputTypes == InputSpec => []InputTypeOK
<1>1. InputInit => InputTypeOK
  BY InputsAssumption DEF InputInit, InputTypeOK
<1>2. InputTypeOK /\ [EnterPair]_inputVars => InputTypeOK'
  BY InputsAssumption DEF InputTypeOK, EnterPair, inputVars
<1> QED
  BY <1>1, <1>2, PTL DEF InputSpec

-----------------------------------------------------------------------------
\* A number below the modulus is its own remainder.
LEMMA SmallRemainder ==
  ASSUME NEW a \in Nat, NEW b \in Nat, a < b
  PROVE  a % b = a
OBVIOUS

\* The first powers.
LEMMA SmallPowers ==
  Pow2[0] = 1 /\ Pow2[1] = 2 /\ Pow2[2] = 4 /\ Pow2[3] = 8 /\ Pow2[4] = 16
<1>1. /\ Pow2[0] = 1 /\ Pow2[0 + 1] = 2 * Pow2[0] /\ Pow2[1 + 1] = 2 * Pow2[1]
      /\ Pow2[2 + 1] = 2 * Pow2[2] /\ Pow2[3 + 1] = 2 * Pow2[3]
  BY Pow2Def
<1> QED
  BY <1>1

\* A power exceeds its exponent, and from 4 on is at least its square.
LEMMA Pow2Exceeds == \A k \in Nat : Pow2[k] \in Nat /\ Pow2[k] >= k + 1
<1> DEFINE S == {k \in Nat : Pow2[k] >= k + 1}
<1>1. 0 \in S
  BY Pow2Def
<1>2. \A k \in Nat : k \in S => k + 1 \in S
  BY Pow2Def
<1>3. Nat \subseteq S
  <2> HIDE DEF S
  <2> QED
    BY <1>1, <1>2, Induct
<1> QED
  BY <1>3, Pow2Def

LEMMA SquareBelowPower == \A n \in Nat : n >= 4 => n * n <= Pow2[n]
<1> DEFINE S == {k \in Nat : (k + 4) * (k + 4) <= Pow2[k + 4]}
<1>1. 0 \in S
  BY SmallPowers
<1>2. ASSUME NEW k \in Nat, k \in S PROVE k + 1 \in S
  <2> DEFINE m == k + 4
  <2>1. m \in Nat /\ m >= 4 /\ (k + 1) + 4 = m + 1 /\ m * m <= Pow2[m]
    BY <1>2
  <2>2. Pow2[m + 1] = 2 * Pow2[m] /\ Pow2[m] \in Nat
    BY <2>1, Pow2Def
  <2> HIDE DEF m
  <2>3. m * m >= 4 * m
    BY <2>1
  <2>4. (m + 1) * (m + 1) = m * m + 2 * m + 1
    BY <2>1
  <2>5. (m + 1) * (m + 1) <= Pow2[m + 1]
    BY <2>1, <2>2, <2>3, <2>4
  <2> QED
    BY <2>1, <2>5
<1>3. Nat \subseteq S
  <2> HIDE DEF S
  <2> QED
    BY <1>1, <1>2, Induct
<1> SUFFICES ASSUME NEW n \in Nat, n >= 4 PROVE n * n <= Pow2[n]
  OBVIOUS
<1>4. n - 4 \in Nat /\ (n - 4) + 4 = n
  OBVIOUS
<1>5. n - 4 \in S
  BY <1>3, <1>4
<1> QED
  BY <1>4, <1>5

\* Without entries all of 0 .. n^2 - 1 is allowed, if it fits the bit vector.
LEMMA AllowedWithoutEntries ==
  ASSUME NEW n \in Nat, n * n <= Pow2[n], NEW v \in Nat, v < n * n
  PROVE  v \in Allowed(n, {})
<1>1. n * n \in Nat /\ Pow2[n] \in Nat
  BY Pow2Def
<1>2. v \in 0 .. n * n - 1 /\ v < Pow2[n]
  BY <1>1
<1>3. v % Pow2[n] = v
  BY <1>1, <1>2, SmallRemainder
<1>4. v \in EventList(n)
  BY <1>2, <1>3 DEF EventList
<1> QED
  BY <1>4 DEF Allowed, RespectsEntries

\* Every v from i to 2^i - 1 is a sum of exactly i powers of two, with all
\* partial sums in between allowed: the last power is 1, 2^(i-2) or 2^(i-1).
LEMMA SumsOfPowers ==
  ASSUME NEW n \in Nat, n >= 2, n * n <= Pow2[n]
  PROVE  \A i \in 0 .. n : \A v \in Nat :
           i <= v /\ v < Pow2[i] /\ v < n * n => v \in Reachable(n, {})[i]
<1> DEFINE R == Reachable(n, {})
           S == {i \in 0 .. n : \A v \in Nat :
                   i <= v /\ v < Pow2[i] /\ v < n * n => v \in R[i]}
<1>1. /\ R[0] = {0} \cap Allowed(n, {})
      /\ \A i \in 1 .. n :
           R[i] = {v + j : v \in R[i - 1], j \in EventOrder(n)} \cap Allowed(n, {})
  BY ReachableDef
<1>2. n * n \in Nat /\ n * n >= 4
  OBVIOUS
<1> HIDE DEF R
<1>3. 0 \in S
  <2>1. 0 \in Allowed(n, {})
    BY <1>2, AllowedWithoutEntries
  <2> QED
    BY <1>1, <2>1, SmallPowers
<1>4. ASSUME NEW i \in 0 .. n - 1, i \in S PROVE i + 1 \in S
  <2>1. i + 1 \in 1 .. n /\ (i + 1) - 1 = i /\ i + 1 \in 0 .. n /\ i \in Nat
    OBVIOUS
  <2>2. Pow2[i] \in Nat /\ Pow2[i + 1] = 2 * Pow2[i] /\ Pow2[i] >= i + 1
    BY <2>1, Pow2Def, Pow2Exceeds
  <2> SUFFICES ASSUME NEW v \in Nat, i + 1 <= v, v < Pow2[i + 1], v < n * n
               PROVE  v \in R[i + 1]
    BY <2>1
  <2>3. v \in Allowed(n, {})
    BY AllowedWithoutEntries
  <2>4. ASSUME NEW e \in 0 .. n, Pow2[e] <= v, i <= v - Pow2[e], v - Pow2[e] < Pow2[i]
        PROVE  v \in R[i + 1]
    <3>1. Pow2[e] \in Nat
      BY Pow2Def
    <3>2. v - Pow2[e] \in Nat /\ v - Pow2[e] < n * n /\ Pow2[e] < n * n
      BY <1>2, <2>4, <3>1
    <3>3. v - Pow2[e] \in R[i]
      BY <1>4, <2>4, <3>2
    <3>4. Pow2[e] \in EventOrder(n)
      BY <3>2 DEF EventOrder
    <3>5. (v - Pow2[e]) + Pow2[e] = v
      BY <3>1
    <3>6. R[i + 1] = {w + j : w \in R[i], j \in EventOrder(n)} \cap Allowed(n, {})
      BY <1>1, <2>1
    <3> QED
      BY <2>3, <3>3, <3>4, <3>5, <3>6
  <2>5. CASE v <= Pow2[i]
    <3>1. Pow2[0] = 1 /\ 0 \in 0 .. n
      BY SmallPowers
    <3> QED
      BY <2>1, <2>2, <2>4, <2>5, <3>1
  <2>6. CASE v > Pow2[i]
    <3>1. i >= 1
      <4>1. i # 0
        BY <2>2, <2>6, SmallPowers
      <4> QED
        BY <2>1, <4>1
    <3>2. i - 1 \in Nat /\ i - 1 \in 0 .. n /\ i \in 0 .. n /\ (i - 1) + 1 = i
      BY <2>1, <3>1
    <3>3. Pow2[i - 1] \in Nat /\ Pow2[i] = 2 * Pow2[i - 1] /\ Pow2[i - 1] >= i
      BY <3>2, Pow2Def, Pow2Exceeds
    <3>4. CASE v < 3 * Pow2[i - 1]
      BY <2>1, <2>2, <2>4, <2>6, <3>2, <3>3, <3>4
    <3>5. CASE v >= 3 * Pow2[i - 1]
      BY <2>1, <2>2, <2>4, <2>6, <3>2, <3>3, <3>5
    <3> QED
      BY <3>3, <3>4, <3>5
  <2> QED
    BY <2>2, <2>5, <2>6
<1>5. \A i \in 0 .. n : i \in S
  <2> HIDE DEF S
  <2> QED
    BY <1>3, <1>4, InductTo
<1> QED
  BY <1>5 DEF R

\* Where n^2 fits the bit vector, n steps reach n^2 - 1.
LEMMA SolvableWithoutEntries ==
  ASSUME NEW n \in Nat, n >= 2, n * n <= Pow2[n]
  PROVE  Satisfiable(n, {})
<1>1. n * n \in Nat /\ n * n - 1 \in Nat /\ n * n >= 2 * n /\ Pow2[n] \in Nat
  BY Pow2Def
<1>2. n \in 0 .. n /\ n <= n * n - 1 /\ n * n - 1 < Pow2[n] /\ n * n - 1 < n * n
  BY <1>1
<1>3. LastValue(n) = n * n - 1
  <2>1. (n * n - 1) % Pow2[n] = n * n - 1
    BY <1>1, <1>2, SmallRemainder, Zenon
  <2> QED
    BY <2>1 DEF LastValue
<1>4. n * n - 1 \in Reachable(n, {})[n]
  BY <1>1, <1>2, SumsOfPowers
<1> QED
  BY <1>3, <1>4 DEF Satisfiable

\* A step adds a power of two, so 0 is not reached again.
LEMMA ZeroNotReached ==
  ASSUME NEW n \in Nat, n >= 1, NEW entries
  PROVE  0 \notin Reachable(n, entries)[n]
<1> DEFINE R == Reachable(n, entries)
<1>1. /\ R[0] = {0} \cap Allowed(n, entries)
      /\ \A i \in 1 .. n :
           R[i] = {v + j : v \in R[i - 1], j \in EventOrder(n)} \cap Allowed(n, entries)
  BY ReachableDef
<1>2. \A j \in EventOrder(n) : j \in Nat /\ j > 0
  BY Pow2Exceeds DEF EventOrder
<1>3. Allowed(n, entries) \subseteq Nat
  <2>1. Pow2[n] \in Nat /\ Pow2[n] > 0
    BY Pow2Exceeds
  <2>2. \A i \in Nat : i % Pow2[n] \in Nat
    BY <2>1
  <2>3. EventList(n) \subseteq Nat
    BY <2>2 DEF EventList
  <2> QED
    BY <2>3 DEF Allowed
<1> HIDE DEF R
<1>4. R[n - 1] \subseteq Nat
  <2>1. CASE n = 1
    BY <1>1, <2>1
  <2>2. CASE n # 1
    <3>1. n - 1 \in 1 .. n
      BY <2>2
    <3> QED
      BY <1>1, <1>3, <3>1
  <2> QED
    BY <2>1, <2>2
<1>5. R[n] \subseteq {v + j : v \in R[n - 1], j \in EventOrder(n)}
  BY <1>1
<1>6. 0 \notin R[n]
  BY <1>2, <1>4, <1>5
<1> QED
  BY <1>6 DEF R

\* One and three events have no solution, whatever the entries: the last value
\* is 0.
LEMMA OneAndThreeUnsolvable ==
  ASSUME NEW n \in {1, 3}, NEW entries
  PROVE  ~ Satisfiable(n, entries)
<1>1. LastValue(n) = 0
  <2>1. CASE n = 1
    <3>1. (1 * 1 - 1) % 2 = 0
      OBVIOUS
    <3> QED
      BY <2>1, <3>1, SmallPowers DEF LastValue
  <2>2. CASE n = 3
    <3>1. (3 * 3 - 1) % 8 = 0
      OBVIOUS
    <3> QED
      BY <2>2, <3>1, SmallPowers DEF LastValue
  <2> QED
    BY <2>1, <2>2
<1> QED
  BY <1>1, ZeroNotReached DEF Satisfiable

\* What solveSMT answers without entries, for every number of events.
LEMMA SolvableBySize ==
  ASSUME NEW n \in Nat \ {0}
  PROVE  Satisfiable(n, {}) <=> n \notin {1, 3}
<1>1. CASE n \in {1, 3}
  BY <1>1, OneAndThreeUnsolvable
<1>2. CASE n = 2
  <2>1. n * n <= Pow2[n]
    BY <1>2, SmallPowers
  <2> QED
    BY <1>2, <2>1, SolvableWithoutEntries
<1>3. CASE n >= 4
  BY <1>3, SquareBelowPower, SolvableWithoutEntries
<1>4. n \in {1, 3} \/ n = 2 \/ n >= 4
  OBVIOUS
<1> QED
  BY <1>1, <1>2, <1>3, <1>4

\* Without entries solveSMT (main.cpp 187-290) answers by the number of events
\* alone: unsatisfiable for 1 and 3, satisfiable for every other number.
THEOREM AnswersBySize == InputSpec => []AnswerBySizeAlone
<1>1. InputTypeOK => AnswerBySizeAlone
  BY SolvableBySize DEF InputTypeOK, AnswerBySizeAlone, HasSolution
<1> QED
  BY <1>1, InputTypes, PTL

-----------------------------------------------------------------------------
(***************************************************************************)
(* Two and four events, where n^2 = 2^n: a value below 2^n is a set of     *)
(* events.                                                                 *)
(***************************************************************************)

Bit(v, b) == (v \div Pow2[b]) % 2

\* The set of events a value stands for, and how many they are.
Ones(v) == {e \in 1 .. 4 : Bit(v, e - 1) = 1}
Weight(v) == Bit(v, 0) + Bit(v, 1) + Bit(v, 2) + Bit(v, 3)

\* A value below 16 is the sum of its bits.
LEMMA BitsOf ==
  ASSUME NEW v \in 0 .. 15
  PROVE  /\ \A b \in {0, 1, 2, 3} : Bit(v, b) \in {0, 1}
         /\ v = Bit(v, 0) + 2 * Bit(v, 1) + 4 * Bit(v, 2) + 8 * Bit(v, 3)
<1>1. v \div 1 = v /\ (v \div 8) % 2 = v \div 8
  OBVIOUS
<1>2. /\ Bit(v, 0) = v % 2
      /\ Bit(v, 1) = (v \div 2) % 2
      /\ Bit(v, 2) = (v \div 4) % 2
      /\ Bit(v, 3) = v \div 8
  BY <1>1, SmallPowers DEF Bit
<1>3. v % 2 \in {0, 1} /\ (v \div 2) % 2 \in {0, 1} /\ (v \div 4) % 2 \in {0, 1} /\ v \div 8 \in {0, 1}
  OBVIOUS
<1>4. v = (v % 2) + 2 * ((v \div 2) % 2) + 4 * ((v \div 4) % 2) + 8 * (v \div 8)
  OBVIOUS
<1> QED
  BY <1>2, <1>3, <1>4

\* u has the events of v and event e besides.
Gains(v, e, u) ==
  /\ Bit(u, e) = 1
  /\ \A b \in {0, 1, 2, 3} : b # e => Bit(u, b) = Bit(v, b)
  /\ Weight(u) = Weight(v) + 1

\* Adding a power of two to a value without it adds one event; to a value
\* with it, it carries, and no event is gained.
LEMMA AddPower ==
  ASSUME NEW v \in 0 .. 15, NEW e \in {0, 1, 2, 3}, NEW u, u = v + Pow2[e], u <= 15
  PROVE  /\ u \in 0 .. 15
         /\ Bit(v, e) = 0 => Gains(v, e, u)
         /\ Bit(v, e) = 1 => Weight(u) <= Weight(v)
<1>1. u \in 0 .. 15
  BY SmallPowers
<1> DEFINE a0 == Bit(v, 0)
           a1 == Bit(v, 1)
           a2 == Bit(v, 2)
           a3 == Bit(v, 3)
           b0 == Bit(u, 0)
           b1 == Bit(u, 1)
           b2 == Bit(u, 2)
           b3 == Bit(u, 3)
<1>2. /\ a0 \in {0, 1} /\ a1 \in {0, 1} /\ a2 \in {0, 1} /\ a3 \in {0, 1}
      /\ v = a0 + 2 * a1 + 4 * a2 + 8 * a3
  BY BitsOf
<1>3. /\ b0 \in {0, 1} /\ b1 \in {0, 1} /\ b2 \in {0, 1} /\ b3 \in {0, 1}
      /\ u = b0 + 2 * b1 + 4 * b2 + 8 * b3
  BY <1>1, BitsOf
<1>4. Weight(v) = a0 + a1 + a2 + a3 /\ Weight(u) = b0 + b1 + b2 + b3
  BY DEF Weight
<1>5. CASE e = 0
  <2>1. u = v + 1
    BY <1>5, SmallPowers
  <2> HIDE DEF a0, a1, a2, a3, b0, b1, b2, b3
  <2>2. a0 = 0 => b0 = 1 /\ b1 = a1 /\ b2 = a2 /\ b3 = a3
    BY <1>2, <1>3, <2>1
  <2>3. a0 = 0 => Gains(v, e, u)
    BY <1>2, <1>4, <1>5, <2>2 DEF Gains, a0, a1, a2, a3, b0, b1, b2, b3
  <2>4. a0 = 1 => b0 + b1 + b2 + b3 <= a0 + a1 + a2 + a3
    BY <1>2, <1>3, <2>1
  <2> QED
    BY <1>1, <1>4, <1>5, <2>3, <2>4 DEF a0
<1>6. CASE e = 1
  <2>1. u = v + 2
    BY <1>6, SmallPowers
  <2> HIDE DEF a0, a1, a2, a3, b0, b1, b2, b3
  <2>2. a1 = 0 => b1 = 1 /\ b0 = a0 /\ b2 = a2 /\ b3 = a3
    BY <1>2, <1>3, <2>1
  <2>3. a1 = 0 => Gains(v, e, u)
    BY <1>2, <1>4, <1>6, <2>2 DEF Gains, a0, a1, a2, a3, b0, b1, b2, b3
  <2>4. a1 = 1 => b0 + b1 + b2 + b3 <= a0 + a1 + a2 + a3
    BY <1>2, <1>3, <2>1
  <2> QED
    BY <1>1, <1>4, <1>6, <2>3, <2>4 DEF a1
<1>7. CASE e = 2
  <2>1. u = v + 4
    BY <1>7, SmallPowers
  <2> HIDE DEF a0, a1, a2, a3, b0, b1, b2, b3
  <2>2. a2 = 0 => b2 = 1 /\ b0 = a0 /\ b1 = a1 /\ b3 = a3
    BY <1>2, <1>3, <2>1
  <2>3. a2 = 0 => Gains(v, e, u)
    BY <1>2, <1>4, <1>7, <2>2 DEF Gains, a0, a1, a2, a3, b0, b1, b2, b3
  <2>4. a2 = 1 => b0 + b1 + b2 + b3 <= a0 + a1 + a2 + a3
    BY <1>2, <1>3, <2>1
  <2> QED
    BY <1>1, <1>4, <1>7, <2>3, <2>4 DEF a2
<1>8. CASE e = 3
  <2>1. u = v + 8
    BY <1>8, SmallPowers
  <2> HIDE DEF a0, a1, a2, a3, b0, b1, b2, b3
  <2>2. a3 = 0 => b3 = 1 /\ b0 = a0 /\ b1 = a1 /\ b2 = a2
    BY <1>2, <1>3, <2>1
  <2>3. a3 = 0 => Gains(v, e, u)
    BY <1>2, <1>4, <1>8, <2>2 DEF Gains, a0, a1, a2, a3, b0, b1, b2, b3
  <2>4. a3 = 1 => b0 + b1 + b2 + b3 <= a0 + a1 + a2 + a3
    BY <1>2, <1>3, <2>1
  <2> QED
    BY <1>1, <1>4, <1>8, <2>3, <2>4 DEF a3
<1> QED
  BY <1>5, <1>6, <1>7, <1>8

\* Taking a power of two from a value with it takes that bit away.
LEMMA TakePower ==
  ASSUME NEW u \in 0 .. 15, NEW e \in {0, 1, 2, 3}, Bit(u, e) = 1, NEW v, v = u - Pow2[e]
  PROVE  v \in 0 .. 15 /\ Bit(v, e) = 0
<1> DEFINE b0 == Bit(u, 0)
           b1 == Bit(u, 1)
           b2 == Bit(u, 2)
           b3 == Bit(u, 3)
           a0 == Bit(v, 0)
           a1 == Bit(v, 1)
           a2 == Bit(v, 2)
           a3 == Bit(v, 3)
<1>1. /\ b0 \in {0, 1} /\ b1 \in {0, 1} /\ b2 \in {0, 1} /\ b3 \in {0, 1}
      /\ u = b0 + 2 * b1 + 4 * b2 + 8 * b3
  BY BitsOf
<1>2. /\ e = 0 => b0 = 1 /\ v = u - 1
      /\ e = 1 => b1 = 1 /\ v = u - 2
      /\ e = 2 => b2 = 1 /\ v = u - 4
      /\ e = 3 => b3 = 1 /\ v = u - 8
  BY SmallPowers
<1>3. v \in 0 .. 15
  <2> HIDE DEF b0, b1, b2, b3
  <2> QED
    BY <1>1, <1>2
<1>4. /\ a0 \in {0, 1} /\ a1 \in {0, 1} /\ a2 \in {0, 1} /\ a3 \in {0, 1}
      /\ v = a0 + 2 * a1 + 4 * a2 + 8 * a3
  BY <1>3, BitsOf
<1>5. /\ e = 0 => a0 = 0
      /\ e = 1 => a1 = 0
      /\ e = 2 => a2 = 0
      /\ e = 3 => a3 = 0
  <2> HIDE DEF b0, b1, b2, b3, a0, a1, a2, a3
  <2> QED
    BY <1>1, <1>2, <1>4
<1> QED
  BY <1>3, <1>5

\* The sets of events of two values that differ by a power of two.
LEMMA GainsEvent ==
  ASSUME NEW v, NEW u, NEW e \in {0, 1, 2, 3}, Bit(v, e) = 0, Gains(v, e, u)
  PROVE  /\ e + 1 \in Ones(u)
         /\ e + 1 \notin Ones(v)
         /\ Ones(u) = Ones(v) \cup {e + 1}
         /\ Ones(v) = Ones(u) \ {e + 1}
<1>1. \A x \in 1 .. 4 : x - 1 \in {0, 1, 2, 3} /\ (x - 1 = e <=> x = e + 1)
  OBVIOUS
<1>2. e + 1 \in 1 .. 4 /\ (e + 1) - 1 = e
  OBVIOUS
<1>3. e + 1 \in Ones(u) /\ e + 1 \notin Ones(v)
  BY <1>2 DEF Ones, Gains
<1>4. ASSUME NEW x \in 1 .. 4, x # e + 1 PROVE x \in Ones(u) <=> x \in Ones(v)
  <2>1. Bit(u, x - 1) = Bit(v, x - 1)
    BY <1>1, <1>4 DEF Gains
  <2> QED
    BY <2>1 DEF Ones
<1>5. Ones(u) \subseteq 1 .. 4 /\ Ones(v) \subseteq 1 .. 4
  BY DEF Ones
<1> QED
  BY <1>2, <1>3, <1>4, <1>5

\* What n^2 = 2^n makes of the encoding's parts.
LEMMA SquareIsPower ==
  ASSUME NEW n \in {2, 4}
  PROVE  /\ EventList(n) = 0 .. n * n - 1
         /\ \A j : j \in EventOrder(n) <=> \E e \in 0 .. n - 1 : j = Pow2[e]
         /\ LastValue(n) = n * n - 1
         /\ \A v \in 0 .. n * n - 1 : Ones(v) \subseteq 1 .. n
         /\ Weight(n * n - 1) = n /\ Ones(n * n - 1) = 1 .. n
         /\ Ones(0) = {} /\ Weight(0) = 0
         /\ \A v \in 0 .. n * n - 1 : Ones(v) = {} => v = 0
<1>1. Pow2[n] = n * n /\ n * n \in Nat /\ n * n <= 16
  BY SmallPowers
<1>2. \A i \in 0 .. n * n - 1 : i % Pow2[n] = i
  BY <1>1, SmallRemainder
<1>3. EventList(n) = 0 .. n * n - 1
  BY <1>2 DEF EventList
<1>4. LastValue(n) = n * n - 1
  BY <1>1, <1>2 DEF LastValue
<1>5. ASSUME NEW j PROVE j \in EventOrder(n) <=> \E e \in 0 .. n - 1 : j = Pow2[e]
  <2>1. \A e \in 0 .. n : Pow2[e] < n * n <=> e \in 0 .. n - 1
    BY SmallPowers
  <2> QED
    BY <2>1 DEF EventOrder
<1>6. ASSUME NEW v \in 0 .. 15
      PROVE  /\ v < 4 => Bit(v, 2) = 0 /\ Bit(v, 3) = 0
             /\ v = 3 => Bit(v, 0) = 1 /\ Bit(v, 1) = 1
             /\ v = 15 => Bit(v, 0) = 1 /\ Bit(v, 1) = 1 /\ Bit(v, 2) = 1 /\ Bit(v, 3) = 1
             /\ v = 0 => Bit(v, 0) = 0 /\ Bit(v, 1) = 0 /\ Bit(v, 2) = 0 /\ Bit(v, 3) = 0
  BY BitsOf
<1>7. \A v \in 0 .. n * n - 1 : Ones(v) \subseteq 1 .. n
  <2> SUFFICES ASSUME NEW v \in 0 .. n * n - 1, NEW x \in Ones(v) PROVE x \in 1 .. n
    OBVIOUS
  <2>1. x \in 1 .. 4 /\ Bit(v, x - 1) = 1 /\ v \in 0 .. 15
    BY <1>1 DEF Ones
  <2>2. CASE n = 2
    BY <1>6, <2>1, <2>2
  <2>3. CASE n = 4
    BY <2>1, <2>3
  <2> QED
    BY <2>2, <2>3
<1>8. Weight(n * n - 1) = n /\ Ones(n * n - 1) = 1 .. n
  <2>1. CASE n = 2
    <3>1. /\ Bit(3, 0) = 1 /\ Bit(3, 1) = 1 /\ Bit(3, 2) = 0 /\ Bit(3, 3) = 0
      BY <1>6
    <3>2. Weight(3) = 2
      BY <3>1 DEF Weight
    <3>3. Ones(3) = 1 .. 2
      BY <3>1 DEF Ones
    <3> QED
      BY <2>1, <3>2, <3>3
  <2>2. CASE n = 4
    <3>1. /\ Bit(15, 0) = 1 /\ Bit(15, 1) = 1 /\ Bit(15, 2) = 1 /\ Bit(15, 3) = 1
      BY <1>6
    <3>2. Weight(15) = 4
      BY <3>1 DEF Weight
    <3>3. Ones(15) = 1 .. 4
      BY <3>1 DEF Ones
    <3> QED
      BY <2>2, <3>2, <3>3
  <2> QED
    BY <2>1, <2>2
<1>9. Ones(0) = {} /\ Weight(0) = 0
  <2>1. Bit(0, 0) = 0 /\ Bit(0, 1) = 0 /\ Bit(0, 2) = 0 /\ Bit(0, 3) = 0
    BY <1>6
  <2> QED
    BY <2>1 DEF Ones, Weight
<1>10. ASSUME NEW v \in 0 .. n * n - 1, Ones(v) = {} PROVE v = 0
  <2>1. v \in 0 .. 15
    BY <1>1
  <2>2. \A x \in 1 .. 4 : Bit(v, x - 1) # 1
    BY <1>10 DEF Ones
  <2>3. Bit(v, 0) # 1 /\ Bit(v, 1) # 1 /\ Bit(v, 2) # 1 /\ Bit(v, 3) # 1
    BY <2>2
  <2> QED
    BY <2>1, <2>3, BitsOf
<1> QED
  BY <1>3, <1>4, <1>5, <1>7, <1>8, <1>9, <1>10

\* The sets of events that contain what the entries put before them.
Closed(T, entries) == \A p \in entries : p[2] \in T => p[1] \in T

\* A value respects the entries just when its set of events does.
LEMMA RespectsIsClosed ==
  ASSUME NEW n \in {2, 4}, NEW v \in 0 .. n * n - 1,
         NEW entries \in SUBSET ((1 .. IntBits) \X (1 .. IntBits))
  PROVE  RespectsEntries(v, entries, n) <=> Closed(Ones(v), entries)
<1>1. ASSUME NEW e \in 1 .. IntBits PROVE Meets(v, Bits(e, n)) <=> e \in Ones(v)
  <2>1. \A b \in 0 .. n - 1 : b \in Bits(e, n) <=> b = e - 1
    BY IntBitsAssumption DEF Bits
  <2>2. Bits(e, n) \subseteq 0 .. n - 1
    BY DEF Bits
  <2>3. CASE e <= n
    <3>1. e - 1 \in 0 .. n - 1 /\ e \in 1 .. 4
      BY <2>3, IntBitsAssumption
    <3>2. Bits(e, n) = {e - 1}
      BY <2>1, <2>2, <3>1
    <3> QED
      BY <3>1, <3>2 DEF Meets, Ones, Bit
  <2>4. CASE e > n
    <3>1. Bits(e, n) = {}
      BY <2>1, <2>2, <2>4, IntBitsAssumption
    <3>2. e \notin Ones(v)
      BY <2>4, SquareIsPower
    <3> QED
      BY <3>1, <3>2 DEF Meets
  <2> QED
    BY <2>3, <2>4, IntBitsAssumption
<1>2. \A p \in entries : p[1] \in 1 .. IntBits /\ p[2] \in 1 .. IntBits
  OBVIOUS
<1> QED
  BY <1>1, <1>2 DEF RespectsEntries, Closed

\* The levels of the reference: sets of i events, grown by one event a time.
OrderLevels(lin, n, entries) ==
  /\ lin[0] = {{}}
  /\ \A i \in 1 .. n :
       lin[i] = {T \in {S \cup {e} : S \in lin[i - 1], e \in 1 .. n} :
                   /\ T \in {X \in SUBSET (1 .. n) : Closed(X, entries)}
                   /\ Cardinality(T) = i}

\* Linearizable asks for the last of them.
LEMMA LinearizableDef ==
  ASSUME NEW n \in Nat, NEW entries
  PROVE  \E lin : /\ OrderLevels(lin, n, entries)
                  /\ Linearizable(n, entries) <=> (1 .. n) \in lin[n]
<1> DEFINE C == {X \in SUBSET (1 .. n) : Closed(X, entries)}
           After(X, i) == {T \in {S \cup {e} : S \in X, e \in 1 .. n} :
                             T \in C /\ Cardinality(T) = i}
           d == {{}}
           D == SUBSET (SUBSET (1 .. n))
           G == [x \in D \X (1 .. n) |-> After(x[1], x[2])]
           E(g) == [i \in 0 .. n |-> IF i = 0 THEN d ELSE After(g[i - 1], i)]
           lin == CHOOSE g : g = E(g)
<1>1. d \in D /\ G \in [D \X (1 .. n) -> D]
  OBVIOUS
<1>2. Linearizable(n, entries) <=> (1 .. n) \in lin[n]
  BY DEF Linearizable, Closed
<1>3. lin = CHOOSE g : g = E(g)
  OBVIOUS
<1> HIDE DEF lin, After, d, D
<1>4. PICK f : Recurs(f, n, D, d, G)
  <2> HIDE DEF G
  <2> QED
    BY <1>1, Recursion
<1>5. ASSUME NEW i \in 1 .. n PROVE f[i] = After(f[i - 1], i)
  <2>1. f[i - 1] \in D
    BY <1>4 DEF Recurs
  <2>2. G[<<f[i - 1], i>>] = After(f[i - 1], i)
    BY <2>1
  <2> HIDE DEF G
  <2> QED
    BY <1>4, <2>2 DEF Recurs
<1>6. f = E(f)
  <2>1. f \in [0 .. n -> D] /\ f[0] = d
    BY <1>4 DEF Recurs
  <2> QED
    BY <1>5, <2>1
<1>7. lin = E(lin)
  <2> HIDE DEF E
  <2> QED
    BY <1>3, <1>6
<1>8. lin[0] = d /\ \A i \in 1 .. n : lin[i] = After(lin[i - 1], i)
  BY <1>7
<1>9. OrderLevels(lin, n, entries)
  BY <1>8 DEF OrderLevels, After, d
<1> QED
  BY <1>2, <1>9

\* The sets of level next are the closed ones with one event more than a set
\* of level this.
GrowsInto(this, next, n, entries) ==
  \A T : T \in next <=>
    /\ T \in SUBSET (1 .. n) /\ Closed(T, entries)
    /\ \E S \in this, e \in 1 .. n : e \notin S /\ T = S \cup {e}

\* A level has the sets with as many events, and grows into the next.
LEMMA NextLevel ==
  ASSUME NEW n \in Nat, NEW entries, NEW lin, OrderLevels(lin, n, entries),
         NEW i \in 0 .. n - 1
  PROVE  /\ \A S \in lin[i] : IsFiniteSet(S) /\ Cardinality(S) = i
         /\ GrowsInto(lin[i], lin[i + 1], n, entries)
<1>1. i + 1 \in 1 .. n /\ (i + 1) - 1 = i
  OBVIOUS
<1>2. ASSUME NEW T
      PROVE  T \in lin[i + 1] <=>
               /\ T \in SUBSET (1 .. n) /\ Closed(T, entries) /\ Cardinality(T) = i + 1
               /\ \E S \in lin[i], e \in 1 .. n : T = S \cup {e}
  <2>1. lin[i + 1] = {X \in {S \cup {e} : S \in lin[i], e \in 1 .. n} :
                        /\ X \in {Y \in SUBSET (1 .. n) : Closed(Y, entries)}
                        /\ Cardinality(X) = i + 1}
    BY <1>1 DEF OrderLevels
  <2> QED
    BY <2>1
<1>3. \A S \in lin[i] : IsFiniteSet(S) /\ Cardinality(S) = i
  <2>1. CASE i = 0
    BY <2>1, FS_EmptySet DEF OrderLevels
  <2>2. CASE i # 0
    <3>1. i \in 1 .. n
      BY <2>2
    <3>2. \A S \in lin[i] : S \in SUBSET (1 .. n) /\ Cardinality(S) = i
      BY <3>1 DEF OrderLevels
    <3>3. IsFiniteSet(1 .. n)
      BY FS_Interval
    <3> QED
      BY <3>2, <3>3, FS_Subset
  <2> QED
    BY <2>1, <2>2
<1>4. ASSUME NEW S \in lin[i], NEW e
      PROVE  Cardinality(S \cup {e}) = i + 1 <=> e \notin S
  <2>1. Cardinality(S \cup {e}) = IF e \in S THEN Cardinality(S) ELSE Cardinality(S) + 1
    BY <1>3, FS_AddElement
  <2>2. Cardinality(S) = i /\ i # i + 1
    BY <1>3
  <2> QED
    BY <2>1, <2>2
<1> QED
  BY <1>2, <1>3, <1>4 DEF GrowsInto

\* The paths of values from 0 that gain an event in every step are the ways
\* to execute the events one by one.
LEMMA PathsAreOrders ==
  ASSUME NEW n \in {2, 4}, NEW entries \in SUBSET ((1 .. IntBits) \X (1 .. IntBits)),
         NEW lin, OrderLevels(lin, n, entries)
  PROVE  \A i \in 0 .. n :
           /\ \A v \in Reachable(n, entries)[i] : v \in 0 .. n * n - 1 /\ Weight(v) <= i
           /\ \A v \in 0 .. n * n - 1 :
                v \in Reachable(n, entries)[i] /\ Weight(v) = i <=> Ones(v) \in lin[i]
<1> DEFINE R == Reachable(n, entries)
           V == 0 .. n * n - 1
           A == Allowed(n, entries)
           Below(i) == \A v \in R[i] : v \in V /\ Weight(v) <= i
           Same(i) == \A v \in V : v \in R[i] /\ Weight(v) = i <=> Ones(v) \in lin[i]
           P == {i \in 0 .. n : Below(i) /\ Same(i)}
<1>1. /\ n \in Nat /\ V \subseteq 0 .. 15
      /\ \A e \in 1 .. n : e - 1 \in {0, 1, 2, 3} /\ e - 1 \in 0 .. n - 1
      /\ \A e \in 0 .. n - 1 : e \in {0, 1, 2, 3} /\ e + 1 \in 1 .. n
  OBVIOUS
<1>2. \A v : v \in A <=> v \in V /\ Closed(Ones(v), entries)
  BY SquareIsPower, RespectsIsClosed DEF Allowed
<1>3. /\ R[0] = {0} \cap A
      /\ \A i \in 1 .. n : R[i] = {v + j : v \in R[i - 1], j \in EventOrder(n)} \cap A
  BY <1>1, ReachableDef
<1>4. \A v \in V : Weight(v) \in Nat
  BY <1>1, BitsOf DEF Weight
<1>5. 0 \in P
  <2>1. 0 \in V /\ 0 \in 0 .. n /\ Ones(0) = {} /\ Weight(0) = 0
    BY SquareIsPower
  <2>2. Closed({}, entries)
    BY DEF Closed
  <2>3. R[0] = {0}
    BY <1>2, <1>3, <2>1, <2>2
  <2>4. lin[0] = {{}}
    BY DEF OrderLevels
  <2>5. \A v \in V : Ones(v) = {} => v = 0
    BY SquareIsPower
  <2> HIDE DEF R, V
  <2>6. Below(0)
    BY <2>1, <2>3
  <2>7. Same(0)
    BY <2>1, <2>3, <2>4, <2>5
  <2> QED
    BY <2>1, <2>6, <2>7
<1>6. ASSUME NEW i \in 0 .. n - 1, i \in P PROVE i + 1 \in P
  <2>1. i + 1 \in 1 .. n /\ (i + 1) - 1 = i /\ i + 1 \in 0 .. n /\ i \in Nat
    BY <1>1
  <2>2. Below(i) /\ Same(i)
    BY <1>6
  <2>3. R[i + 1] = {v + j : v \in R[i], j \in EventOrder(n)} \cap A
    BY <1>3, <2>1
  <2>4. ASSUME NEW u
        PROVE  u \in R[i + 1] <=> u \in A /\ \E v \in R[i], e \in 0 .. n - 1 : u = v + Pow2[e]
    BY <2>3, SquareIsPower
  <2>5. \A T : T \in lin[i + 1] <=>
                 /\ T \in SUBSET (1 .. n) /\ Closed(T, entries)
                 /\ \E S \in lin[i], e \in 1 .. n : e \notin S /\ T = S \cup {e}
    <3>1. n \in Nat
      BY <1>1
    <3>2. GrowsInto(lin[i], lin[i + 1], n, entries)
      BY <3>1, NextLevel
    <3> QED
      BY <3>2 DEF GrowsInto
  <2> HIDE DEF R, V, A, P
  <2>6. ASSUME NEW u \in R[i + 1], NEW v \in R[i], NEW e \in 0 .. n - 1, u = v + Pow2[e]
        PROVE  /\ u \in V /\ v \in V /\ Weight(v) <= i
               /\ Bit(v, e) = 0 => Gains(v, e, u)
               /\ Bit(v, e) = 1 => Weight(u) <= Weight(v)
               /\ Bit(v, e) \in {0, 1}
    <3>1. u \in V /\ v \in V /\ Weight(v) <= i
      BY <1>2, <2>2, <2>4, <2>6
    <3>2. v \in 0 .. 15 /\ u \in 0 .. 15 /\ u <= 15 /\ e \in {0, 1, 2, 3}
      BY <1>1, <3>1
    <3> QED
      BY <2>6, <3>1, <3>2, AddPower, BitsOf
  <2>7. Below(i + 1)
    <3> SUFFICES ASSUME NEW u \in R[i + 1] PROVE u \in V /\ Weight(u) <= i + 1
      OBVIOUS
    <3>1. PICK v \in R[i], e \in 0 .. n - 1 : u = v + Pow2[e]
      BY <2>4
    <3>2. u \in V /\ v \in V /\ Weight(v) <= i
      BY <2>6, <3>1
    <3>3. Weight(u) <= Weight(v) \/ Weight(u) = Weight(v) + 1
      BY <2>6, <3>1 DEF Gains
    <3>4. Weight(u) \in Nat /\ Weight(v) \in Nat
      BY <1>4, <3>2
    <3> QED
      BY <2>1, <3>2, <3>3, <3>4
  <2>8. ASSUME NEW u \in V, u \in R[i + 1], Weight(u) = i + 1 PROVE Ones(u) \in lin[i + 1]
    <3>1. PICK v \in R[i], e \in 0 .. n - 1 : u = v + Pow2[e]
      BY <2>4, <2>8
    <3>2. v \in V /\ Weight(v) <= i /\ Weight(v) \in Nat
      BY <1>4, <2>6, <2>8, <3>1
    <3>3. ~ (Weight(u) <= Weight(v))
      BY <2>1, <2>8, <3>2
    <3>4. Bit(v, e) = 0 /\ Gains(v, e, u)
      BY <2>6, <2>8, <3>1, <3>3
    <3>5. Weight(v) = i
      <4>1. Weight(u) = Weight(v) + 1
        BY <3>4 DEF Gains
      <4> QED
        BY <2>1, <2>8, <3>2, <4>1
    <3>6. Ones(v) \in lin[i]
      BY <2>2, <3>2, <3>5
    <3>7. Ones(u) = Ones(v) \cup {e + 1} /\ e + 1 \notin Ones(v) /\ e + 1 \in 1 .. n
      BY <1>1, <3>4, GainsEvent
    <3>8. Closed(Ones(u), entries) /\ Ones(u) \in SUBSET (1 .. n)
      BY <1>2, <2>4, <2>8, SquareIsPower DEF V
    <3> QED
      BY <2>5, <3>6, <3>7, <3>8
  <2>9. ASSUME NEW u \in V, Ones(u) \in lin[i + 1] PROVE u \in R[i + 1] /\ Weight(u) = i + 1
    <3>1. PICK S \in lin[i], x \in 1 .. n : x \notin S /\ Ones(u) = S \cup {x}
      BY <2>5, <2>9
    <3>2. Closed(Ones(u), entries)
      BY <2>5, <2>9
    <3>3. PICK e \in 0 .. n - 1 : e = x - 1 /\ e + 1 = x
      BY <1>1
    <3>4. e \in {0, 1, 2, 3} /\ u \in 0 .. 15
      BY <1>1
    <3>5. Bit(u, e) = 1
      BY <3>1, <3>3 DEF Ones
    <3>6. PICK v : v = u - Pow2[e]
      OBVIOUS
    <3>7. v \in 0 .. 15 /\ Bit(v, e) = 0
      BY <3>4, <3>5, <3>6, TakePower
    <3>8. Pow2[e] \in Nat
      BY <3>4, SmallPowers
    <3>9. u = v + Pow2[e] /\ u <= 15 /\ v <= u
      BY <3>4, <3>6, <3>7, <3>8
    <3>10. v \in V
      BY <3>7, <3>9 DEF V
    <3>11. Gains(v, e, u)
      BY <3>4, <3>7, <3>9, AddPower
    <3>12. Ones(v) = S
      BY <3>1, <3>3, <3>4, <3>7, <3>11, GainsEvent
    <3>13. v \in R[i] /\ Weight(v) = i
      BY <2>2, <3>10, <3>12
    <3>14. u \in R[i + 1]
      BY <1>2, <2>4, <3>2, <3>9, <3>13
    <3> QED
      BY <3>11, <3>13, <3>14 DEF Gains
  <2>10. Same(i + 1)
    BY <2>8, <2>9
  <2> QED
    BY <2>1, <2>7, <2>10 DEF P
<1>7. \A i \in 0 .. n : i \in P
  <2> HIDE DEF P
  <2> QED
    BY <1>1, <1>5, <1>6, InductTo
<1> QED
  BY <1>7

\* For 2 and for 4 events the encoding (main.cpp 211-254) is exact, for every
\* table of entries between names an int can stand for: a value is a set of
\* events, the powers of two are the events, and n steps reach the full set
\* only when each of them gains an event.
THEOREM ExactForTwoAndFour == InputSpec => []ExactWhenSquareIsPower
<1>1. ASSUME NEW n \in {2, 4}, NEW entries \in SUBSET ((1 .. IntBits) \X (1 .. IntBits))
      PROVE  Satisfiable(n, entries) <=> Linearizable(n, entries)
  <2>1. n \in Nat /\ n \in 0 .. n /\ n * n - 1 \in 0 .. n * n - 1
    OBVIOUS
  <2>2. PICK lin : /\ OrderLevels(lin, n, entries)
                   /\ Linearizable(n, entries) <=> (1 .. n) \in lin[n]
    BY <2>1, LinearizableDef
  <2>3. LastValue(n) = n * n - 1 /\ Weight(n * n - 1) = n /\ Ones(n * n - 1) = 1 .. n
    BY SquareIsPower
  <2>4. \A v \in 0 .. n * n - 1 :
          v \in Reachable(n, entries)[n] /\ Weight(v) = n <=> Ones(v) \in lin[n]
    BY <2>1, <2>2, PathsAreOrders
  <2>5. n * n - 1 \in Reachable(n, entries)[n] <=> (1 .. n) \in lin[n]
    BY <2>1, <2>3, <2>4
  <2> QED
    BY <2>2, <2>3, <2>5 DEF Satisfiable
<1>2. InputTypeOK => ExactWhenSquareIsPower
  <2> SUFFICES ASSUME InputTypeOK, totNumEvents \in {2, 4}, NarrowNames
               PROVE  HasSolution <=> Linearizable(totNumEvents, hbEntries)
    BY DEF ExactWhenSquareIsPower
  <2>1. ASSUME NEW p \in hbEntries PROVE p \in (1 .. IntBits) \X (1 .. IntBits)
    <3>1. p \in (Nat \ {0}) \X (Nat \ {0}) /\ p[1] <= IntBits /\ p[2] <= IntBits
      BY DEF InputTypeOK, NarrowNames
    <3> QED
      BY <3>1, IntBitsAssumption
  <2> QED
    BY <1>1, <2>1 DEF HasSolution
<1> QED
  BY <1>2, InputTypes, PTL

-----------------------------------------------------------------------------
(***************************************************************************)
(* Entries in both directions.                                             *)
(***************************************************************************)

\* Exponents add up.
LEMMA PowersMultiply ==
  ASSUME NEW a \in Nat
  PROVE  \A b \in Nat : Pow2[a + b] = Pow2[b] * Pow2[a]
<1> DEFINE S == {b \in Nat : Pow2[a + b] = Pow2[b] * Pow2[a]}
<1>0. Pow2[a] \in Nat
  BY Pow2Def
<1>1. 0 \in S
  <2>1. a + 0 = a /\ Pow2[0] = 1 /\ 1 * Pow2[a] = Pow2[a]
    BY <1>0, Pow2Def
  <2> QED
    BY <2>1
<1>2. ASSUME NEW b \in Nat, b \in S PROVE b + 1 \in S
  <2>1. /\ Pow2[(a + b) + 1] = 2 * Pow2[a + b] /\ Pow2[b + 1] = 2 * Pow2[b]
        /\ Pow2[b] \in Nat /\ a + (b + 1) = (a + b) + 1
    BY Pow2Def
  <2>2. Pow2[a + b] = Pow2[b] * Pow2[a]
    BY <1>2
  <2>3. 2 * (Pow2[b] * Pow2[a]) = (2 * Pow2[b]) * Pow2[a]
    BY <1>0, <2>1
  <2> QED
    BY <2>1, <2>2, <2>3
<1>3. Nat \subseteq S
  <2> HIDE DEF S
  <2> QED
    BY <1>1, <1>2, Induct
<1> QED
  BY <1>3

\* A higher power is an even multiple of a lower one.
LEMMA HigherPower ==
  ASSUME NEW a \in Nat, NEW b \in Nat, a < b
  PROVE  \E h \in Nat : h > 0 /\ Pow2[b] = (2 * h) * Pow2[a]
<1>1. (b - a) - 1 \in Nat /\ ((b - a) - 1) + 1 = b - a /\ a + (b - a) = b /\ b - a \in Nat
  OBVIOUS
<1> DEFINE h == Pow2[(b - a) - 1]
<1>2. h \in Nat /\ h > 0 /\ Pow2[b - a] = 2 * h
  BY <1>1, Pow2Def, Pow2Exceeds
<1>3. Pow2[b] = Pow2[b - a] * Pow2[a]
  BY <1>1, PowersMultiply
<1> HIDE DEF h
<1> QED
  BY <1>2, <1>3

\* Quotients.
LEMMA QuotientIs ==
  ASSUME NEW q \in Nat, NEW d \in Nat, d > 0, NEW s \in Nat, s < d
  PROVE  (q * d + s) \div d = q
<1> DEFINE a == q * d + s
           e == a \div d
<1>1. q * d \in Nat /\ a \in Nat
  OBVIOUS
<1> HIDE DEF a
<1>2. e \in Nat /\ a = d * e + (a % d) /\ a % d \in Nat /\ a % d < d
  BY <1>1
<1> HIDE DEF e
<1> DEFINE x == a % d
<1>3. a = q * d + s
  BY DEF a
<1> HIDE DEF x
<1>4. x \in Nat /\ x < d /\ d * e + x = q * d + s
  BY <1>2, <1>3 DEF x
<1>5. CASE e > q
  <2>1. PICK f \in Nat : e = q + 1 + f
    <3>1. e - q - 1 \in Nat /\ e = q + 1 + (e - q - 1)
      BY <1>2, <1>5
    <3> QED
      BY <3>1
  <2>2. d * e = q * d + d + d * f /\ d * f \in Nat
    BY <2>1
  <2> QED
    BY <1>1, <1>4, <2>2
<1>6. CASE e < q
  <2>1. PICK f \in Nat : q = e + 1 + f
    <3>1. q - e - 1 \in Nat /\ q = e + 1 + (q - e - 1)
      BY <1>2, <1>6
    <3> QED
      BY <3>1
  <2>2. q * d = d * e + d + d * f /\ d * f \in Nat /\ d * e \in Nat
    BY <1>2, <2>1
  <2> QED
    BY <1>1, <1>4, <2>2
<1> QED
  BY <1>2, <1>5, <1>6 DEF a, e

\* A multiple of 2^m with 2^k added, k < m, has bit k and no other below m.
LEMMA OneLowBit ==
  ASSUME NEW m \in Nat, NEW q \in Nat, NEW k \in Nat, k < m, NEW b \in Nat, b < m
  PROVE  ((q * Pow2[m] + Pow2[k]) \div Pow2[b]) % 2 = (IF b = k THEN 1 ELSE 0)
<1> DEFINE d == Pow2[b]
           u == q * Pow2[m] + Pow2[k]
<1>1. d \in Nat /\ d > 0 /\ Pow2[k] \in Nat
  BY Pow2Exceeds
<1>2. PICK h \in Nat : Pow2[m] = (2 * h) * d
  BY HigherPower
<1>3. q * h \in Nat /\ q * ((2 * h) * d) = (2 * (q * h)) * d
  BY <1>1, <1>2
<1>4. CASE b = k
  <2>1. u = (2 * (q * h) + 1) * d + 0
    <3>1. u = (2 * (q * h)) * d + d
      BY <1>2, <1>3, <1>4
    <3> HIDE DEF u, d
    <3> QED
      BY <1>1, <1>3, <3>1
  <2>2. u \div d = 2 * (q * h) + 1
    <3> HIDE DEF u, d
    <3> QED
      BY <1>1, <1>3, <2>1, QuotientIs
  <2>3. (2 * (q * h) + 1) % 2 = 1
    BY <1>3
  <2> QED
    BY <1>4, <2>2, <2>3
<1>5. CASE b < k
  <2>1. PICK g \in Nat : Pow2[k] = (2 * g) * d
    BY <1>5, HigherPower
  <2>2. u = (2 * (q * h + g)) * d + 0
    <3>1. u = (2 * (q * h)) * d + (2 * g) * d
      BY <1>2, <1>3, <2>1
    <3> HIDE DEF u, d
    <3> QED
      BY <1>1, <1>3, <2>1, <3>1
  <2>3. u \div d = 2 * (q * h + g)
    <3> HIDE DEF u, d
    <3> QED
      BY <1>1, <1>3, <2>2, QuotientIs
  <2>4. (2 * (q * h + g)) % 2 = 0
    BY <1>3
  <2> QED
    BY <1>5, <2>3, <2>4
<1>6. CASE b > k
  <2>1. PICK g \in Nat : g > 0 /\ Pow2[b] = (2 * g) * Pow2[k]
    BY <1>6, HigherPower
  <2>2. Pow2[k] < d
    <3>1. Pow2[k] > 0
      BY Pow2Exceeds
    <3> QED
      BY <1>1, <2>1, <3>1
  <2>3. u = (2 * (q * h)) * d + Pow2[k]
    BY <1>2, <1>3
  <2>4. u \div d = 2 * (q * h)
    <3> HIDE DEF u, d
    <3> QED
      BY <1>1, <1>3, <2>2, <2>3, QuotientIs
  <2>5. (2 * (q * h)) % 2 = 0
    BY <1>3
  <2> QED
    BY <1>6, <2>4, <2>5
<1> QED
  BY <1>4, <1>5, <1>6

\* Each of the names 1..m has an entry that wants another of them with it.
Tied(m, entries) ==
  \A x \in 1 .. m : \E y \in 1 .. m : y # x /\ <<y, x>> \in entries

\* No value the entries allow has just one of the tied events.
LEMMA NoLoneTiedEvent ==
  ASSUME NEW n \in Nat, NEW m \in Nat, m < IntBits, NEW entries, Tied(m, entries),
         NEW q \in Nat, NEW k \in Nat, k < m, k < n
  PROVE  q * Pow2[m] + Pow2[k] \notin Allowed(n, entries)
<1> DEFINE u == q * Pow2[m] + Pow2[k]
<1> SUFFICES ASSUME u \in Allowed(n, entries) PROVE FALSE
  OBVIOUS
<1>1. k + 1 \in 1 .. m
  OBVIOUS
<1>2. PICK y \in 1 .. m : y # k + 1 /\ <<y, k + 1>> \in entries
  BY <1>1 DEF Tied
<1>3. IntBits \in Nat /\ y \in Nat /\ y - 1 \in Nat /\ y - 1 < m /\ y - 1 # k
  BY <1>2, IntBitsAssumption
<1>4. Bits(k + 1, n) = {k} /\ Bits(y, n) \subseteq {y - 1}
  BY <1>3 DEF Bits
<1>5. (u \div Pow2[k]) % 2 = 1 /\ (u \div Pow2[y - 1]) % 2 = 0
  <2>1. (u \div Pow2[k]) % 2 = (IF k = k THEN 1 ELSE 0)
    BY OneLowBit
  <2>2. (u \div Pow2[y - 1]) % 2 = (IF y - 1 = k THEN 1 ELSE 0)
    BY <1>3, OneLowBit
  <2> HIDE DEF u
  <2> QED
    BY <1>3, <2>1, <2>2
<1> HIDE DEF u
<1>6. Meets(u, Bits(k + 1, n)) /\ ~ Meets(u, Bits(y, n))
  BY <1>4, <1>5 DEF Meets
<1>7. RespectsEntries(u, entries, n)
  BY DEF Allowed
<1>8. Meets(u, Bits(<<y, k + 1>>[2], n)) => Meets(u, Bits(<<y, k + 1>>[1], n))
  BY <1>2, <1>7, Zenon DEF RespectsEntries
<1>9. <<y, k + 1>>[1] = y /\ <<y, k + 1>>[2] = k + 1
  OBVIOUS
<1> QED
  BY <1>6, <1>8, <1>9

\* The constants are below n^2 and below 2^n.
LEMMA EventListBounds ==
  ASSUME NEW n \in Nat, n >= 1, NEW v \in EventList(n)
  PROVE  v \in Nat /\ v < n * n /\ v < Pow2[n]
<1>1. Pow2[n] \in Nat /\ Pow2[n] > 0 /\ n * n \in Nat
  BY Pow2Exceeds
<1>2. PICK i \in 0 .. n * n - 1 : v = i % Pow2[n]
  BY DEF EventList
<1>3. i \in Nat /\ i < n * n
  BY <1>1
<1>4. i % Pow2[n] \in Nat /\ i % Pow2[n] <= i /\ i % Pow2[n] < Pow2[n]
  <2> DEFINE d == Pow2[n]
  <2> HIDE DEF d
  <2>1. d \in Nat /\ d > 0
    BY <1>1 DEF d
  <2>2. i % d \in Nat /\ i % d < d /\ i = d * (i \div d) + (i % d) /\ i \div d \in Nat
    BY <1>3, <2>1
  <2>3. d * (i \div d) \in Nat
    BY <2>1, <2>2
  <2> DEFINE a == i % d
             b == d * (i \div d)
  <2> HIDE DEF a, b
  <2>4. i = b + a /\ a \in Nat /\ b \in Nat
    BY <2>2, <2>3 DEF a, b
  <2>5. a <= i
    BY <2>4
  <2> QED
    BY <2>2, <2>5 DEF a, d
<1> QED
  BY <1>1, <1>2, <1>3, <1>4

\* With the first m events tied, every step adds a multiple of 2^m: adding less
\* would execute one tied event alone.  The n steps then add up to more than
\* n^2 - 1, unless n exceeds 2^m.
LEMMA TiedUnsolvable ==
  ASSUME NEW n \in Nat, n >= 1, NEW m \in Nat, m < IntBits, n <= Pow2[m],
         NEW entries, Tied(m, entries)
  PROVE  ~ Satisfiable(n, entries)
<1> DEFINE A == Allowed(n, entries)
           R == Reachable(n, entries)
           J == EventOrder(n)
           M == Pow2[m]
           S == {i \in 0 .. n : \A v \in R[i] : \E q \in Nat : v = q * M /\ q >= i}
<1>1. R[0] = {0} \cap A /\ \A i \in 1 .. n : R[i] = {v + j : v \in R[i - 1], j \in J} \cap A
  BY ReachableDef
<1>2. A \subseteq EventList(n)
  BY DEF Allowed
<1>3. M \in Nat /\ M > 0 /\ n <= M
  BY Pow2Exceeds
<1>4. \A j \in J : \E k \in Nat : j = Pow2[k]
  BY DEF EventOrder
<1> HIDE DEF R, J
<1>5. 0 \in S
  <2>1. \A v \in R[0] : v = 0 * M /\ 0 \in Nat /\ 0 >= 0
    BY <1>1, <1>3
  <2> QED
    BY <2>1
<1>6. ASSUME NEW i \in 0 .. n - 1, i \in S PROVE i + 1 \in S
  <2>1. i + 1 \in 1 .. n /\ (i + 1) - 1 = i /\ i + 1 \in 0 .. n /\ i \in Nat
    OBVIOUS
  <2>2. ASSUME NEW u \in R[i + 1] PROVE \E q \in Nat : u = q * M /\ q >= i + 1
    <3>1. u \in {v + j : v \in R[i], j \in J} /\ u \in A
      BY <1>1, <2>1
    <3>2. PICK v \in R[i], j \in J : u = v + j
      BY <3>1
    <3>3. PICK q \in Nat : v = q * M /\ q >= i
      BY <1>6
    <3>4. PICK k \in Nat : j = Pow2[k]
      BY <1>4
    <3>5. u = q * M + Pow2[k] /\ u < Pow2[n] /\ q * M \in Nat /\ Pow2[k] \in Nat /\ Pow2[n] \in Nat
      <4>1. u < Pow2[n]
        BY <1>2, <3>1, EventListBounds
      <4>2. Pow2[k] \in Nat /\ Pow2[n] \in Nat
        BY Pow2Exceeds
      <4>3. q * M \in Nat
        <5> HIDE DEF M
        <5> QED
          BY <1>3
      <4> QED
        BY <3>2, <3>3, <3>4, <4>1, <4>2, <4>3
    <3>6. CASE k < m
      <4>1. k < n
        <5> SUFFICES ASSUME n <= k PROVE FALSE
          OBVIOUS
        <5>1. Pow2[k] >= Pow2[n]
          <6>1. CASE n = k
            BY <3>5, <6>1
          <6>2. CASE n < k
            <7>1. PICK h \in Nat : h > 0 /\ Pow2[k] = (2 * h) * Pow2[n]
              BY <6>2, HigherPower
            <7> QED
              BY <3>5, <7>1
          <6> QED
            BY <6>1, <6>2
        <5> QED
          BY <3>5, <5>1
      <4> QED
        BY <3>1, <3>5, <3>6, <4>1, NoLoneTiedEvent
    <3>7. CASE k >= m
      <4>1. k - m \in Nat /\ m + (k - m) = k
        BY <3>7
      <4>2. Pow2[k] = Pow2[k - m] * M /\ Pow2[k - m] \in Nat /\ Pow2[k - m] >= 1
        <5>1. Pow2[m + (k - m)] = Pow2[k - m] * Pow2[m]
          BY <4>1, PowersMultiply
        <5> QED
          BY <4>1, <5>1, Pow2Exceeds
      <4> DEFINE g == Pow2[k - m]
      <4> HIDE DEF M, g
      <4>3. u = (q + g) * M
        BY <1>3, <3>5, <4>2 DEF g
      <4>4. q + g \in Nat /\ q + g >= i + 1
        BY <2>1, <3>3, <4>2 DEF g
      <4> QED
        BY <4>3, <4>4
    <3> QED
      BY <3>6, <3>7
  <2> QED
    BY <2>1, <2>2
<1>7. \A i \in 0 .. n : i \in S
  <2> HIDE DEF S
  <2> QED
    BY <1>5, <1>6, InductTo
<1>8. n * n \in Nat /\ n * n >= 1
  OBVIOUS
<1>9. LastValue(n) \in EventList(n)
  BY <1>8 DEF LastValue, EventList
<1> SUFFICES ASSUME LastValue(n) \in R[n] PROVE FALSE
  BY DEF Satisfiable, R
<1>10. PICK q \in Nat : LastValue(n) = q * M /\ q >= n
  BY <1>7
<1>11. LastValue(n) < n * n
  BY <1>9, EventListBounds
<1>12. q * M >= n * n
  <2> HIDE DEF M
  <2>1. q * M >= n * M
    BY <1>3, <1>10
  <2>2. n * M >= n * n /\ n * M \in Nat /\ q * M \in Nat
    BY <1>3
  <2> QED
    BY <1>8, <2>1, <2>2
<1> HIDE DEF M
<1>13. q * M \in Nat
  BY <1>3
<1> QED
  BY <1>8, <1>10, <1>11, <1>12, <1>13

-----------------------------------------------------------------------------
\* The names of a window's events are counted process after process.
LEMMA NamesBeforeDef ==
  ASSUME NEW P \in Nat, NEW numEvent \in [0 .. P - 1 -> Nat]
  PROVE  LET before == NamesBefore(P, numEvent)
         IN  /\ before \in [0 .. P -> Nat]
             /\ before[0] = 0
             /\ \A k \in 1 .. P : before[k] = before[k - 1] + numEvent[k - 1]
<1> DEFINE G == [x \in Nat \X (1 .. P) |-> x[1] + numEvent[x[2] - 1]]
           E(g) == [k \in 0 .. P |-> IF k = 0 THEN 0 ELSE g[k - 1] + numEvent[k - 1]]
           c == NamesBefore(P, numEvent)
<1>1. G \in [Nat \X (1 .. P) -> Nat]
  OBVIOUS
<1>2. PICK f : Recurs(f, P, Nat, 0, G)
  <2> HIDE DEF G
  <2> QED
    BY <1>1, Recursion
<1>3. f \in [0 .. P -> Nat] /\ f[0] = 0
  BY <1>2 DEF Recurs
<1>4. ASSUME NEW k \in 1 .. P PROVE f[k] = f[k - 1] + numEvent[k - 1]
  <2>1. f[k - 1] \in Nat
    BY <1>3
  <2>2. G[<<f[k - 1], k>>] = f[k - 1] + numEvent[k - 1]
    BY <2>1
  <2> HIDE DEF G
  <2> QED
    BY <1>2, <2>2 DEF Recurs
<1> HIDE DEF G
<1>5. f = E(f)
  BY <1>3, <1>4
<1>6. c = CHOOSE g : g = E(g)
  BY DEF NamesBefore
<1>7. c = E(c)
  <2> HIDE DEF E, c
  <2> QED
    BY <1>5, <1>6
<1> HIDE DEF c
<1>8. c[0] = 0 /\ \A k \in 1 .. P : c[k] = c[k - 1] + numEvent[k - 1]
  BY <1>7
<1> DEFINE S == {k \in 0 .. P : c[k] \in Nat}
<1>9. 0 \in S
  BY <1>8
<1>10. ASSUME NEW k \in 0 .. P - 1, k \in S PROVE k + 1 \in S
  <2>1. k + 1 \in 1 .. P /\ (k + 1) - 1 = k /\ numEvent[k] \in Nat /\ c[k] \in Nat
    BY <1>10
  <2>2. c[k + 1] = c[k] + numEvent[k]
    BY <1>8, <2>1
  <2> QED
    BY <2>1, <2>2
<1>11. \A k \in 0 .. P : k \in S
  <2> HIDE DEF S
  <2> QED
    BY <1>9, <1>10, InductTo
<1>12. c \in [0 .. P -> Nat]
  BY <1>7, <1>11
<1> QED
  BY <1>8, <1>12 DEF c

\* There are at least as many events as process 0 has.
LEMMA TotNumEventsBound ==
  ASSUME NEW P \in Nat \ {0}, NEW numEvent \in [0 .. P - 1 -> Nat]
  PROVE  TotNumEvents(P, numEvent) \in Nat /\ TotNumEvents(P, numEvent) >= numEvent[0]
<1> DEFINE c == NamesBefore(P, numEvent)
           S == {k \in 0 .. P : k >= 1 => c[k] >= numEvent[0]}
<1>1. /\ c \in [0 .. P -> Nat] /\ c[0] = 0
      /\ \A k \in 1 .. P : c[k] = c[k - 1] + numEvent[k - 1]
  BY NamesBeforeDef
<1> HIDE DEF c
<1>2. 0 \in S
  OBVIOUS
<1>3. ASSUME NEW k \in 0 .. P - 1, k \in S PROVE k + 1 \in S
  <2>1. k + 1 \in 1 .. P /\ (k + 1) - 1 = k /\ numEvent[k] \in Nat /\ c[k] \in Nat
        /\ numEvent[0] \in Nat
    BY <1>1
  <2>2. c[k + 1] = c[k] + numEvent[k]
    BY <1>1, <2>1
  <2>3. CASE k = 0
    BY <1>1, <2>1, <2>2, <2>3
  <2>4. CASE k # 0
    BY <1>3, <2>1, <2>2, <2>4
  <2> QED
    BY <2>3, <2>4
<1>4. \A k \in 0 .. P : k \in S
  <2> HIDE DEF S
  <2> QED
    BY <1>2, <1>3, InductTo
<1>5. c[P] \in Nat /\ c[P] >= numEvent[0]
  BY <1>1, <1>4
<1> QED
  BY <1>5 DEF TotNumEvents, c

\* With one process the events are the ones of its window.
LEMMA TotNumEventsOne ==
  ASSUME NEW numEvent \in [0 .. 0 -> Nat]
  PROVE  TotNumEvents(1, numEvent) = numEvent[0]
<1>1. LET c == NamesBefore(1, numEvent)
      IN  c[0] = 0 /\ \A k \in 1 .. 1 : c[k] = c[k - 1] + numEvent[k - 1]
  <2>1. numEvent \in [0 .. 1 - 1 -> Nat] /\ 1 \in Nat
    OBVIOUS
  <2> QED
    BY <2>1, NamesBeforeDef, Zenon
<1>2. NamesBefore(1, numEvent)[1] = 0 + numEvent[0]
  BY <1>1
<1> QED
  BY <1>2 DEF TotNumEvents

\* Names are counted upwards.
LEMMA NamesGrow ==
  ASSUME NEW P \in Nat, NEW numEvent \in [0 .. P - 1 -> Nat]
  PROVE  \A b \in 0 .. P : \A a \in 0 .. b :
           NamesBefore(P, numEvent)[a] <= NamesBefore(P, numEvent)[b]
<1> DEFINE c == NamesBefore(P, numEvent)
           S == {b \in 0 .. P : \A a \in 0 .. b : c[a] <= c[b]}
<1>1. c \in [0 .. P -> Nat] /\ \A k \in 1 .. P : c[k] = c[k - 1] + numEvent[k - 1]
  BY NamesBeforeDef
<1> HIDE DEF c
<1>2. 0 \in S
  BY <1>1
<1>3. ASSUME NEW b \in 0 .. P - 1, b \in S PROVE b + 1 \in S
  <2>1. b + 1 \in 1 .. P /\ (b + 1) - 1 = b /\ numEvent[b] \in Nat /\ c[b] \in Nat /\ b + 1 \in 0 .. P
    BY <1>1
  <2>2. c[b + 1] = c[b] + numEvent[b]
    BY <1>1, <2>1
  <2>3. ASSUME NEW a \in 0 .. b + 1 PROVE c[a] <= c[b + 1]
    <3>1. c[a] \in Nat
      BY <1>1, <2>1
    <3>2. CASE a = b + 1
      BY <3>1, <3>2
    <3>3. CASE a # b + 1
      <4>1. a \in 0 .. b
        BY <3>3
      <4>2. c[a] <= c[b]
        BY <1>3, <4>1
      <4> QED
        BY <2>1, <2>2, <3>1, <4>2
    <3> QED
      BY <3>2, <3>3
  <2> QED
    BY <2>1, <2>3
<1>4. \A b \in 0 .. P : b \in S
  <2> HIDE DEF S
  <2> QED
    BY <1>2, <1>3, InductTo
<1> QED
  BY <1>4 DEF c

\* Every name is an event's.
LEMMA NamesCover ==
  ASSUME NEW P \in Nat, NEW numEvent \in [0 .. P - 1 -> Nat]
  PROVE  \A x \in 1 .. NamesBefore(P, numEvent)[P] :
           \E i \in 0 .. P - 1 : \E j \in 1 .. numEvent[i] : x = NamesBefore(P, numEvent)[i] + j
<1> DEFINE c == NamesBefore(P, numEvent)
           Named(x) == \E i \in 0 .. P - 1 : \E j \in 1 .. numEvent[i] : x = c[i] + j
           S == {b \in 0 .. P : \A x \in 1 .. c[b] : Named(x)}
<1>1. /\ c \in [0 .. P -> Nat] /\ c[0] = 0
      /\ \A k \in 1 .. P : c[k] = c[k - 1] + numEvent[k - 1]
  BY NamesBeforeDef
<1> HIDE DEF c
<1>2. 0 \in S
  BY <1>1
<1>3. ASSUME NEW b \in 0 .. P - 1, b \in S PROVE b + 1 \in S
  <2>1. b + 1 \in 1 .. P /\ (b + 1) - 1 = b /\ numEvent[b] \in Nat /\ c[b] \in Nat /\ b + 1 \in 0 .. P
    BY <1>1
  <2>2. c[b + 1] = c[b] + numEvent[b]
    BY <1>1, <2>1
  <2>3. ASSUME NEW x \in 1 .. c[b + 1] PROVE Named(x)
    <3>1. CASE x <= c[b]
      <4>1. x \in 1 .. c[b]
        BY <2>1, <2>2, <3>1
      <4> QED
        BY <1>3, <4>1
    <3>2. CASE x > c[b]
      <4>1. x - c[b] \in 1 .. numEvent[b] /\ x = c[b] + (x - c[b])
        BY <2>1, <2>2, <3>2
      <4> QED
        BY <4>1
    <3> QED
      BY <2>1, <2>2, <3>1, <3>2
  <2> HIDE DEF Named
  <2> QED
    BY <2>1, <2>3
<1>4. \A b \in 0 .. P : b \in S
  <2> HIDE DEF S
  <2> QED
    BY <1>2, <1>3, InductTo
<1>5. P \in 0 .. P
  OBVIOUS
<1> QED
  BY <1>4, <1>5 DEF c

\* No process has more events than there are.
LEMMA TotNumEventsEach ==
  ASSUME NEW P \in Nat \ {0}, NEW numEvent \in [0 .. P - 1 -> Nat]
  PROVE  \A k \in 0 .. P - 1 : numEvent[k] <= TotNumEvents(P, numEvent)
<1> SUFFICES ASSUME NEW k \in 0 .. P - 1 PROVE numEvent[k] <= TotNumEvents(P, numEvent)
  OBVIOUS
<1> DEFINE c == NamesBefore(P, numEvent)
<1>1. c \in [0 .. P -> Nat] /\ \A i \in 1 .. P : c[i] = c[i - 1] + numEvent[i - 1]
  BY NamesBeforeDef
<1>2. \A b \in 0 .. P : \A a \in 0 .. b : c[a] <= c[b]
  BY NamesGrow
<1>3. TotNumEvents(P, numEvent) = c[P]
  BY DEF TotNumEvents
<1> HIDE DEF c
<1>4. k + 1 \in 1 .. P /\ (k + 1) - 1 = k /\ k + 1 \in 0 .. P /\ k \in 0 .. P /\ P \in 0 .. P
  OBVIOUS
<1>5. c[k + 1] = c[k] + numEvent[k] /\ c[k] \in Nat /\ numEvent[k] \in Nat /\ c[P] \in Nat
  BY <1>1, <1>4
<1>6. c[k + 1] <= c[P]
  BY <1>2, <1>4
<1> QED
  BY <1>3, <1>5, <1>6

\* Sums of numbers that are so related are too.
LEMMA ScaledSum ==
  ASSUME NEW f \in {1, 4}, NEW a \in Nat, NEW b \in Nat, NEW u \in Nat, NEW v \in Nat,
         u <= f * a, v <= f * b
  PROVE  u + v <= f * (a + b)
<1>1. CASE f = 1
  BY <1>1
<1>2. CASE f = 4
  BY <1>2
<1> QED
  BY <1>1, <1>2

\* Windows that are up to four times as large, or no larger, have up to four
\* times as many events, or no more.
LEMMA TotNumEventsGrow ==
  ASSUME NEW P \in Nat \ {0}, NEW few \in [0 .. P - 1 -> Nat], NEW many \in [0 .. P - 1 -> Nat],
         NEW f \in {1, 4}, \A k \in 0 .. P - 1 : many[k] <= f * few[k]
  PROVE  TotNumEvents(P, many) <= f * TotNumEvents(P, few)
<1> DEFINE c == NamesBefore(P, few)
           d == NamesBefore(P, many)
           S == {k \in 0 .. P : d[k] <= f * c[k]}
<1>1. /\ c \in [0 .. P -> Nat] /\ c[0] = 0
      /\ \A i \in 1 .. P : c[i] = c[i - 1] + few[i - 1]
  BY NamesBeforeDef
<1>2. /\ d \in [0 .. P -> Nat] /\ d[0] = 0
      /\ \A i \in 1 .. P : d[i] = d[i - 1] + many[i - 1]
  BY NamesBeforeDef
<1>3. TotNumEvents(P, few) = c[P] /\ TotNumEvents(P, many) = d[P]
  BY DEF TotNumEvents
<1> HIDE DEF c, d
<1>4. 0 \in S
  BY <1>1, <1>2
<1>5. ASSUME NEW k \in 0 .. P - 1, k \in S PROVE k + 1 \in S
  <2>1. k + 1 \in 1 .. P /\ (k + 1) - 1 = k /\ k + 1 \in 0 .. P /\ k \in 0 .. P
    OBVIOUS
  <2>2. c[k + 1] = c[k] + few[k] /\ c[k] \in Nat /\ few[k] \in Nat
    BY <1>1, <2>1
  <2>3. d[k + 1] = d[k] + many[k] /\ d[k] \in Nat /\ many[k] \in Nat
    BY <1>2, <2>1
  <2>4. d[k] <= f * c[k] /\ many[k] <= f * few[k]
    BY <1>5
  <2>5. d[k + 1] <= f * c[k + 1]
    BY <2>2, <2>3, <2>4, ScaledSum
  <2> QED
    BY <2>1, <2>5
<1>6. \A k \in 0 .. P : k \in S
  <2> HIDE DEF S
  <2> QED
    BY <1>4, <1>5, InductTo
<1>7. P \in 0 .. P
  OBVIOUS
<1> QED
  BY <1>3, <1>6, <1>7

\* An entry of hbSet: two names.
NamePair == [1 .. 2 -> Nat]

\* Two names make one.
LEMMA TupleIsPair ==
  ASSUME NEW a \in Nat, NEW b \in Nat
  PROVE  <<a, b>> \in NamePair
<1>1. <<a, b>> \in Seq(Nat) /\ Len(<<a, b>>) = 2
  OBVIOUS
<1>2. \A s \in Seq(Nat) : s \in [1 .. Len(s) -> Nat]
  OBVIOUS
<1> QED
  BY <1>1, <1>2 DEF NamePair

\* The pairs of one call, as a set: names of events of different processes at
\* least eps apart.
PairNamed(p, P, numEvent, eps) ==
  LET before == NamesBefore(P, numEvent)
  IN  \E i, k \in 0 .. P - 1 : \E j \in 1 .. numEvent[i], l \in 1 .. numEvent[k] :
        Ordered(i, j - 1, k, l - 1, eps) /\ p = <<before[i] + (j - 1) + 1, before[k] + l>>

\* The first name of a process is none of another one's.
LEMMA NamesApart ==
  ASSUME NEW ci \in Nat, NEW ck \in Nat, NEW ni \in Nat, NEW nk \in Nat, NEW all \in Nat,
         NEW j \in Nat, j >= 1, j <= ni, nk >= 1, ck + nk <= all,
         ci + ni <= ck \/ ck + nk <= ci
  PROVE  ck + 1 \in 1 .. all /\ ck + 1 # ci + j
OBVIOUS

\* With eps = 0 all events are tied, if two processes have some: an event is
\* entered with the first one of another process.
LEMMA AllTied ==
  ASSUME NEW P \in Nat \ {0}, NEW numEvent \in [0 .. P - 1 -> Nat], NEW entries,
         \A p : PairNamed(p, P, numEvent, 0) => p \in entries,
         \E i, k \in 0 .. P - 1 : i # k /\ numEvent[i] > 0 /\ numEvent[k] > 0
  PROVE  Tied(TotNumEvents(P, numEvent), entries)
<1> DEFINE c == NamesBefore(P, numEvent)
<1>1. c \in [0 .. P -> Nat] /\ \A i \in 1 .. P : c[i] = c[i - 1] + numEvent[i - 1]
  BY NamesBeforeDef
<1>2. \A b \in 0 .. P : \A a \in 0 .. b : c[a] <= c[b]
  BY NamesGrow
<1>3. TotNumEvents(P, numEvent) = c[P]
  BY DEF TotNumEvents
<1>4. \A x \in 1 .. c[P] : \E i \in 0 .. P - 1 : \E j \in 1 .. numEvent[i] : x = c[i] + j
  BY NamesCover
<1>5. ASSUME NEW p, NEW i \in 0 .. P - 1, NEW k \in 0 .. P - 1, NEW j \in 1 .. numEvent[i],
             NEW l \in 1 .. numEvent[k], Ordered(i, j - 1, k, l - 1, 0),
             p = <<c[i] + (j - 1) + 1, c[k] + l>>
      PROVE  p \in entries
  BY <1>5 DEF PairNamed
<1> HIDE DEF c
<1> SUFFICES ASSUME NEW x \in 1 .. c[P]
             PROVE  \E y \in 1 .. c[P] : y # x /\ <<y, x>> \in entries
  BY <1>3 DEF Tied
<1>6. PICK i \in 0 .. P - 1 : \E j \in 1 .. numEvent[i] : x = c[i] + j
  BY <1>4
<1>7. PICK j \in 1 .. numEvent[i] : x = c[i] + j
  BY <1>6
<1>8. PICK k \in 0 .. P - 1 : k # i /\ numEvent[k] > 0
  OBVIOUS
<1> DEFINE y == c[k] + 1
<1>9. ASSUME NEW a \in 0 .. P - 1, NEW b \in 0 .. P, a < b
      PROVE  c[a] + numEvent[a] <= c[b] /\ c[a] \in Nat /\ numEvent[a] \in Nat /\ c[b] \in Nat
  <2>1. a + 1 \in 1 .. P /\ (a + 1) - 1 = a /\ a + 1 \in 0 .. b
    BY <1>9
  <2>2. c[a + 1] = c[a] + numEvent[a] /\ c[a + 1] <= c[b]
    BY <1>1, <1>2, <2>1
  <2> QED
    BY <1>1, <2>2
<1>10. /\ i \in 0 .. P /\ k \in 0 .. P /\ P \in 0 .. P /\ k < P
       /\ c[i] \in Nat /\ c[k] \in Nat /\ c[P] \in Nat
       /\ numEvent[i] \in Nat /\ numEvent[k] \in Nat /\ numEvent[k] >= 1
  <2>1. i \in 0 .. P /\ k \in 0 .. P /\ P \in 0 .. P /\ k < P
    OBVIOUS
  <2>2. numEvent[i] \in Nat /\ numEvent[k] \in Nat
    OBVIOUS
  <2> QED
    BY <1>1, <1>8, <2>1, <2>2
<1>11. y \in 1 .. c[P] /\ y # x
  <2>1. j \in Nat /\ j >= 1 /\ j <= numEvent[i]
    BY <1>10
  <2>2. c[k] + numEvent[k] <= c[P]
    BY <1>9, <1>10
  <2>3. i < k => c[i] + numEvent[i] <= c[k]
    BY <1>9, <1>10
  <2>4. k < i => c[k] + numEvent[k] <= c[i]
    BY <1>9, <1>10
  <2>5. i < k \/ k < i
    BY <1>8, <1>10
  <2> QED
    BY <1>7, <1>10, <2>1, <2>2, <2>3, <2>4, <2>5, NamesApart
<1>12. <<y, x>> \in entries
  <2>1. 1 \in 1 .. numEvent[k] /\ j \in Nat /\ j >= 1 /\ c[k] \in Nat
    BY <1>10
  <2>2. Ordered(k, 1 - 1, i, j - 1, 0)
    BY <1>8, <2>1 DEF Ordered
  <2>3. y = c[k] + (1 - 1) + 1
    BY <2>1
  <2> HIDE DEF y
  <2> QED
    BY <1>5, <1>7, <2>1, <2>2, <2>3
<1> HIDE DEF y
<1> QED
  BY <1>11, <1>12

\* The loops enter these pairs, and no more than the windows W have room for.
LEMMA NewPairsAre ==
  ASSUME NEW P \in Nat, NEW numEvent \in [0 .. P - 1 -> Nat], NEW eps,
         NEW W \in Nat, \A i \in 0 .. P - 1 : numEvent[i] <= W
  PROVE  /\ NewPairs(P, numEvent, eps) \in Seq(NamePair)
         /\ \A p : Occurs(p, NewPairs(P, numEvent, eps)) <=> PairNamed(p, P, numEvent, eps)
         /\ Len(NewPairs(P, numEvent, eps)) <= P * (W * (P * W))
<1> DEFINE b == NamesBefore(P, numEvent)
           pair(i, j, k, l) == <<b[i] + j + 1, b[k] + l>>
           one(i, j, k, l) == IF Ordered(i, j, k, l - 1, eps) THEN << pair(i, j, k, l) >> ELSE <<>>
           rowParts(i, j, k) == [l \in 1 .. numEvent[k] |-> one(i, j, k, l)]
           row(i, j, k) == FlattenSeq(rowParts(i, j, k))
           rowsParts(i, j) == [k \in 1 .. P |-> row(i, j, k - 1)]
           rows(i, j) == FlattenSeq(rowsParts(i, j))
           blockParts(i) == [j \in 1 .. numEvent[i] |-> rows(i, j - 1)]
           block(i) == FlattenSeq(blockParts(i))
           allParts == [i \in 1 .. P |-> block(i - 1)]
           all == FlattenSeq(allParts)
           Procs == 0 .. P - 1
           PW == P * W
           WPW == W * PW
<1>1. NewPairs(P, numEvent, eps) = all
  BY DEF NewPairs
<1>2. PW \in Nat /\ WPW \in Nat
  OBVIOUS
<1>3. \A i \in Procs : numEvent[i] \in Nat
  OBVIOUS
<1>4. \A k \in 1 .. P : k - 1 \in Procs
  OBVIOUS
<1>5. \A k \in Procs : k + 1 \in 1 .. P /\ (k + 1) - 1 = k
  OBVIOUS
<1>6. ASSUME NEW i \in Procs, NEW j \in Nat, NEW k \in Procs, NEW l \in Nat
      PROVE  /\ one(i, j, k, l) \in Seq(NamePair) /\ Len(one(i, j, k, l)) <= 1
             /\ \A p : Occurs(p, one(i, j, k, l)) <=>
                        Ordered(i, j, k, l - 1, eps) /\ p = pair(i, j, k, l)
  <2>1. b[i] \in Nat /\ b[k] \in Nat
    <3>1. b \in [0 .. P -> Nat]
      BY NamesBeforeDef
    <3> HIDE DEF b
    <3> QED
      BY <3>1
  <2> HIDE DEF b
  <2>2. pair(i, j, k, l) \in NamePair
    BY <2>1, TupleIsPair, SMTT(30)
  <2> HIDE DEF pair
  <2>3. CASE Ordered(i, j, k, l - 1, eps)
    <3>1. one(i, j, k, l) = << pair(i, j, k, l) >>
      BY <2>3
    <3>2. << pair(i, j, k, l) >> \in Seq(NamePair) /\ Len(<< pair(i, j, k, l) >>) = 1
      BY <2>2
    <3>3. \A p : Occurs(p, << pair(i, j, k, l) >>) <=> p = pair(i, j, k, l)
      BY DEF Occurs
    <3>4. Len(one(i, j, k, l)) <= 1 /\ one(i, j, k, l) \in Seq(NamePair)
      BY <3>1, <3>2
    <3> HIDE DEF one
    <3>5. \A p : Occurs(p, one(i, j, k, l)) <=> p = pair(i, j, k, l)
      BY <3>1, <3>3, Zenon
    <3> QED
      BY <2>3, <3>4, <3>5, Zenon
  <2>4. CASE ~ Ordered(i, j, k, l - 1, eps)
    <3>1. one(i, j, k, l) = <<>>
      BY <2>4
    <3>2. <<>> \in Seq(NamePair) /\ Len(<<>>) = 0 /\ \A p : ~ Occurs(p, <<>>)
      BY DEF Occurs
    <3> QED
      BY <2>4, <3>1, <3>2
  <2> QED
    BY <2>3, <2>4
<1> HIDE DEF one, pair, Procs
<1>7. ASSUME NEW i \in Procs, NEW j \in Nat, NEW k \in Procs
      PROVE  /\ row(i, j, k) \in Seq(NamePair) /\ Len(row(i, j, k)) <= W
             /\ \A p : Occurs(p, row(i, j, k)) <=> \E l \in 1 .. numEvent[k] :
                          Ordered(i, j, k, l - 1, eps) /\ p = pair(i, j, k, l)
  <2>1. numEvent[k] \in Nat /\ \A l \in 1 .. numEvent[k] : l \in Nat
    BY <1>3
  <2>2. rowParts(i, j, k) \in [1 .. numEvent[k] -> Seq(NamePair)]
    BY <1>6, <2>1
  <2>3. \A l \in 1 .. numEvent[k] : rowParts(i, j, k)[l] = one(i, j, k, l)
    OBVIOUS
  <2> HIDE DEF rowParts
  <2>4. Joins(row(i, j, k), numEvent[k], rowParts(i, j, k), NamePair)
    BY <2>1, <2>2, FlattenJoins
  <2> HIDE DEF row
  <2>5. Len(row(i, j, k)) <= numEvent[k] * 1
    BY <1>6, <2>1, <2>3, <2>4 DEF Joins
  <2>6. numEvent[k] <= W
    BY DEF Procs
  <2>7. row(i, j, k) \in Seq(NamePair)
    BY <2>4 DEF Joins
  <2>8. Len(row(i, j, k)) <= W
    BY <2>1, <2>5, <2>6, <2>7
  <2>9. \A p : Occurs(p, row(i, j, k)) <=> \E l \in 1 .. numEvent[k] : Occurs(p, one(i, j, k, l))
    BY <2>3, <2>4, Zenon DEF Joins
  <2>10. \A p : \A l \in 1 .. numEvent[k] :
            Occurs(p, one(i, j, k, l)) <=> Ordered(i, j, k, l - 1, eps) /\ p = pair(i, j, k, l)
    BY <1>6, <2>1, Zenon
  <2>11. \A p : Occurs(p, row(i, j, k)) <=> \E l \in 1 .. numEvent[k] :
                  Ordered(i, j, k, l - 1, eps) /\ p = pair(i, j, k, l)
    BY <2>9, <2>10, Zenon
  <2> QED
    BY <2>7, <2>8, <2>11, Zenon
<1> HIDE DEF row
<1>8. ASSUME NEW i \in Procs, NEW j \in Nat
      PROVE  /\ rows(i, j) \in Seq(NamePair) /\ Len(rows(i, j)) <= PW
             /\ \A p : Occurs(p, rows(i, j)) <=> \E k \in Procs : \E l \in 1 .. numEvent[k] :
                          Ordered(i, j, k, l - 1, eps) /\ p = pair(i, j, k, l)
  <2>1. rowsParts(i, j) \in [1 .. P -> Seq(NamePair)]
    BY <1>4, <1>7
  <2>2. \A k \in 1 .. P : rowsParts(i, j)[k] = row(i, j, k - 1)
    OBVIOUS
  <2> HIDE DEF rowsParts
  <2>3. Joins(rows(i, j), P, rowsParts(i, j), NamePair)
    BY <2>1, FlattenJoins
  <2> HIDE DEF rows
  <2>4. \A k \in 1 .. P : Len(rowsParts(i, j)[k]) <= W
    BY <1>4, <1>7, <2>2
  <2>5. rows(i, j) \in Seq(NamePair) /\ Len(rows(i, j)) <= PW
    BY <2>3, <2>4 DEF Joins
  <2>6. \A p : Occurs(p, rows(i, j)) <=> \E k \in 1 .. P : Occurs(p, row(i, j, k - 1))
    BY <2>2, <2>3 DEF Joins
  <2>7. \A p : Occurs(p, rows(i, j)) <=> \E k \in Procs : Occurs(p, row(i, j, k))
    BY <1>4, <1>5, <2>6
  <2>8. \A p : \A k \in Procs :
           Occurs(p, row(i, j, k)) <=>
             \E l \in 1 .. numEvent[k] : Ordered(i, j, k, l - 1, eps) /\ p = pair(i, j, k, l)
    <3> SUFFICES ASSUME NEW k \in Procs
                 PROVE  \A p : Occurs(p, row(i, j, k)) <=> \E l \in 1 .. numEvent[k] :
                                 Ordered(i, j, k, l - 1, eps) /\ p = pair(i, j, k, l)
      OBVIOUS
    <3> QED
      BY <1>7
  <2>9. \A p : Occurs(p, rows(i, j)) <=> \E k \in Procs : \E l \in 1 .. numEvent[k] :
                 Ordered(i, j, k, l - 1, eps) /\ p = pair(i, j, k, l)
    BY <2>7, <2>8, Zenon
  <2> QED
    BY <2>5, <2>9, Zenon
<1> HIDE DEF rows, PW
<1>9. ASSUME NEW i \in Procs
      PROVE  /\ block(i) \in Seq(NamePair) /\ Len(block(i)) <= WPW
             /\ \A p : Occurs(p, block(i)) <=>
                          \E j \in 1 .. numEvent[i] : \E k \in Procs : \E l \in 1 .. numEvent[k] :
                             Ordered(i, j - 1, k, l - 1, eps) /\ p = pair(i, j - 1, k, l)
  <2>1. numEvent[i] \in Nat /\ \A j \in 1 .. numEvent[i] : j - 1 \in Nat
    BY <1>3
  <2>2. blockParts(i) \in [1 .. numEvent[i] -> Seq(NamePair)]
    BY <1>8, <2>1
  <2>3. \A j \in 1 .. numEvent[i] : blockParts(i)[j] = rows(i, j - 1)
    OBVIOUS
  <2> HIDE DEF blockParts
  <2>4. Joins(block(i), numEvent[i], blockParts(i), NamePair)
    BY <2>1, <2>2, FlattenJoins
  <2> HIDE DEF block
  <2>5. \A j \in 1 .. numEvent[i] : Len(blockParts(i)[j]) <= PW
    BY <1>8, <2>1, <2>3
  <2>6. block(i) \in Seq(NamePair) /\ Len(block(i)) <= numEvent[i] * PW
    BY <1>2, <2>4, <2>5 DEF Joins
  <2>7. numEvent[i] * PW <= WPW /\ numEvent[i] * PW \in Nat
    <3>1. numEvent[i] <= W
      BY DEF Procs
    <3>2. \A x \in Nat : x <= W => x * PW <= W * PW /\ x * PW \in Nat
      BY <1>2
    <3> QED
      BY <2>1, <3>1, <3>2
  <2>8. Len(block(i)) <= WPW
    <3> HIDE DEF WPW
    <3>1. Len(block(i)) \in Nat
      BY <2>6
    <3> QED
      BY <1>2, <2>6, <2>7, <3>1
  <2>9. \A p : Occurs(p, block(i)) <=> \E j \in 1 .. numEvent[i] : Occurs(p, rows(i, j - 1))
    BY <2>3, <2>4 DEF Joins
  <2> QED
    BY <1>8, <2>1, <2>6, <2>8, <2>9
<1> HIDE DEF block, WPW
<1>10. allParts \in [1 .. P -> Seq(NamePair)]
  BY <1>4, <1>9
<1>11. \A i \in 1 .. P : allParts[i] = block(i - 1)
  OBVIOUS
<1> HIDE DEF allParts
<1>12. Joins(all, P, allParts, NamePair)
  BY <1>10, FlattenJoins
<1> HIDE DEF all
<1>13. \A i \in 1 .. P : Len(allParts[i]) <= WPW
  BY <1>4, <1>9, <1>11
<1>14. all \in Seq(NamePair) /\ Len(all) <= P * WPW
  BY <1>2, <1>12, <1>13 DEF Joins
<1>15. \A p : Occurs(p, all) <=> \E i \in Procs : Occurs(p, block(i))
  <2>1. \A p : Occurs(p, all) <=> \E i \in 1 .. P : Occurs(p, block(i - 1))
    BY <1>11, <1>12 DEF Joins
  <2> QED
    BY <1>4, <1>5, <2>1
<1>16. \A p : Occurs(p, all) <=> PairNamed(p, P, numEvent, eps)
  BY <1>9, <1>15, SMTT(30) DEF PairNamed, pair, Procs
<1> QED
  BY <1>1, <1>14, <1>16 DEF PW, WPW

\* The loops enter pairs of names.
LEMMA NewPairsType ==
  ASSUME NEW P \in Nat, NEW numEvent \in [0 .. P - 1 -> Nat], NEW eps
  PROVE  NewPairs(P, numEvent, eps) \in Seq(NamePair)
<1>1. PICK W \in Nat : \A i \in 0 .. P - 1 : numEvent[i] <= W
  <2> DEFINE S == {n \in 0 .. P : \E W \in Nat : \A i \in 0 .. n - 1 : numEvent[i] <= W}
  <2>1. 0 \in S
    OBVIOUS
  <2>2. ASSUME NEW n \in 0 .. P - 1, n \in S PROVE n + 1 \in S
    <3>1. PICK W \in Nat : \A i \in 0 .. n - 1 : numEvent[i] <= W
      BY <2>2
    <3>2. W + numEvent[n] \in Nat /\ \A i \in 0 .. n : numEvent[i] <= W + numEvent[n]
      BY <3>1, SMTT(30)
    <3>3. n + 1 \in 0 .. P /\ (n + 1) - 1 = n
      OBVIOUS
    <3> QED
      BY <3>2, <3>3
  <2>3. \A n \in 0 .. P : n \in S
    <3> HIDE DEF S
    <3> QED
      BY <2>1, <2>2, InductTo
  <2>4. P \in S
    <3> HIDE DEF S
    <3> QED
      BY <2>3
  <2> QED
    BY <2>4, Zenon
<1> QED
  BY <1>1, NewPairsAre

\* hbSet and its counter.
Tables == [hbSet : [0 .. HbMax - 1 -> NamePair], numHbSet : 0 .. HbMax, wild : BOOLEAN]

\* The table to begin with.
LEMMA EmptyTableType == EmptyTable \in Tables
<1>1. <<0, 0>> \in NamePair
  BY TupleIsPair
<1> QED
  BY <1>1, HbMaxAssumption DEF EmptyTable, Tables

\* An entry leaves the counter inside the table, or one past its end: when it
\* is overwritten it becomes a name below HbMax, plus one.
LEMMA EnterType ==
  ASSUME NEW t \in Tables, NEW p \in NamePair
  PROVE  Enter(t, p) \in Tables
<1>1. HbMax \in Nat /\ t.numHbSet \in 0 .. HbMax /\ p[1] \in Nat /\ p[2] \in Nat
  BY HbMaxAssumption DEF Tables, NamePair
<1>2. CASE t.wild
  BY <1>2 DEF Enter
<1>3. CASE ~ t.wild /\ t.numHbSet < HbMax
  <2>1. t.numHbSet \in 0 .. HbMax - 1 /\ t.numHbSet + 1 \in 0 .. HbMax
    BY <1>1, <1>3
  <2>2. Enter(t, p) = [t EXCEPT !.hbSet[t.numHbSet] = p, !.numHbSet = @ + 1]
    BY <1>3 DEF Enter
  <2> QED
    BY <2>1, <2>2 DEF Tables
<1>4. CASE ~ t.wild /\ ~ (t.numHbSet < HbMax) /\ p[1] < HbMax
  <2>1. p[1] \in 0 .. HbMax - 1 /\ p[1] + 1 \in 0 .. HbMax
    BY <1>1, <1>4
  <2>2. [t.hbSet[p[1]] EXCEPT ![2] = p[2]] \in NamePair
    BY <1>1, <2>1 DEF Tables, NamePair
  <2>3. Enter(t, p) = [t EXCEPT !.hbSet[p[1]][2] = p[2], !.numHbSet = p[1] + 1]
    BY <1>4 DEF Enter
  <2> QED
    BY <2>1, <2>2, <2>3 DEF Tables
<1>5. CASE ~ t.wild /\ ~ (t.numHbSet < HbMax) /\ ~ (p[1] < HbMax)
  BY <1>5 DEF Enter, Tables
<1> QED
  BY <1>2, <1>3, <1>4, <1>5

\* The tables between the entries of a call.
EntersBy(c, n, table, pairs) ==
  /\ c[0] = table
  /\ \A x \in 1 .. n : c[x] = Enter(c[x - 1], pairs[x])
  /\ \A x \in 0 .. n : c[x] \in Tables
  /\ EnterAll(table, pairs) = c[n]

LEMMA EnterAllBy ==
  ASSUME NEW table \in Tables, NEW pairs \in Seq(NamePair)
  PROVE  \E c : EntersBy(c, Len(pairs), table, pairs)
<1> DEFINE n == Len(pairs)
           G == [x \in Tables \X (1 .. n) |-> Enter(x[1], pairs[x[2]])]
           Next(t, x) == CHOOSE next \in {Enter(u, pairs[x]) : u \in {t}} : TRUE
           E(g) == [x \in 0 .. n |-> IF x = 0 THEN table ELSE Next(g[x - 1], x)]
           c == CHOOSE g : g = E(g)
<1>1. n \in Nat /\ \A x \in 1 .. n : pairs[x] \in NamePair
  OBVIOUS
<1>2. \A t, x : Next(t, x) = Enter(t, pairs[x])
  OBVIOUS
<1>3. EnterAll(table, pairs) = c[n]
  BY DEF EnterAll
<1> HIDE DEF Next
<1>4. G \in [Tables \X (1 .. n) -> Tables]
  <2> HIDE DEF n
  <2> QED
    BY <1>1, EnterType
<1>5. PICK f : Recurs(f, n, Tables, table, G)
  <2> HIDE DEF G, n
  <2> QED
    BY <1>1, <1>4, Recursion
<1>6. ASSUME NEW x \in 1 .. n PROVE f[x] = Next(f[x - 1], x)
  <2>1. f[x - 1] \in Tables
    BY <1>1, <1>5 DEF Recurs
  <2>2. G[<<f[x - 1], x>>] = Enter(f[x - 1], pairs[x])
    BY <2>1
  <2> HIDE DEF G
  <2> QED
    BY <1>2, <1>5, <2>2 DEF Recurs
<1>7. f = E(f)
  BY <1>5, <1>6 DEF Recurs
<1>8. c = E(c)
  <2> HIDE DEF E
  <2> QED
    BY <1>7
<1> HIDE DEF c, G
<1>9. c[0] = table /\ \A x \in 1 .. n : c[x] = Enter(c[x - 1], pairs[x])
  BY <1>1, <1>2, <1>8
<1> DEFINE S == {x \in 0 .. n : c[x] \in Tables}
<1>10. 0 \in S
  BY <1>1, <1>9
<1>11. ASSUME NEW x \in 0 .. n - 1, x \in S PROVE x + 1 \in S
  <2>1. x + 1 \in 1 .. n /\ x + 1 \in 0 .. n /\ (x + 1) - 1 = x
    BY <1>1
  <2>2. c[x + 1] = Enter(c[x], pairs[x + 1]) /\ pairs[x + 1] \in NamePair
    BY <1>1, <1>9, <2>1
  <2>3. c[x + 1] \in Tables
    BY <1>11, <2>2, EnterType
  <2> QED
    BY <2>1, <2>3
<1>12. \A x \in 0 .. n : x \in S
  <2> HIDE DEF S, n
  <2> QED
    BY <1>1, <1>10, <1>11, InductTo
<1>13. \A x \in 0 .. n : c[x] \in Tables
  BY <1>12
<1> HIDE DEF E, S
<1>14. EntersBy(c, n, table, pairs)
  BY <1>3, <1>9, <1>13 DEF EntersBy
<1> QED
  BY <1>14

\* The type of the table after a call.
LEMMA EnterAllType ==
  ASSUME NEW table \in Tables, NEW pairs \in Seq(NamePair)
  PROVE  EnterAll(table, pairs) \in Tables
<1>1. PICK c : EntersBy(c, Len(pairs), table, pairs)
  BY EnterAllBy
<1>2. Len(pairs) \in 0 .. Len(pairs)
  OBVIOUS
<1> QED
  BY <1>1, <1>2 DEF EntersBy

\* While there is room an entry goes behind the others.
LEMMA EnterWithRoom ==
  ASSUME NEW t \in Tables, NEW p \in NamePair, ~ t.wild, t.numHbSet < HbMax
  PROVE  /\ ~ Enter(t, p).wild
         /\ Enter(t, p).numHbSet = t.numHbSet + 1
         /\ Enter(t, p).hbSet[t.numHbSet] = p
         /\ \A e \in 0 .. HbMax - 1 : e # t.numHbSet => Enter(t, p).hbSet[e] = t.hbSet[e]
<1>1. Enter(t, p) = [t EXCEPT !.hbSet[t.numHbSet] = p, !.numHbSet = @ + 1]
  BY DEF Enter
<1>2. t.numHbSet \in 0 .. HbMax - 1
  BY HbMaxAssumption DEF Tables
<1> QED
  BY <1>1, <1>2 DEF Tables

\* A call that the table has room for adds all its pairs to the entries.
LEMMA EnterAllWithRoom ==
  ASSUME NEW table \in Tables, NEW pairs \in Seq(NamePair), ~ table.wild,
         table.numHbSet + Len(pairs) <= HbMax
  PROVE  /\ ~ EnterAll(table, pairs).wild
         /\ EnterAll(table, pairs).numHbSet = table.numHbSet + Len(pairs)
         /\ \A p : Occurs(p, pairs) => p \in Entries(EnterAll(table, pairs))
         /\ Entries(table) \subseteq Entries(EnterAll(table, pairs))
<1> DEFINE n == Len(pairs)
           N == table.numHbSet
<1>1. n \in Nat /\ N \in Nat /\ HbMax \in Nat /\ N + n <= HbMax
      /\ \A x \in 1 .. n : pairs[x] \in NamePair
  BY HbMaxAssumption DEF Tables
<1>2. PICK c : EntersBy(c, n, table, pairs)
  BY EnterAllBy
<1> HIDE DEF n, N
<1> DEFINE S == {x \in 0 .. n : /\ ~ c[x].wild /\ c[x].numHbSet = N + x
                                /\ \A e \in 0 .. N - 1 : c[x].hbSet[e] = table.hbSet[e]
                                /\ \A y \in 1 .. x : c[x].hbSet[N + y - 1] = pairs[y]}
<1>3. 0 \in S
  BY <1>1, <1>2 DEF EntersBy, N
<1>4. ASSUME NEW x \in 0 .. n - 1, x \in S PROVE x + 1 \in S
  <2>1. x + 1 \in 1 .. n /\ x + 1 \in 0 .. n /\ (x + 1) - 1 = x /\ x \in 0 .. n /\ x \in Nat
    BY <1>1
  <2>2. /\ c[x] \in Tables /\ ~ c[x].wild /\ c[x].numHbSet = N + x /\ N + x < HbMax
        /\ c[x + 1] = Enter(c[x], pairs[x + 1]) /\ pairs[x + 1] \in NamePair
    BY <1>1, <1>2, <1>4, <2>1 DEF EntersBy
  <2>3. /\ ~ c[x + 1].wild /\ c[x + 1].numHbSet = (N + x) + 1
        /\ c[x + 1].hbSet[N + x] = pairs[x + 1]
        /\ \A e \in 0 .. HbMax - 1 : e # N + x => c[x + 1].hbSet[e] = c[x].hbSet[e]
    BY <2>2, EnterWithRoom
  <2>4. ASSUME NEW y \in 1 .. x + 1 PROVE c[x + 1].hbSet[N + y - 1] = pairs[y]
    <3>1. CASE y = x + 1
      <4>1. N + y - 1 = N + x
        BY <1>1, <2>1, <3>1
      <4> QED
        BY <2>3, <3>1, <4>1
    <3>2. CASE y # x + 1
      <4>1. N \in Nat /\ HbMax \in Nat /\ N + x < HbMax /\ x \in Nat
        BY <1>1, <2>1, <2>2
      <4>2. y \in 1 .. x
        BY <2>1, <3>2
      <4>3. N + y - 1 \in 0 .. HbMax - 1 /\ N + y - 1 # N + x
        BY <4>1, <4>2
      <4> QED
        BY <1>4, <2>3, <4>2, <4>3
    <3> QED
      BY <3>1, <3>2
  <2>5. (N + x) + 1 = N + (x + 1)
    BY <1>1, <2>1
  <2>6. ASSUME NEW e \in 0 .. N - 1 PROVE c[x + 1].hbSet[e] = table.hbSet[e]
    <3>1. e \in 0 .. HbMax - 1 /\ e # N + x
      BY <1>1, <2>1
    <3> QED
      BY <1>4, <2>3, <3>1
  <2> QED
    BY <2>1, <2>3, <2>4, <2>5, <2>6
<1>5. \A x \in 0 .. n : x \in S
  <2> HIDE DEF S
  <2> QED
    BY <1>1, <1>3, <1>4, InductTo
<1>6. /\ ~ c[n].wild /\ c[n].numHbSet = N + n
      /\ \A e \in 0 .. N - 1 : c[n].hbSet[e] = table.hbSet[e]
      /\ \A y \in 1 .. n : c[n].hbSet[N + y - 1] = pairs[y]
  BY <1>1, <1>5, SMTT(30)
<1>7. ASSUME NEW y \in 1 .. n PROVE pairs[y] \in Entries(c[n])
  <2>1. N + y - 1 \in 0 .. c[n].numHbSet - 1 /\ c[n].hbSet[N + y - 1] = pairs[y]
    BY <1>1, <1>6
  <2> QED
    BY <2>1 DEF Entries
<1>8. EnterAll(table, pairs) = c[n]
  BY <1>2 DEF EntersBy
<1>9. ASSUME NEW e \in 0 .. N - 1 PROVE table.hbSet[e] \in Entries(c[n])
  <2>1. e \in 0 .. c[n].numHbSet - 1 /\ c[n].hbSet[e] = table.hbSet[e]
    BY <1>1, <1>6
  <2> QED
    BY <2>1 DEF Entries
<1>10. Entries(table) \subseteq Entries(c[n])
  BY <1>9 DEF Entries, N
<1> HIDE DEF S
<1> QED
  BY <1>6, <1>7, <1>8, <1>10 DEF Occurs, n, N
=============================================================================
