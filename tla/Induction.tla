----------------------------- MODULE Induction ------------------------------
(***************************************************************************)
(* Induction over the natural numbers and definition by recursion, stated  *)
(* with sets and functions instead of operators, and what follows for      *)
(* FlattenSeq.  The proofs about loops over data rest on these lemmas.     *)
(***************************************************************************)
EXTENDS Integers, Sequences, SequencesExt, WellFoundedInduction, TLAPS

\* A non-empty set of natural numbers has a least element.
LEMMA LeastNatural ==
  ASSUME NEW T \in SUBSET Nat, T # {}
  PROVE  \E x \in T : \A y \in T : x <= y
<1> DEFINE R == OpToRel(<, Nat)
<1>1. IsWellFoundedOn(R, Nat)
  BY NatLessThanWellFounded
<1>2. \A y, x \in Nat : <<y, x>> \in R <=> y < x
  BY DEF OpToRel
<1> HIDE DEF R
<1>3. PICK x \in T : \A y \in T : ~ (<<y, x>> \in R)
  BY <1>1, WFMin
<1>4. \A y \in T : x <= y
  <2> SUFFICES ASSUME NEW y \in T PROVE x <= y
    OBVIOUS
  <2>1. x \in Nat /\ y \in Nat
    OBVIOUS
  <2>2. ~ (y < x)
    BY <1>2, <1>3, <2>1
  <2> QED
    BY <2>1, <2>2
<1> QED
  BY <1>4

\* Induction: a set with 0 that is closed under successor has every number.
LEMMA Induct ==
  ASSUME NEW S, 0 \in S, \A k \in Nat : k \in S => k + 1 \in S
  PROVE  Nat \subseteq S
<1> SUFFICES ASSUME Nat \ S # {} PROVE FALSE
  OBVIOUS
<1>1. PICK x \in Nat \ S : \A y \in Nat \ S : x <= y
  BY LeastNatural
<1>2. x # 0 /\ x - 1 \in Nat
  OBVIOUS
<1>3. x - 1 \in S
  BY <1>1, <1>2
<1> QED
  BY <1>2, <1>3

\* The same up to a bound.
LEMMA InductTo ==
  ASSUME NEW n \in Nat, NEW S, 0 \in S,
         \A k \in 0 .. n - 1 : k \in S => k + 1 \in S
  PROVE  \A k \in 0 .. n : k \in S
<1> DEFINE T == {k \in Nat : k <= n => k \in S}
<1>1. 0 \in T
  OBVIOUS
<1>2. \A k \in Nat : k \in T => k + 1 \in T
  OBVIOUS
<1>3. Nat \subseteq T
  <2> HIDE DEF T
  <2> QED
    BY <1>1, <1>2, Induct
<1> QED
  BY <1>3

\* The values f[0..n] from D start with d and go on by G.
Recurs(f, n, D, d, G) ==
  /\ f \in [0 .. n -> D]
  /\ f[0] = d
  /\ \A i \in 1 .. n : f[i] = G[<<f[i - 1], i>>]

\* Definition by recursion: such a function exists for every n.
LEMMA Recursion ==
  ASSUME NEW D, NEW d \in D, NEW n \in Nat, NEW G \in [D \X (1 .. n) -> D]
  PROVE  \E f : Recurs(f, n, D, d, G)
<1> USE DEF Recurs
<1> DEFINE Defines(f, k) == Recurs(f, k, D, d, G)
           S == {k \in Nat : k <= n => \E f : Defines(f, k)}
<1>1. 0 \in S
  <2>1. Defines([k \in 0 .. 0 |-> d], 0)
    OBVIOUS
  <2> HIDE DEF Defines
  <2> QED
    BY <2>1
<1>2. ASSUME NEW k \in Nat, k \in S PROVE k + 1 \in S
  <2> SUFFICES ASSUME k + 1 <= n PROVE \E f : Defines(f, k + 1)
    OBVIOUS
  <2>1. PICK f : Defines(f, k)
    BY <1>2
  <2> DEFINE g == [i \in 0 .. k + 1 |-> IF i <= k THEN f[i] ELSE G[<<f[k], k + 1>>]]
  <2>2. G[<<f[k], k + 1>>] \in D
    BY <2>1
  <2>3. g \in [0 .. k + 1 -> D]
    BY <2>1, <2>2
  <2>4. g[0] = d
    BY <2>1
  <2>5. \A i \in 1 .. k + 1 : g[i] = G[<<g[i - 1], i>>]
    <3> SUFFICES ASSUME NEW i \in 1 .. k + 1 PROVE g[i] = G[<<g[i - 1], i>>]
      OBVIOUS
    <3>1. g[i - 1] = f[i - 1]
      OBVIOUS
    <3>2. CASE i <= k
      BY <2>1, <3>1, <3>2
    <3>3. CASE i = k + 1
      <4>1. g[i] = G[<<f[k], k + 1>>]
        BY <3>3
      <4>2. f[i - 1] = f[k]
        BY <3>3
      <4> QED
        BY <3>1, <3>3, <4>1, <4>2
    <3> QED
      BY <3>2, <3>3
  <2> HIDE DEF g
  <2>6. Defines(g, k + 1)
    BY <2>3, <2>4, <2>5
  <2> HIDE DEF Defines
  <2> QED
    BY <2>6
<1>3. n \in S
  <2> HIDE DEF S
  <2> QED
    BY <1>1, <1>2, Induct
<1> QED
  BY <1>3

\* Two functions that recur alike are equal where both are defined.
LEMMA RecursionAgrees ==
  ASSUME NEW D, NEW d, NEW G, NEW m \in Nat, NEW n \in Nat, m <= n,
         NEW f, Recurs(f, m, D, d, G), NEW g, Recurs(g, n, D, d, G)
  PROVE  \A k \in 0 .. m : f[k] = g[k]
<1> DEFINE S == {k \in 0 .. m : f[k] = g[k]}
<1>1. 0 \in S
  BY DEF Recurs
<1>2. ASSUME NEW k \in 0 .. m - 1, k \in S PROVE k + 1 \in S
  <2>1. k + 1 \in 1 .. m /\ k + 1 \in 1 .. n /\ k + 1 \in 0 .. m /\ (k + 1) - 1 = k
    OBVIOUS
  <2>2. f[k + 1] = G[<<f[k], k + 1>>] /\ g[k + 1] = G[<<g[k], k + 1>>]
    BY <2>1 DEF Recurs
  <2>3. f[k] = g[k]
    BY <1>2
  <2> QED
    BY <2>1, <2>2, <2>3
<1>3. \A k \in 0 .. m : k \in S
  <2> HIDE DEF S
  <2> QED
    BY <1>1, <1>2, InductTo
<1> QED
  BY <1>3

\* The same for all numbers.
RecursNat(f, D, d, G) ==
  /\ f \in [Nat -> D]
  /\ f[0] = d
  /\ \A k \in Nat : f[k + 1] = G[<<f[k], k + 1>>]

\* Definition by recursion over all numbers.
LEMMA RecursionNat ==
  ASSUME NEW D, NEW d \in D, NEW G \in [D \X Nat -> D]
  PROVE  \E f : RecursNat(f, D, d, G)
<1>1. ASSUME NEW n \in Nat PROVE \E f : Recurs(f, n, D, d, G)
  <2> DEFINE H == [x \in D \X (1 .. n) |-> G[x]]
  <2>1. H \in [D \X (1 .. n) -> D]
    OBVIOUS
  <2>2. PICK f : Recurs(f, n, D, d, H)
    <3> HIDE DEF H
    <3> QED
      BY <2>1, Recursion
  <2>3. ASSUME NEW k \in 1 .. n PROVE f[k] = G[<<f[k - 1], k>>]
    <3>1. k - 1 \in 0 .. n
      OBVIOUS
    <3>2. f[k - 1] \in D
      BY <2>2, <3>1 DEF Recurs
    <3>3. H[<<f[k - 1], k>>] = G[<<f[k - 1], k>>]
      BY <3>2
    <3> HIDE DEF H
    <3> QED
      BY <2>2, <3>3 DEF Recurs
  <2>4. Recurs(f, n, D, d, G)
    BY <2>2, <2>3 DEF Recurs
  <2> QED
    BY <2>4
<1> DEFINE part(n) == CHOOSE f : Recurs(f, n, D, d, G)
           f == [n \in Nat |-> part(n)[n]]
<1>2. \A n \in Nat : Recurs(part(n), n, D, d, G)
  BY <1>1
<1> HIDE DEF part
<1>3. f \in [Nat -> D]
  <2>1. \A n \in Nat : part(n)[n] \in D
    BY <1>2 DEF Recurs
  <2> QED
    BY <2>1
<1>4. f[0] = d
  BY <1>2 DEF Recurs
<1>5. ASSUME NEW k \in Nat PROVE f[k + 1] = G[<<f[k], k + 1>>]
  <2>1. k + 1 \in Nat /\ k <= k + 1 /\ k \in 0 .. k /\ k + 1 \in 1 .. k + 1 /\ (k + 1) - 1 = k
    OBVIOUS
  <2>2. Recurs(part(k), k, D, d, G) /\ Recurs(part(k + 1), k + 1, D, d, G)
    BY <1>2, <2>1
  <2>3. part(k)[k] = part(k + 1)[k]
    BY <2>1, <2>2, RecursionAgrees
  <2>4. part(k + 1)[k + 1] = G[<<part(k + 1)[k], k + 1>>]
    BY <2>1, <2>2 DEF Recurs
  <2> QED
    BY <2>1, <2>3, <2>4
<1> HIDE DEF f
<1> QED
  BY <1>3, <1>4, <1>5 DEF RecursNat

-----------------------------------------------------------------------------
\* A function on 1 .. k is a sequence of length k.
LEMMA FunctionIsSequence ==
  ASSUME NEW S, NEW k \in Nat, NEW f \in [1 .. k -> S]
  PROVE  f \in Seq(S) /\ Len(f) = k
OBVIOUS

\* Appending keeps the entries before.
LEMMA AppendEntries ==
  ASSUME NEW S, NEW s \in Seq(S), NEW x \in S
  PROVE  /\ Append(s, x) \in Seq(S)
         /\ Len(Append(s, x)) = Len(s) + 1
         /\ Append(s, x)[Len(s) + 1] = x
         /\ \A k \in 1 .. Len(s) : Append(s, x)[k] = s[k]
OBVIOUS

\* FlattenSeq puts one part after the other: its partial results f[k] begin
\* empty, and each one appends the next part.  Q is the set of sequences the
\* parts are from.
Flattens(f, n, Q, parts) ==
  /\ f \in [0 .. n -> Q]
  /\ f[0] = <<>>
  /\ \A k \in 1 .. n : f[k] = f[k - 1] \o parts[k]
  /\ FlattenSeq(parts) = f[n]

\* Such partial results exist.
LEMMA FlattenOf ==
  ASSUME NEW Q, <<>> \in Q, \A x, y \in Q : x \o y \in Q, \A x \in Q : <<>> \o x = x,
         NEW parts, NEW n \in Nat, n = Len(parts), n = 0 => parts = <<>>,
         \A k \in 1 .. n : parts[k] \in Q
  PROVE  \E f : Flattens(f, n, Q, parts)
<1> DEFINE G == [x \in Q \X (1 .. n) |-> x[1] \o parts[x[2]]]
<1>2. G \in [Q \X (1 .. n) -> Q]
  OBVIOUS
<1>3. PICK f \in [0 .. n -> Q] :
        f[0] = <<>> /\ \A k \in 1 .. n : f[k] = G[<<f[k - 1], k>>]
  <2> DEFINE e == <<>>
  <2>1. e \in Q
    OBVIOUS
  <2> HIDE DEF G, e
  <2>2. \E f : Recurs(f, n, Q, e, G)
    BY <1>2, <2>1, Recursion
  <2> QED
    BY <2>2 DEF e, Recurs
<1>4. ASSUME NEW k \in 1 .. n PROVE f[k] = f[k - 1] \o parts[k]
  <2>1. k - 1 \in 0 .. n
    OBVIOUS
  <2>2. f[k - 1] \in Q
    BY <2>1
  <2>3. G[<<f[k - 1], k>>] = f[k - 1] \o parts[k]
    BY <2>2
  <2> HIDE DEF G
  <2> QED
    BY <1>3, <2>3
<1> HIDE DEF G
<1>5. CASE n = 0
  <2>1. FlattenSeq(parts) = parts
    BY <1>5 DEF FlattenSeq
  <2> QED
    BY <1>3, <1>5, <2>1 DEF Flattens
<1>6. CASE n > 0
  <2> DEFINE E(g) == [k \in 1 .. n |-> IF k = 1 THEN parts[k] ELSE g[k - 1] \o parts[k]]
             h == [k \in 1 .. n |-> f[k]]
             c == CHOOSE g : g = E(g)
  <2>1. FlattenSeq(parts) = c[n]
    BY <1>6 DEF FlattenSeq
  <2>2. f[1] = parts[1]
    <3>1. 1 \in 1 .. n /\ f[1 - 1] = <<>> /\ parts[1] \in Q
      BY <1>3, <1>6
    <3>2. f[1] = f[1 - 1] \o parts[1]
      BY <1>4, <3>1
    <3> QED
      BY <3>1, <3>2
  <2>3. h = E(h)
    <3>1. \A k \in 1 .. n : k # 1 => h[k - 1] = f[k - 1]
      OBVIOUS
    <3>2. \A k \in 1 .. n : f[k] = IF k = 1 THEN parts[k] ELSE h[k - 1] \o parts[k]
      BY <1>4, <2>2, <3>1
    <3> QED
      BY <3>2
  <2>4. c = E(c)
    <3> HIDE DEF E, h
    <3> QED
      BY <2>3
  <2> HIDE DEF c, h
  <2>9. \A k \in 1 .. n : c[k] = IF k = 1 THEN parts[k] ELSE c[k - 1] \o parts[k]
    BY <2>4
  <2> DEFINE T == {k \in Nat : k \in 1 .. n => c[k] = f[k]}
  <2>5. 0 \in T
    OBVIOUS
  <2>6. ASSUME NEW k \in 0 .. n - 1, k \in T PROVE k + 1 \in T
    <3>1. k + 1 \in 1 .. n /\ (k + 1) - 1 = k
      OBVIOUS
    <3>2. CASE k = 0
      BY <2>2, <2>9, <3>1, <3>2
    <3>3. CASE k # 0
      <4>1. c[k] = f[k]
        BY <2>6, <3>3
      <4>2. c[k + 1] = c[k] \o parts[k + 1]
        <5>1. k + 1 # 1
          BY <3>3
        <5>2. c[k + 1] = c[(k + 1) - 1] \o parts[k + 1]
          BY <2>9, <3>1, <5>1, Zenon
        <5> QED
          BY <3>1, <5>2, Zenon
      <4>3. f[k + 1] = f[k] \o parts[k + 1]
        BY <1>4, <3>1
      <4>4. c[k + 1] = f[k + 1]
        BY <4>1, <4>2, <4>3, Zenon
      <4> QED
        BY <3>1, <4>4
    <3> QED
      BY <3>2, <3>3
  <2>7. n \in T
    <3>1. n \in 0 .. n
      OBVIOUS
    <3> HIDE DEF T
    <3> QED
      BY <2>5, <2>6, <3>1, InductTo, Zenon
  <2>8. c[n] = f[n]
    BY <1>6, <2>7
  <2> QED
    BY <1>3, <1>4, <2>1, <2>8 DEF Flattens
<1>7. n = 0 \/ n > 0
  OBVIOUS
<1> QED
  BY <1>5, <1>6, <1>7, Zenon

\* Facts about sequences of sequences.
LEMMA PartsType ==
  ASSUME NEW S, NEW parts \in Seq(Seq(S))
  PROVE  /\ <<>> \in Seq(S)
         /\ \A x, y \in Seq(S) : x \o y \in Seq(S)
         /\ \A x \in Seq(S) : <<>> \o x = x
         /\ Len(parts) \in Nat
         /\ Len(parts) = 0 => parts = <<>>
         /\ \A k \in 1 .. Len(parts) : parts[k] \in Seq(S)
<1>1. <<>> \in Seq(S)
  OBVIOUS
<1>2. \A x, y \in Seq(S) : x \o y \in Seq(S)
  OBVIOUS
<1>3. \A x \in Seq(S) : <<>> \o x = x
  OBVIOUS
<1>4. Len(parts) \in Nat /\ (Len(parts) = 0 => parts = <<>>)
  OBVIOUS
<1>5. \A k \in 1 .. Len(parts) : parts[k] \in Seq(S)
  OBVIOUS
<1> QED
  BY <1>1, <1>2, <1>3, <1>4, <1>5, Zenon

\* The same for sequences of a set of values.
LEMMA FlattenParts ==
  ASSUME NEW S, NEW parts \in Seq(Seq(S))
  PROVE  \E f : Flattens(f, Len(parts), Seq(S), parts)
<1> DEFINE Q == Seq(S)
           n == Len(parts)
<1>1. /\ <<>> \in Q /\ \A x, y \in Q : x \o y \in Q
      /\ \A x \in Q : <<>> \o x = x
      /\ n \in Nat /\ n = Len(parts) /\ (n = 0 => parts = <<>>)
      /\ \A k \in 1 .. n : parts[k] \in Q
  BY PartsType, Zenon
<1> HIDE DEF Q, n
<1>2. \E f : Flattens(f, n, Q, parts)
  BY <1>1, FlattenOf
<1> QED
  BY <1>2, Zenon DEF Q, n

\* The type of a flattened sequence.
LEMMA FlattenType ==
  ASSUME NEW S, NEW parts \in Seq(Seq(S))
  PROVE  FlattenSeq(parts) \in Seq(S)
<1>1. PICK f : Flattens(f, Len(parts), Seq(S), parts)
  BY FlattenParts, Zenon
<1>2. Len(parts) \in 0 .. Len(parts)
  BY PartsType
<1> QED
  BY <1>1, <1>2 DEF Flattens

\* The first n entries are equal.
EqualTo(n, a, b) == \A k \in 1 .. n : a[k] = b[k]

\* One more part is appended to the result.
Continues(n, a, b) == FlattenSeq(b) = FlattenSeq(a) \o b[n + 1]

\* It is so when the parts before are equal.
LEMMA FlattensMore ==
  ASSUME NEW Q, NEW n \in Nat, NEW a, NEW b, EqualTo(n, a, b),
         NEW f, Flattens(f, n, Q, a), NEW g, Flattens(g, n + 1, Q, b)
  PROVE  Continues(n, a, b)
<1> DEFINE S == {k \in 0 .. n : f[k] = g[k]}
<1>1. 0 \in S
  BY DEF Flattens
<1>2. ASSUME NEW k \in 0 .. n - 1, k \in S PROVE k + 1 \in S
  <2>1. k + 1 \in 1 .. n /\ k + 1 \in 1 .. n + 1 /\ k + 1 \in 0 .. n /\ (k + 1) - 1 = k
    OBVIOUS
  <2>2. f[k + 1] = f[k] \o a[k + 1] /\ g[k + 1] = g[k] \o b[k + 1]
    BY <2>1 DEF Flattens
  <2>3. f[k] = g[k] /\ a[k + 1] = b[k + 1]
    BY <1>2, <2>1 DEF EqualTo
  <2> QED
    BY <2>1, <2>2, <2>3
<1>3. \A k \in 0 .. n : k \in S
  <2> HIDE DEF S
  <2> QED
    BY <1>1, <1>2, InductTo
<1>4. f[n] = g[n]
  BY <1>3
<1>5. n + 1 \in 1 .. n + 1 /\ (n + 1) - 1 = n
  OBVIOUS
<1>6. FlattenSeq(b) = g[n + 1] /\ g[n + 1] = g[n] \o b[n + 1] /\ FlattenSeq(a) = f[n]
  BY <1>5 DEF Flattens
<1> QED
  BY <1>4, <1>6, Zenon DEF Continues

\* The same for sequences of sequences.
LEMMA FlattenLonger ==
  ASSUME NEW S, NEW parts \in Seq(Seq(S)), NEW more \in Seq(Seq(S)),
         NEW n, n = Len(parts), n + 1 = Len(more), EqualTo(n, parts, more)
  PROVE  Continues(n, parts, more)
<1>1. n \in Nat
  BY PartsType, Zenon
<1>2. \E f : Flattens(f, n, Seq(S), parts)
  BY FlattenParts, Zenon
<1>3. \E g : Flattens(g, n + 1, Seq(S), more)
  BY FlattenParts, Zenon
<1> QED
  BY <1>1, <1>2, <1>3, FlattensMore, Zenon

\* Sequences of one length, related by R entry by entry.
RelatedBy(R, s, t) ==
  Len(s) = Len(t) /\ \A j \in 1 .. Len(s) : <<s[j], t[j]>> \in R

\* Concatenation keeps sequences related.
LEMMA ConcatRelated ==
  ASSUME NEW S, NEW s \in Seq(S), NEW t \in Seq(S), NEW u \in Seq(S), NEW v \in Seq(S),
         NEW R, RelatedBy(R, s, t), RelatedBy(R, u, v)
  PROVE  RelatedBy(R, s \o u, t \o v)
<1>1. Len(s) = Len(t) /\ Len(u) = Len(v)
  BY DEF RelatedBy
<1>2. Len(s \o u) = Len(s) + Len(u) /\ Len(t \o v) = Len(s) + Len(u)
  BY <1>1
<1>3. ASSUME NEW j \in 1 .. Len(s) + Len(u)
      PROVE  <<(s \o u)[j], (t \o v)[j]>> \in R
  <2>1. CASE j <= Len(s)
    <3>1. j \in 1 .. Len(s) /\ (s \o u)[j] = s[j] /\ (t \o v)[j] = t[j]
      BY <1>1, <2>1
    <3> QED
      BY <3>1 DEF RelatedBy
  <2>2. CASE j > Len(s)
    <3>1. /\ j - Len(s) \in 1 .. Len(u)
          /\ (s \o u)[j] = u[j - Len(s)]
          /\ (t \o v)[j] = v[j - Len(s)]
      BY <1>1, <2>2
    <3> QED
      BY <3>1 DEF RelatedBy
  <2>3. j <= Len(s) \/ j > Len(s)
    OBVIOUS
  <2> QED
    BY <2>1, <2>2, <2>3, Zenon
<1> QED
  BY <1>2, <1>3 DEF RelatedBy

\* Two sequences whose parts are related are related when flattened.
LEMMA FlattenRelated ==
  ASSUME NEW S, NEW a \in Seq(Seq(S)), NEW b \in Seq(Seq(S)), NEW R, Len(a) = Len(b),
         \A k \in 1 .. Len(a) : RelatedBy(R, a[k], b[k])
  PROVE  RelatedBy(R, FlattenSeq(a), FlattenSeq(b))
<1> DEFINE n == Len(a)
<1>0. n \in Nat /\ n = Len(a) /\ n = Len(b)
  BY PartsType
<1>1. PICK f : Flattens(f, n, Seq(S), a)
  BY FlattenParts, Zenon
<1>2. PICK g : Flattens(g, n, Seq(S), b)
  BY FlattenParts, <1>0, Zenon
<1>6. \A k \in 1 .. n : RelatedBy(R, a[k], b[k])
  OBVIOUS
<1> HIDE DEF n
<1> DEFINE T == {k \in 0 .. n : RelatedBy(R, f[k], g[k])}
<1>3. 0 \in T
  BY <1>0, <1>1, <1>2 DEF RelatedBy, Flattens
<1>4. ASSUME NEW k \in 0 .. n - 1, k \in T PROVE k + 1 \in T
  <2>1. k + 1 \in 1 .. n /\ (k + 1) - 1 = k /\ k + 1 \in 0 .. n /\ k \in 0 .. n
    BY <1>0
  <2>2. a[k + 1] \in Seq(S) /\ b[k + 1] \in Seq(S)
    BY <1>0, <2>1, PartsType, Zenon
  <2>3. f[k + 1] = f[k] \o a[k + 1] /\ g[k + 1] = g[k] \o b[k + 1]
    BY <1>1, <1>2, <2>1 DEF Flattens
  <2>4. RelatedBy(R, f[k], g[k]) /\ RelatedBy(R, a[k + 1], b[k + 1])
    BY <1>4, <1>6, <2>1
  <2>5. f[k] \in Seq(S) /\ g[k] \in Seq(S)
    BY <1>1, <1>2, <2>1 DEF Flattens
  <2>6. RelatedBy(R, f[k] \o a[k + 1], g[k] \o b[k + 1])
    BY <2>2, <2>4, <2>5, ConcatRelated
  <2> QED
    BY <2>1, <2>3, <2>6
<1>5. n \in T
  <2>1. n \in 0 .. n
    BY <1>0
  <2> HIDE DEF T
  <2> QED
    BY <1>0, <1>3, <1>4, <2>1, InductTo, Zenon
<1> QED
  BY <1>1, <1>2, <1>5 DEF Flattens

\* x is an entry of the sequence s.
Occurs(x, s) == \E j \in 1 .. Len(s) : s[j] = x

\* The entries of a concatenation.
LEMMA ConcatOccurs ==
  ASSUME NEW S, NEW s \in Seq(S), NEW t \in Seq(S), NEW x
  PROVE  Occurs(x, s \o t) <=> Occurs(x, s) \/ Occurs(x, t)
<1>1. Len(s \o t) = Len(s) + Len(t) /\ Len(s) \in Nat /\ Len(t) \in Nat
  OBVIOUS
<1>2. \A j \in 1 .. Len(s) : j \in 1 .. Len(s \o t) /\ (s \o t)[j] = s[j]
  OBVIOUS
<1>3. \A j \in 1 .. Len(t) : Len(s) + j \in 1 .. Len(s \o t) /\ (s \o t)[Len(s) + j] = t[j]
  OBVIOUS
<1>4. \A j \in 1 .. Len(s \o t) :
         \/ j \in 1 .. Len(s)
         \/ j - Len(s) \in 1 .. Len(t) /\ j = Len(s) + (j - Len(s))
  BY <1>1
<1>5. Occurs(x, s \o t) => Occurs(x, s) \/ Occurs(x, t)
  <2> SUFFICES ASSUME NEW j \in 1 .. Len(s \o t), (s \o t)[j] = x
               PROVE  Occurs(x, s) \/ Occurs(x, t)
    BY DEF Occurs
  <2>1. CASE j \in 1 .. Len(s)
    BY <1>2, <2>1 DEF Occurs
  <2>2. CASE j - Len(s) \in 1 .. Len(t) /\ j = Len(s) + (j - Len(s))
    <3>1. (s \o t)[Len(s) + (j - Len(s))] = t[j - Len(s)]
      BY <1>3, <2>2, Zenon
    <3>2. t[j - Len(s)] = x
      BY <2>2, <3>1, Zenon
    <3> QED
      BY <2>2, <3>2, Zenon DEF Occurs
  <2> QED
    BY <1>4, <2>1, <2>2, Zenon
<1>6. Occurs(x, s) => Occurs(x, s \o t)
  BY <1>2, Zenon DEF Occurs
<1>7. Occurs(x, t) => Occurs(x, s \o t)
  BY <1>3, Zenon DEF Occurs
<1> QED
  BY <1>5, <1>6, <1>7, Zenon

\* s is made of n parts: their entries, and no longer than all of them.
Joins(s, n, parts, S) ==
  /\ s \in Seq(S)
  /\ \A x : Occurs(x, s) <=> \E k \in 1 .. n : Occurs(x, parts[k])
  /\ \A m \in Nat : (\A k \in 1 .. n : Len(parts[k]) <= m) => Len(s) <= n * m

\* FlattenSeq joins its parts.
LEMMA FlattenJoins ==
  ASSUME NEW S, NEW n \in Nat, NEW parts \in [1 .. n -> Seq(S)]
  PROVE  Joins(FlattenSeq(parts), n, parts, S)
<1> DEFINE Q == Seq(S)
<1>1. parts \in Seq(Q) /\ Len(parts) = n
  <2> HIDE DEF Q
  <2>1. parts \in [1 .. n -> Q]
    BY DEF Q
  <2> QED
    BY <2>1, FunctionIsSequence
<1>2. \E f : Flattens(f, Len(parts), Seq(S), parts)
  BY <1>1, FlattenParts, Zenon
<1>3. PICK f : Flattens(f, n, Seq(S), parts)
  BY <1>1, <1>2, Zenon
<1>4. /\ f \in [0 .. n -> Q] /\ f[0] = <<>> /\ FlattenSeq(parts) = f[n]
      /\ \A k \in 1 .. n : f[k] = f[k - 1] \o parts[k]
  BY <1>3, Zenon DEF Flattens
<1> DEFINE T == {k \in 0 .. n : Joins(f[k], k, parts, S)}
<1>5. 0 \in T
  <2>1. f[0] \in Seq(S) /\ Len(f[0]) = 0 /\ 0 \in 0 .. n
    BY <1>4
  <2>2. \A x : ~ Occurs(x, f[0])
    BY <2>1 DEF Occurs
  <2> QED
    BY <2>1, <2>2 DEF Joins
<1>6. ASSUME NEW k \in 0 .. n - 1, k \in T PROVE k + 1 \in T
  <2>1. k + 1 \in 1 .. n /\ (k + 1) - 1 = k /\ k + 1 \in 0 .. n /\ k \in 0 .. n
        /\ 1 .. k + 1 = (1 .. k) \cup {k + 1} /\ k \in Nat
    OBVIOUS
  <2>2. /\ f[k] \in Seq(S) /\ f[k + 1] \in Seq(S) /\ parts[k + 1] \in Seq(S)
        /\ f[k + 1] = f[k] \o parts[k + 1]
    BY <1>4, <2>1
  <2>3. Joins(f[k], k, parts, S)
    BY <1>6
  <2>4. \A x : Occurs(x, f[k + 1]) <=> Occurs(x, f[k]) \/ Occurs(x, parts[k + 1])
    <3> SUFFICES ASSUME NEW x
                 PROVE  Occurs(x, f[k + 1]) <=> Occurs(x, f[k]) \/ Occurs(x, parts[k + 1])
      OBVIOUS
    <3> DEFINE u == f[k]
               v == parts[k + 1]
    <3>1. u \in Seq(S) /\ v \in Seq(S) /\ f[k + 1] = u \o v
      BY <2>2, Zenon
    <3> HIDE DEF u, v
    <3>2. Occurs(x, u \o v) <=> Occurs(x, u) \/ Occurs(x, v)
      BY <3>1, ConcatOccurs
    <3> QED
      BY <3>1, <3>2, Zenon DEF u, v
  <2>5. \A x : Occurs(x, f[k + 1]) <=> \E j \in 1 .. k + 1 : Occurs(x, parts[j])
    BY <2>1, <2>3, <2>4, Zenon DEF Joins
  <2>6. ASSUME NEW m \in Nat, \A j \in 1 .. k + 1 : Len(parts[j]) <= m
        PROVE  Len(f[k + 1]) <= (k + 1) * m
    <3>1. Len(f[k]) <= k * m /\ Len(parts[k + 1]) <= m
      BY <2>1, <2>3, <2>6 DEF Joins
    <3>2. Len(f[k + 1]) = Len(f[k]) + Len(parts[k + 1]) /\ Len(f[k]) \in Nat /\ Len(parts[k + 1]) \in Nat
      BY <2>2
    <3>3. (k + 1) * m = k * m + m /\ k * m \in Nat
      BY <2>1
    <3>4. \A a, b, c \in Nat : a <= c /\ b <= m => a + b <= c + m
      OBVIOUS
    <3>5. Len(f[k]) + Len(parts[k + 1]) <= k * m + m
      BY <3>1, <3>2, <3>3, <3>4, Zenon
    <3> QED
      BY <3>2, <3>3, <3>5, Zenon
  <2> QED
    BY <2>1, <2>2, <2>5, <2>6, Zenon DEF Joins
<1>7. n \in T
  <2>1. n \in 0 .. n
    OBVIOUS
  <2> HIDE DEF T
  <2> QED
    BY <1>5, <1>6, <2>1, InductTo, Zenon
<1> QED
  BY <1>4, <1>7
=============================================================================
