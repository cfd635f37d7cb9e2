------------------------------ MODULE SolveSMT ------------------------------
(***************************************************************************)
(* Monitor::solveSMT (main.cpp): the constraints it gives Z3 over n =      *)
(* totNumEvents events and the entries of hbSet, and when they have a      *)
(* solution.  The unknown is a function f from 0..n to bit vectors of      *)
(* width n, meant as the set of events executed after i steps; a value is  *)
(* kept here as the integer of its bits.  The constraints on f(i) alone    *)
(* and on f(i), f(i+1) are the only ones, so a solution is a path through  *)
(* the allowed values; outside 0..n, where the quantifier over x also      *)
(* reaches, f can be 0, which satisfies every entry.                       *)
(***************************************************************************)
EXTENDS Integers, FiniteSets

CONSTANT IntBits   \* width of int, 32 in the code

\* C++ guarantees more than these.
ASSUME IntBitsAssumption == IntBits \in Nat /\ IntBits >= 4

\* pow(2, k)
Pow2[k \in Nat] == IF k = 0 THEN 1 ELSE 2 * Pow2[k - 1]

\* eventList[0 .. n^2-1]: the constant i in n bits.
EventList(n) == {i % Pow2[n] : i \in 0 .. n * n - 1}

\* Mutant: the differences are bounded by n instead of n^2.
EventOrderToN(n) == {Pow2[k] : k \in {e \in 0 .. n : Pow2[e] < n}}

\* The differences allowed between f(i) and f(i+1): j = 1, 2, 4, ... < n^2.
EventOrder(n) == {Pow2[k] : k \in {e \in 0 .. n : Pow2[e] < n * n}}

\* The bits of (int) pow(2, e - 1) as a constant of width n.  A power an int
\* cannot hold converts to INT_MIN, whose sign extends to the left; a bit
\* beyond the width is lost.
Bits(e, n) ==
  {b \in 0 .. n - 1 : IF e < IntBits THEN b = e - 1 ELSE b >= IntBits - 1}

\* bv2int(f(x) & b) != 0
Meets(v, bits) == \E b \in bits : (v \div Pow2[b]) % 2 = 1

\* The quantified constraint of every entry p of hbSet: with p[2], also p[1].
RespectsEntries(v, entries, n) ==
  \A p \in entries : Meets(v, Bits(p[2], n)) => Meets(v, Bits(p[1], n))

\* The values the constraints on a single f(i) leave.
Allowed(n, entries) == {v \in EventList(n) : RespectsEntries(v, entries, n)}

\* The values f(i) can have, for each i.
Reachable(n, entries) ==
  LET reach[i \in 0 .. n] ==
        IF i = 0 THEN {0} \cap Allowed(n, entries)
        ELSE {v + j : v \in reach[i - 1], j \in EventOrder(n)} \cap Allowed(n, entries)
  IN  reach

\* Mutant: off by one.
LastValueSquare(n) == (n * n) % Pow2[n]

\* f(totNumEvents) == eventList[n^2 - 1]
LastValue(n) == (n * n - 1) % Pow2[n]

Satisfiable(n, entries) == LastValue(n) \in Reachable(n, entries)[n]

\* What solveSMT can return.  Only the answer sat is true; with quantified
\* constraints Z3 may also give up with unknown.  (There is no n = 0:
\* bv_sort(0) throws before the solver is asked.)
Answers(n, entries) ==
  IF ~ Satisfiable(n, entries) THEN {FALSE}
  ELSE IF entries = {} THEN {TRUE} ELSE {TRUE, FALSE}

-----------------------------------------------------------------------------
(***************************************************************************)
(* Reference: the events 1..n can be executed one at a time in an order    *)
(* that respects the entries.                                              *)
(***************************************************************************)
Linearizable(n, entries) ==
  LET closed == {T \in SUBSET (1 .. n) : \A p \in entries : p[2] \in T => p[1] \in T}
      reach[i \in 0 .. n] ==
        IF i = 0 THEN {{}}
        ELSE {T \in {S \cup {e} : S \in reach[i - 1], e \in 1 .. n} :
                T \in closed /\ Cardinality(T) = i}
  IN  (1 .. n) \in reach[n]
=============================================================================
