--------------------------- MODULE SegTraceProofs ---------------------------
(***************************************************************************)
(* Proofs about SegTrace: for any segment length, any skew and any trace,  *)
(* the windows readSegTrace copies overlap far enough; and the pairs of    *)
(* the very first segment leave no later one a solution.                   *)
(***************************************************************************)
EXTENDS SegTrace, MonitorOpsProofs

\* The window of a segment starts at most eps before it.
LEMMA WindowStartProperties ==
  ASSUME NEW start \in Nat, NEW skew \in Nat
  PROVE  /\ WindowStart(start, skew) \in Nat
         /\ WindowStart(start, skew) <= start
         /\ \A a \in Nat : start <= a + skew => WindowStart(start, skew) <= a
BY DEF WindowStart

\* What a call of readSegTrace does to the windows.
LEMMA ReadSegmentEffect ==
  ASSUME ReadSegment
  PROVE  /\ examined' = examined \cup {<<WindowStart(end, eps), end + SegLength>>}
         /\ end' = end + SegLength
         /\ end < cenLength
         /\ lost' \in BOOLEAN
         /\ UNCHANGED <<numProcess, numEventAll, cenLength, eps>>
BY DEF ReadSegment, PassLeft, TraceLeft

\* The loops of main() keep the types of their variables: eps, end and the
\* windows, for any trace.
THEOREM SegTypes == Spec => []TypeOK
<1>1. Init => TypeOK
  <2> SUFFICES ASSUME Init PROVE TypeOK
    OBVIOUS
  <2>1. lost \in BOOLEAN /\ examined = {} /\ end = 0 /\ eps = 0
    BY DEF Init
  <2>2. /\ numProcess \in 0 .. MaxProcesses /\ cenLength \in 0 .. MaxLength
        /\ numEventAll \in [0 .. MaxProcesses - 1 -> 0 .. MaxLength]
    BY DEF Init
  <2>3. numProcess \in Nat /\ cenLength \in Nat /\ numEventAll \in [0 .. MaxProcesses - 1 -> Nat]
    BY <2>2, SegTraceAssumption
  <2>4. end \in Nat /\ eps \in 0 .. MaxEps + 1 /\ examined \subseteq Nat \X Nat
    BY <2>1, SegTraceAssumption
  <2> QED
    BY <2>1, <2>3, <2>4 DEF TypeOK
<1>2. TypeOK /\ [Next]_vars => TypeOK'
  <2> SUFFICES ASSUME TypeOK, [Next]_vars PROVE TypeOK'
    OBVIOUS
  <2>1. CASE ReadSegment
    <3>1. end \in Nat /\ eps \in Nat /\ SegLength \in Nat
      BY SegTraceAssumption DEF TypeOK
    <3>2. WindowStart(end, eps) \in Nat /\ end + SegLength \in Nat
      BY <3>1, WindowStartProperties
    <3> QED
      BY <2>1, <3>2, ReadSegmentEffect DEF TypeOK
  <2>2. CASE NextPass
    <3>1. eps' \in 0 .. MaxEps + 1
      BY <2>2, SegTraceAssumption DEF NextPass, PassLeft, TraceLeft, TypeOK
    <3> QED
      BY <2>2, <3>1 DEF NextPass, PassLeft, TraceLeft, TypeOK
  <2>3. CASE UNCHANGED vars
    BY <2>3 DEF vars, TypeOK
  <2> QED
    BY <2>1, <2>2, <2>3 DEF Next
<1> QED
  BY <1>1, <1>2, PTL DEF Spec

\* A window that was examined stays examined within a pass.
LEMMA TogetherGrows ==
  ASSUME examined \subseteq examined', NEW a, NEW b, Together(a, b)
  PROVE  Together(a, b)'
BY DEF Together

\* The step: a pair is old, or its later event is in the new segment and its
\* earlier one at most eps before that.
LEMMA NextMeet == TypeOK /\ SkewedEventsMeet /\ [Next]_vars => SkewedEventsMeet'
<1> SUFFICES ASSUME TypeOK, SkewedEventsMeet, [Next]_vars PROVE SkewedEventsMeet'
  OBVIOUS
<1>1. end \in Nat /\ eps \in Nat /\ SegLength \in Nat
  BY SegTraceAssumption DEF TypeOK
<1>2. CASE ReadSegment
  <2>0. end' = end + SegLength /\ eps' = eps
    BY <1>2, ReadSegmentEffect
  <2> SUFFICES ASSUME NEW a \in 0 .. end' - 1, NEW b \in 0 .. end' - 1,
                      a <= b /\ b - a <= eps'
               PROVE  Together(a, b)'
    BY DEF SkewedEventsMeet
  <2>1. CASE b < end
    <3>1. a \in 0 .. end - 1 /\ b \in 0 .. end - 1
      BY <1>1, <2>1
    <3>2. Together(a, b)
      BY <2>0, <3>1 DEF SkewedEventsMeet
    <3> QED
      BY <1>2, <3>2, TogetherGrows, ReadSegmentEffect
  <2>2. CASE b >= end
    <3> DEFINE w == <<WindowStart(end, eps), end + SegLength>>
    <3>1. w \in examined'
      BY <1>2, ReadSegmentEffect
    <3>2. end <= a + eps
      BY <1>1, <2>0, <2>2
    <3>3. w[1] <= a
      BY <1>1, <2>0, <3>2, WindowStartProperties
    <3>4. w[1] \in Nat /\ w[2] = end + SegLength
      BY <1>1, WindowStartProperties
    <3>5. w[1] <= b /\ a < w[2] /\ b < w[2]
      BY <1>1, <2>0, <3>3, <3>4
    <3> HIDE DEF w
    <3> QED
      BY <3>1, <3>3, <3>5 DEF Together
  <2> QED
    BY <1>1, <2>0, <2>1, <2>2
<1>3. CASE NextPass
  BY <1>3 DEF NextPass, PassLeft, TraceLeft, SkewedEventsMeet
<1>4. CASE UNCHANGED vars
  BY <1>4 DEF vars, SkewedEventsMeet, Together
<1> QED
  BY <1>2, <1>3, <1>4 DEF Next

\* Segmentation never separates two events within eps of each other, for every
\* segment length and every trace (main.cpp 154 and 411-418).
THEOREM SkewedEventsAlwaysMeet == Spec => []SkewedEventsMeet
<1>1. Init => SkewedEventsMeet
  BY DEF Init, SkewedEventsMeet
<1> QED
  BY <1>1, SegTypes, NextMeet, PTL DEF Spec

\* A pass over the trace ends only when every position of the central
\* monitor's process 0 has been in a window, the short last segment included.
THEOREM PassesCoverTrace == Spec => PassCoversTrace
<1> DEFINE Covered == eps' # eps => \A a \in 0 .. cenLength - 1 : Together(a, a)
<1>1. TypeOK /\ SkewedEventsMeet /\ [Next]_vars => [Covered]_vars
  <2> SUFFICES ASSUME TypeOK, SkewedEventsMeet, Next, eps' # eps,
                      NEW a \in 0 .. cenLength - 1
               PROVE  Together(a, a)
    OBVIOUS
  <2>1. NextPass
    BY ReadSegmentEffect DEF Next
  <2>2. cenLength \in Nat /\ end \in Nat /\ eps \in Nat
    BY SegTraceAssumption DEF TypeOK
  <2>3. a \in 0 .. end - 1 /\ a <= a /\ a - a <= eps
    BY <2>1, <2>2 DEF NextPass, PassLeft, TraceLeft
  <2> QED
    BY <2>3 DEF SkewedEventsMeet
<1> QED
  BY <1>1, SegTypes, SkewedEventsAlwaysMeet, PTL DEF Spec, PassCoversTrace
-----------------------------------------------------------------------------
(***************************************************************************)
(* The table.  Entries are never removed, so the pairs of the first        *)
(* segment - with eps = 0, all of them - are there for every later one.    *)
(***************************************************************************)

\* The constants as numbers.
LEMMA Numbers ==
  /\ SegLength \in Nat /\ SegLength > 0 /\ MaxEps \in Nat /\ MaxLength \in Nat
  /\ MaxProcesses \in Nat /\ MaxProcesses > 0 /\ HbMax \in Nat
BY SegTraceAssumption, HbMaxAssumption

\* The sizes of a window, compared with those of the first one: a process that
\* did not fill the first segment never has more events than then.
WindowsFit(P, sizes, first) ==
  /\ sizes \in [0 .. P - 1 -> Nat]
  /\ \A k \in 0 .. P - 1 : /\ sizes[k] <= SegLength + MaxEps
                           /\ first[k] < SegLength => sizes[k] <= first[k]

\* What a call copies of each process.
LEMMA WindowSizesFit ==
  ASSUME NEW P \in 0 .. MaxProcesses,
         NEW all \in [0 .. MaxProcesses - 1 -> Nat],
         NEW start \in Nat, NEW skew \in 0 .. MaxEps,
         NEW sizes, sizes = WindowSizes(P, all, WindowStart(start, skew), start + SegLength),
         NEW first, first = WindowSizes(P, all, 0, SegLength)
  PROVE  /\ WindowsFit(P, sizes, first)
         /\ first \in [0 .. P - 1 -> Nat] /\ \A k \in 0 .. P - 1 : first[k] <= SegLength
         /\ start = 0 /\ skew = 0 => sizes = first
<1> DEFINE lo == WindowStart(start, skew)
<1>1. lo \in Nat /\ lo <= start /\ start - lo <= skew /\ (start = 0 => lo = 0)
  BY Numbers DEF WindowStart
<1>2. start = 0 => start + SegLength = SegLength
  BY Numbers
<1>3. start = 0 /\ skew = 0 => sizes = first
  BY <1>1, <1>2
<1> HIDE DEF lo
<1>4. sizes = [k \in 0 .. P - 1 |-> WindowSize(all[k], lo, start + SegLength)]
  BY DEF WindowSizes, lo
<1>5. first = [k \in 0 .. P - 1 |-> WindowSize(all[k], 0, SegLength)]
  BY DEF WindowSizes
<1>6. ASSUME NEW k \in 0 .. P - 1
      PROVE  /\ sizes[k] \in Nat /\ sizes[k] <= SegLength + MaxEps
             /\ first[k] \in Nat /\ first[k] <= SegLength
             /\ first[k] < SegLength => sizes[k] <= first[k]
  <2>1. k \in 0 .. MaxProcesses - 1
    BY Numbers
  <2>2. all[k] \in Nat
    BY <2>1
  <2>3. sizes[k] = WindowSize(all[k], lo, start + SegLength)
        /\ first[k] = WindowSize(all[k], 0, SegLength)
    BY <1>4, <1>5
  <2> QED
    BY <1>1, <2>2, <2>3, Numbers, SMTT(30) DEF WindowSize
<1>7. WindowsFit(P, sizes, first)
  BY <1>4, <1>6 DEF WindowsFit
<1>8. first \in [0 .. P - 1 -> Nat] /\ \A k \in 0 .. P - 1 : first[k] <= SegLength
  BY <1>5, <1>6
<1> QED
  BY <1>3, <1>7, <1>8

\* The entries hold the pairs of the first segment.
HoldsFirst(entries) ==
  \A p : PairNamed(p, numProcess, FirstSizes, 0) => p \in entries

\* What is known of the table once the first segment was read, until a pair is
\* lost, and of the windows.
TieInv ==
  /\ numProcess \in 0 .. MaxProcesses
  /\ table \in Tables
  /\ numProcess > 1 => cenLength = numEventAll[0]
  /\ ~ lost => ~ table.wild
  /\ end > 0 => cenLength > 0
  /\ ~ lost /\ cenLength > 0 /\ (eps > 0 \/ end > 0) => HoldsFirst(Entries(table))
  /\ end > 0 => WindowsFit(numProcess, numEvent, FirstSizes)
  /\ end > 0 /\ numProcess > 1 => numEvent[0] >= 1

\* A process whose trace goes on has an event in the window.
LEMMA FirstProcessSeen ==
  ASSUME NEW P \in 0 .. MaxProcesses, P > 0,
         NEW all \in [0 .. MaxProcesses - 1 -> Nat],
         NEW start \in Nat, NEW skew \in 0 .. MaxEps, start < all[0]
  PROVE  WindowSizes(P, all, WindowStart(start, skew), start + SegLength)[0] >= 1
<1> DEFINE lo == WindowStart(start, skew)
<1>1. lo \in Nat /\ lo <= start
  BY Numbers DEF WindowStart
<1>2. 0 \in 0 .. P - 1 /\ all[0] \in Nat
  BY Numbers
<1>3. WindowSizes(P, all, lo, start + SegLength)[0] = WindowSize(all[0], lo, start + SegLength)
  BY <1>2 DEF WindowSizes
<1> HIDE DEF lo
<1>4. WindowSize(all[0], lo, start + SegLength) >= 1
  BY <1>1, <1>2, Numbers DEF WindowSize
<1> QED
  BY <1>3, <1>4 DEF lo

\* A call of readSegTrace.
LEMMA ReadSegmentTies ==
  ASSUME TypeOK, TieInv, ReadSegment
  PROVE  TieInv'
<1>1. PICK sizes, pairs :
        /\ sizes = WindowSizes(numProcess, numEventAll, WindowStart(end, eps), end + SegLength)
        /\ pairs = NewPairs(numProcess, sizes, eps)
        /\ numEvent' = sizes /\ table' = EnterAll(table, pairs)
        /\ lost' = (lost \/ table.numHbSet + Len(pairs) > HbMax)
        /\ end' = end + SegLength /\ UNCHANGED <<numProcess, numEventAll, cenLength, eps>>
        /\ eps <= MaxEps /\ end < cenLength
  BY DEF ReadSegment, PassLeft, TraceLeft
<1>2. /\ numProcess \in 0 .. MaxProcesses /\ numProcess \in Nat
      /\ numEventAll \in [0 .. MaxProcesses - 1 -> Nat]
      /\ end \in Nat /\ eps \in Nat /\ eps \in 0 .. MaxEps /\ cenLength \in Nat
      /\ table \in Tables /\ table.numHbSet \in Nat
  BY <1>1, Numbers DEF TypeOK, TieInv, Tables
<1>3. /\ WindowsFit(numProcess, sizes, FirstSizes)
      /\ end = 0 /\ eps = 0 => sizes = FirstSizes
      /\ numProcess > 0 /\ end < numEventAll[0] => sizes[0] >= 1
  <2>1. FirstSizes = WindowSizes(numProcess, numEventAll, 0, SegLength)
    BY DEF FirstSizes
  <2>2. sizes = WindowSizes(numProcess, numEventAll, WindowStart(end, eps), end + SegLength)
    BY <1>1
  <2>3. WindowsFit(numProcess, sizes, FirstSizes)
    BY <1>2, <2>1, <2>2, WindowSizesFit
  <2>4. end = 0 /\ eps = 0 => sizes = FirstSizes
    BY <1>2, <2>1, <2>2, WindowSizesFit
  <2>5. numProcess > 0 /\ end < numEventAll[0] => sizes[0] >= 1
    BY <1>2, <2>2, FirstProcessSeen
  <2> QED
    BY <2>3, <2>4, <2>5
<1>4. /\ pairs \in Seq(NamePair)
      /\ \A p : Occurs(p, pairs) <=> PairNamed(p, numProcess, sizes, eps)
  <2>1. /\ sizes \in [0 .. numProcess - 1 -> Nat] /\ SegLength + MaxEps \in Nat
        /\ \A k \in 0 .. numProcess - 1 : sizes[k] <= SegLength + MaxEps
    BY <1>3, Numbers DEF WindowsFit
  <2> QED
    BY <1>1, <1>2, <2>1, NewPairsAre
<1>5. FirstSizes' = FirstSizes
  BY <1>1 DEF FirstSizes
<1>6. table' \in Tables
  BY <1>1, <1>2, <1>4, EnterAllType
<1>7. ASSUME ~ lost' PROVE ~ table'.wild /\ HoldsFirst(Entries(table'))
  <2>1. ~ lost /\ ~ table.wild /\ table.numHbSet + Len(pairs) <= HbMax
    <3>1. Len(pairs) \in Nat
      BY <1>4
    <3>2. ~ lost /\ ~ (table.numHbSet + Len(pairs) > HbMax)
      BY <1>1, <1>7, Zenon
    <3>3. ~ table.wild
      BY <3>2, Zenon DEF TieInv
    <3> QED
      BY <1>2, <3>1, <3>2, <3>3, Numbers
  <2>2. /\ ~ table'.wild
        /\ \A p : Occurs(p, pairs) => p \in Entries(table')
        /\ Entries(table) \subseteq Entries(table')
    BY <1>1, <1>2, <1>4, <2>1, EnterAllWithRoom
  <2>3. CASE eps = 0 /\ end = 0
    BY <1>3, <1>4, <2>2, <2>3 DEF HoldsFirst
  <2>4. CASE eps > 0 \/ end > 0
    <3>1. HoldsFirst(Entries(table))
      BY <1>1, <1>2, <2>1, <2>4 DEF TieInv
    <3> QED
      BY <2>2, <3>1 DEF HoldsFirst
  <2> QED
    BY <1>2, <2>2, <2>3, <2>4
<1>8. HoldsFirst(Entries(table')) => HoldsFirst(Entries(table))'
  BY <1>1, <1>5 DEF HoldsFirst, Entries
<1>9. WindowsFit(numProcess, numEvent, FirstSizes)'
  BY <1>1, <1>3, <1>5 DEF WindowsFit
<1>10. cenLength > 0
  BY <1>1, <1>2
<1>11. numProcess > 1 => numEvent'[0] >= 1
  BY <1>1, <1>2, <1>3 DEF TieInv
<1>12. (numProcess > 1 => cenLength = numEventAll[0])'
  BY <1>1 DEF TieInv
<1> QED
  BY <1>1, <1>2, <1>6, <1>7, <1>8, <1>9, <1>10, <1>11, <1>12 DEF TieInv

\* It is inductive.
LEMMA TieInvariant == Spec => []TieInv
<1>1. Init => TieInv
  <2> SUFFICES ASSUME Init PROVE TieInv
    OBVIOUS
  <2>1. table \in Tables /\ ~ table.wild
    BY EmptyTableType DEF Init, EmptyTable
  <2> QED
    BY <2>1 DEF Init, TieInv
<1>2. TypeOK /\ TieInv /\ [Next]_vars => TieInv'
  <2> SUFFICES ASSUME TypeOK, TieInv, [Next]_vars PROVE TieInv'
    OBVIOUS
  <2>1. CASE ReadSegment
    BY <2>1, ReadSegmentTies
  <2>2. CASE NextPass
    <3>1. /\ end' = 0 /\ ~ (end < cenLength)
          /\ UNCHANGED <<numProcess, numEventAll, cenLength, numEvent, table, lost>>
      BY <2>2 DEF NextPass, PassLeft, TraceLeft
    <3>2. HoldsFirst(Entries(table))' <=> HoldsFirst(Entries(table))
      BY <3>1 DEF HoldsFirst, FirstSizes, Entries
    <3>3. cenLength > 0 => end > 0
      BY <3>1 DEF TypeOK
    <3>4. ~ (end' > 0)
      BY <3>1
    <3> QED
      BY <3>1, <3>2, <3>3, <3>4 DEF TieInv
  <2>3. CASE UNCHANGED vars
    BY <2>3 DEF vars, TieInv, HoldsFirst, FirstSizes, Entries
  <2> QED
    BY <2>1, <2>2, <2>3 DEF Next
<1> QED
  BY <1>1, <1>2, SegTypes, PTL DEF Spec

\* No window has more events than 2 to the number of the first one's, with
\* segments and skews like the code's: at most four times as many, and no more
\* when no process filled the first segment.
LEMMA EventsBelowPower ==
  ASSUME SegLength >= 4, MaxEps <= 3 * SegLength,
         NEW P \in Nat \ {0}, NEW first \in [0 .. P - 1 -> Nat],
         \A k \in 0 .. P - 1 : first[k] <= SegLength,
         NEW sizes, WindowsFit(P, sizes, first)
  PROVE  TotNumEvents(P, sizes) <= Pow2[TotNumEvents(P, first)]
<1> DEFINE n == TotNumEvents(P, sizes)
           m == TotNumEvents(P, first)
<1>1. /\ sizes \in [0 .. P - 1 -> Nat]
      /\ \A k \in 0 .. P - 1 : /\ sizes[k] <= SegLength + MaxEps
                               /\ first[k] < SegLength => sizes[k] <= first[k]
  BY DEF WindowsFit
<1>2. n \in Nat /\ m \in Nat
  BY <1>1, TotNumEventsBound
<1>3. ASSUME NEW k \in 0 .. P - 1 PROVE sizes[k] <= 4 * first[k]
  <2>1. sizes[k] \in Nat /\ first[k] \in Nat /\ first[k] <= SegLength
    BY <1>1
  <2>2. sizes[k] <= SegLength + MaxEps /\ (first[k] < SegLength => sizes[k] <= first[k])
    BY <1>1
  <2> QED
    BY <2>1, <2>2, Numbers
<1>4. CASE m >= 4
  <2>1. n <= 4 * m
    BY <1>1, <1>3, TotNumEventsGrow
  <2> HIDE DEF n, m
  <2>2. 4 * m <= m * m
    BY <1>2, <1>4
  <2>3. m * m <= Pow2[m] /\ Pow2[m] \in Nat /\ m * m \in Nat
    <3>1. m * m <= Pow2[m]
      BY <1>2, <1>4, SquareBelowPower
    <3>2. Pow2[m] \in Nat
      BY <1>2, Pow2Exceeds
    <3>3. m * m \in Nat
      BY <1>2
    <3> QED
      BY <3>1, <3>2, <3>3
  <2>4. n <= Pow2[m]
    BY <1>2, <2>1, <2>2, <2>3, SMTT(30)
  <2> QED
    BY <2>4 DEF n, m
<1>5. CASE m < 4
  <2>1. ASSUME NEW k \in 0 .. P - 1 PROVE sizes[k] <= 1 * first[k]
    <3>1. first[k] <= m
      BY TotNumEventsEach
    <3>2. first[k] \in Nat /\ sizes[k] \in Nat /\ (first[k] < SegLength => sizes[k] <= first[k])
      BY <1>1
    <3> HIDE DEF m
    <3> QED
      BY <1>2, <1>5, <3>1, <3>2, Numbers
  <2>2. n <= 1 * m
    BY <1>1, <2>1, TotNumEventsGrow
  <2> HIDE DEF n, m
  <2>3. Pow2[m] \in Nat /\ Pow2[m] >= m + 1
    BY <1>2, Pow2Exceeds
  <2>4. n <= Pow2[m]
    BY <1>2, <2>2, <2>3
  <2> QED
    BY <2>4 DEF n, m
<1> HIDE DEF n, m
<1> QED
  BY <1>2, <1>4, <1>5 DEF n, m

\* Why no segment has a solution: the first segment's events are tied.
LEMMA TiesUnsolvable ==
  ASSUME SegLength >= 4, MaxEps <= 3 * SegLength, TypeOK, TieInv
  PROVE  FirstTiesLast
<1> SUFFICES ASSUME end > 0, ~ lost, FirstShared, FirstEvents < IntBits
             PROVE  ~ Satisfiable(SegmentEvents, Entries(table))
  BY DEF FirstTiesLast
<1>1. PICK i, k \in 0 .. numProcess - 1 : i # k /\ FirstSizes[i] > 0 /\ FirstSizes[k] > 0
  BY DEF FirstShared
<1>2. /\ numProcess \in Nat /\ numProcess > 1 /\ numProcess \in Nat \ {0}
      /\ numProcess \in 0 .. MaxProcesses
      /\ numEventAll \in [0 .. MaxProcesses - 1 -> Nat] /\ 0 \in Nat /\ 0 \in 0 .. MaxEps
  BY <1>1, Numbers DEF TypeOK, TieInv
<1>3. /\ WindowsFit(numProcess, numEvent, FirstSizes) /\ numEvent[0] >= 1
      /\ HoldsFirst(Entries(table))
  BY <1>2 DEF TieInv
<1>4. /\ FirstSizes \in [0 .. numProcess - 1 -> Nat]
      /\ \A x \in 0 .. numProcess - 1 : FirstSizes[x] <= SegLength
  <2>1. PICK sizes : sizes = WindowSizes(numProcess, numEventAll, WindowStart(0, 0), 0 + SegLength)
    OBVIOUS
  <2> QED
    BY <1>2, <2>1, WindowSizesFit DEF FirstSizes
<1>5. numEvent \in [0 .. numProcess - 1 -> Nat]
  BY <1>3 DEF WindowsFit
<1>6. SegmentEvents \in Nat /\ SegmentEvents >= 1
  <2>1. SegmentEvents \in Nat /\ SegmentEvents >= numEvent[0]
    BY <1>2, <1>5, TotNumEventsBound DEF SegmentEvents
  <2>2. numEvent[0] \in Nat
    BY <1>2, <1>5
  <2> QED
    BY <1>3, <2>1, <2>2
<1>7. FirstEvents \in Nat
  BY <1>2, <1>4, TotNumEventsBound DEF FirstEvents
<1>8. SegmentEvents <= Pow2[FirstEvents]
  BY <1>2, <1>3, <1>4, EventsBelowPower DEF SegmentEvents, FirstEvents
<1>9. Tied(FirstEvents, Entries(table))
  BY <1>1, <1>2, <1>3, <1>4, AllTied DEF HoldsFirst, FirstEvents
<1> QED
  BY <1>6, <1>7, <1>8, <1>9, TiedUnsolvable

\* With segments of at least 4 and a skew of at most three segments - the code
\* has 4 and 5 - once two processes have an event in the first segment no
\* segment of any pass over any traces has a solution, as long as the table
\* lost no pair: the pairs of the pass with eps = 0 tie those events together
\* in both directions (main.cpp 170-180) and are never removed.
THEOREM FirstTiesAlwaysLast ==
  ASSUME SegLength >= 4, MaxEps <= 3 * SegLength
  PROVE  Spec => []FirstTiesLast
<1>1. TypeOK /\ TieInv => FirstTiesLast
  BY TiesUnsolvable
<1> QED
  BY <1>1, SegTypes, TieInvariant, PTL
=============================================================================
