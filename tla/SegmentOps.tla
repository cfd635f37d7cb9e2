----------------------------- MODULE SegmentOps -----------------------------
(***************************************************************************)
(* Monitor::readSegTrace (main.cpp) as operators: the window of events a   *)
(* call copies, the names it gives them, and the pairs it adds to the      *)
(* fixed table hbSet[HbMax][2] (HbMax is 50 in the code).                  *)
(***************************************************************************)
EXTENDS Integers, Sequences, SequencesExt

CONSTANT HbMax   \* entries of hbSet

ASSUME HbMaxAssumption == HbMax \in Nat \ {0}

\* Mutant: the window does not reach back.
WindowStartAtSegment(start, eps) == start

\* start = max(start - eps, 0)
WindowStart(start, eps) == IF start > eps THEN start - eps ELSE 0

\* numEvent[i]: the events j with start <= j < min(numEventAll[i], end).
WindowSize(length, lo, end) ==
  LET hi == IF length < end THEN length ELSE end
  IN  IF hi > lo THEN hi - lo ELSE 0

\* The sizes of the windows of processes 0 .. P-1.
WindowSizes(P, numEventAll, lo, end) ==
  [i \in 0 .. P - 1 |-> WindowSize(numEventAll[i], lo, end)]

\* EName[i][j]: events are numbered from 1, process after process.  The entry
\* for P is the number of all events, totNumEvents of solveSMT.
NamesBefore(P, numEvent) ==
  LET before[i \in 0 .. P] ==
        IF i = 0 THEN 0 ELSE before[i - 1] + numEvent[i - 1]
  IN  before

TotNumEvents(P, numEvent) == IF P <= 0 THEN 0 ELSE NamesBefore(P, numEvent)[P]

\* The condition under which event j of process i and event l of process k
\* are entered: another process, and window positions at least eps apart.
Ordered(i, j, k, l, eps) ==
  /\ i # k
  /\ (IF j > l THEN j - l ELSE l - j) >= eps

\* The pairs of names the four nested loops enter, in their order.
NewPairs(P, numEvent, eps) ==
  LET before == NamesBefore(P, numEvent)
      row(i, j, k) ==
        FlattenSeq([l \in 1 .. numEvent[k] |->
          IF Ordered(i, j, k, l - 1, eps) THEN << <<before[i] + j + 1, before[k] + l>> >>
          ELSE <<>>])
      rows(i, j) == FlattenSeq([k \in 1 .. P |-> row(i, j, k - 1)])
      block(i)   == FlattenSeq([j \in 1 .. numEvent[i] |-> rows(i, j - 1)])
  IN  FlattenSeq([i \in 1 .. P |-> block(i - 1)])

\* hbSet with its counter: an array from 0, the counter numHbSet stored right
\* behind it.
EmptyTable == [hbSet |-> [e \in 0 .. HbMax - 1 |-> <<0, 0>>], numHbSet |-> 0, wild |-> FALSE]

\* Mutant: the counter is not incremented.
EnterInPlace(table, p) ==
  IF table.wild THEN table ELSE [table EXCEPT !.hbSet[table.numHbSet] = p]

\* hbSet[numHbSet][0] = p[1]; hbSet[numHbSet++][1] = p[2].  With the table
\* full the first store goes to numHbSet itself, which the second statement
\* reads again; only a name too large for the table makes it leave it.
Enter(table, p) ==
  IF table.wild THEN table
  ELSE IF table.numHbSet < HbMax
  THEN [table EXCEPT !.hbSet[table.numHbSet] = p, !.numHbSet = @ + 1]
  ELSE IF p[1] < HbMax
  THEN [table EXCEPT !.hbSet[p[1]][2] = p[2], !.numHbSet = p[1] + 1]
  ELSE [table EXCEPT !.wild = TRUE]

\* The pairs one after the other.  (The set binds the table before a pair to
\* t, so that TLC computes it once.)
EnterAll(table, pairs) ==
  LET after[x \in 0 .. Len(pairs)] ==
        IF x = 0 THEN table
        ELSE CHOOSE next \in {Enter(t, pairs[x]) : t \in {after[x - 1]}} : TRUE
  IN  after[Len(pairs)]

\* The entries the solver sees.
Entries(table) == {table.hbSet[e] : e \in 0 .. table.numHbSet - 1}
=============================================================================
