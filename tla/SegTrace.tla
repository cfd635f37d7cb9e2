------------------------------ MODULE SegTrace ------------------------------
(***************************************************************************)
(* One monitor in the segment loops of main.cpp's main(): for every eps    *)
(* the trace is cut into segments of SegLength events, and readSegTrace    *)
(* copies each segment together with the eps events before it, and         *)
(* solveSMT is asked about it.  The loop is bounded by the length of the   *)
(* central monitor's process 0, whichever monitor this is.                 *)
(***************************************************************************)
EXTENDS SegmentOps, SolveSMT

CONSTANTS
  SegLength,      \* segLength, 4 in the code
  MaxEps,         \* the last eps, 5 in the code
  MaxProcesses,   \* bound: monitored processes
  MaxLength       \* bound: events of a process

ASSUME SegTraceAssumption ==
  /\ SegLength \in Nat \ {0}
  /\ MaxEps \in Nat
  /\ MaxProcesses \in Nat \ {0}
  /\ MaxLength \in Nat

VARIABLES
  numProcess,    \* the processes the loops visit
  numEventAll,   \* their trace lengths
  cenLength,     \* numEventAll[0] of the central monitor
  eps,           \* the skew of this pass
  end,           \* end of the last segment
  numEvent,      \* window sizes of the current segment
  table,         \* hbSet and numHbSet, never emptied
  examined,      \* history: the windows of this pass, as <<first, last + 1>>
  lost           \* history: a segment had more pairs than the table room

vars == <<numProcess, numEventAll, cenLength, eps, end, numEvent, table, examined, lost>>

\* A monitor with two devices visits one, so only the central one has more.
Init ==
  /\ numProcess \in 0 .. MaxProcesses
  /\ numEventAll \in [0 .. MaxProcesses - 1 -> 0 .. MaxLength]
  /\ cenLength \in 0 .. MaxLength
  /\ numProcess > 1 => cenLength = numEventAll[0]
  /\ eps = 0
  /\ end = 0
  /\ numEvent = [i \in 0 .. numProcess - 1 |-> 0]
  /\ table = EmptyTable
  /\ examined = {}
  /\ lost = FALSE

\* Mutant: eps is not bounded.
PassLeftAlways == TRUE

\* eps <= 5
PassLeft == eps <= MaxEps

\* Mutant: the loop wants a full segment.
TraceLeftFull == end + SegLength <= cenLength

\* while(end < centMon.numEventAll[0])
TraceLeft == end < cenLength

\* totNumEvents of the current segment.
SegmentEvents == TotNumEvents(numProcess, numEvent)

\* solveSMT throws on a segment without events, and nobody catches it.
Aborted == end > 0 /\ SegmentEvents = 0

\* The body of the while loop: start = end, end += segLength, readSegTrace.
ReadSegment ==
  /\ PassLeft
  /\ TraceLeft
  /\ ~ table.wild
  /\ ~ Aborted
  /\ LET lo    == WindowStart(end, eps)
         sizes == WindowSizes(numProcess, numEventAll, lo, end + SegLength)
     IN  /\ numEvent' = sizes
         /\ \E pairs \in {NewPairs(numProcess, sizes, eps)} :
              /\ table' = EnterAll(table, pairs)
              /\ lost' = (lost \/ table.numHbSet + Len(pairs) > HbMax)
         /\ examined' = examined \cup {<<lo, end + SegLength>>}
  /\ end' = end + SegLength
  /\ UNCHANGED <<numProcess, numEventAll, cenLength, eps>>

\* The end of a pass: the next eps starts from the beginning of the trace.
NextPass ==
  /\ PassLeft
  /\ ~ TraceLeft
  /\ ~ table.wild
  /\ ~ Aborted
  /\ eps' = eps + 1
  /\ end' = 0
  /\ examined' = {}
  /\ UNCHANGED <<numProcess, numEventAll, cenLength, numEvent, table, lost>>

Next == ReadSegment \/ NextPass

Spec == Init /\ [][Next]_vars

-----------------------------------------------------------------------------
\* Types of the loop variables of main() and of the windows read so far.
TypeOK ==
  /\ numProcess \in Nat
  /\ numEventAll \in [0 .. MaxProcesses - 1 -> Nat]
  /\ cenLength \in Nat
  /\ eps \in 0 .. MaxEps + 1
  /\ end \in Nat
  /\ examined \subseteq Nat \X Nat
  /\ lost \in BOOLEAN

\* Both positions are copied by one call.
Together(a, b) ==
  \E w \in examined : /\ w[1] <= a /\ a < w[2]
                      /\ w[1] <= b /\ b < w[2]

\* Cutting the trace into segments separates no events that may be
\* concurrent: two positions at most eps apart, anywhere in the part of the
\* trace already covered, were in one window (main.cpp 154, 411-418).
SkewedEventsMeet ==
  \A a, b \in 0 .. end - 1 : a <= b /\ b - a <= eps => Together(a, b)

\* The loop does not stop early: when a pass ends, all of it is covered.
PassCoversTrace ==
  [][eps' # eps => \A a \in 0 .. cenLength - 1 : Together(a, a)]_vars

\* The windows of the very first segment, and its events.
FirstSizes == WindowSizes(numProcess, numEventAll, 0, SegLength)
FirstEvents == TotNumEvents(numProcess, FirstSizes)

\* Two processes have an event in the first segment.
FirstShared ==
  \E i, k \in 0 .. numProcess - 1 : i # k /\ FirstSizes[i] > 0 /\ FirstSizes[k] > 0

\* In the pass with eps = 0 the test |j - l| >= eps (main.cpp 175) enters
\* every two events of different processes in both directions, and numHbSet
\* is never reset.  So once two processes had an event in the first segment,
\* no segment of any pass has a solution - neither the ones of that pass,
\* nor those of a later eps, which would have one by their own pairs - as
\* long as no pair was lost and an int can name the first segment's events.
FirstTiesLast ==
  end > 0 /\ ~ lost /\ FirstShared /\ FirstEvents < IntBits =>
    ~ Satisfiable(SegmentEvents, Entries(table))

\* The pairs of the current segment.
SegmentPairs ==
  LET pairs == NewPairs(numProcess, numEvent, eps)
  IN  {pairs[x] : x \in 1 .. Len(pairs)}

\* main.cpp 37-38: hbSet has every pair of events of different processes at
\* least eps apart in the current segment.  The entries of earlier segments
\* are never removed, so with the code's 50 entries it has not.
TableHoldsSegment == end > 0 => SegmentPairs \subseteq Entries(table)
=============================================================================
