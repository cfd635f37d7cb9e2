--------------------------- MODULE SolveSMTInputs ---------------------------
(***************************************************************************)
(* The inputs of solveSMT: the number of events of a segment, and a table  *)
(* that only ever grows (numHbSet is never reset).                         *)
(***************************************************************************)
EXTENDS SolveSMT

CONSTANTS
  MaxEvents,   \* bound: events in a segment
  MaxEntries   \* bound: entries of the table

ASSUME InputsAssumption ==
  /\ MaxEvents \in Nat \ {0}
  /\ MaxEntries \in Nat

VARIABLES
  totNumEvents,   \* the events of the segment
  hbEntries       \* the pairs of hbSet

inputVars == <<totNumEvents, hbEntries>>

InputInit == totNumEvents \in 1 .. MaxEvents /\ hbEntries = {}

\* readSegTrace enters a pair of names, of this segment or of an earlier and
\* larger one.
EnterPair ==
  /\ Cardinality(hbEntries) < MaxEntries
  /\ \E a, b \in 1 .. MaxEvents : a # b /\ hbEntries' = hbEntries \cup {<<a, b>>}
  /\ totNumEvents' = totNumEvents

InputSpec == InputInit /\ [][EnterPair]_inputVars

HasSolution == Satisfiable(totNumEvents, hbEntries)

\* The names that 2^(name - 1) as an int can stand for.
NarrowNames == \A p \in hbEntries : p[1] <= IntBits /\ p[2] <= IntBits

\* The encoding is exact for 2 and for 4 events, where n^2 = 2^n: solveSMT
\* has a solution just when the entries admit an order of the events, also
\* when they name events of an earlier, larger segment.
ExactWhenSquareIsPower ==
  totNumEvents \in {2, 4} /\ NarrowNames =>
    (HasSolution <=> Linearizable(totNumEvents, hbEntries))

\* Without entries every other number of events has a solution: the answer
\* of a monitor that orders no events depends on the window size only.
AnswerBySizeAlone ==
  hbEntries = {} => (HasSolution <=> totNumEvents = 2 \/ totNumEvents >= 4)
=============================================================================
