----------------------------- MODULE ReadTrace ------------------------------
(***************************************************************************)
(* Monitor::readFile (main.cpp): a details file is the traces of some      *)
(* devices one after the other, each a line with the device's name (it     *)
(* contains "light" or "switch") and one line per event.  The lines go     *)
(* into the fixed array EValueAll[Rows][Cols], 10 by 100 in the code.      *)
(*                                                                         *)
(* The text of a value line does not matter to any branch, so a line is    *)
(* known by where it comes from: <<p, j>> is event j of device p.          *)
(*                                                                         *)
(* No index is checked.  An index past the end of a row is an address in   *)
(* the rows below it; past the last row, or for a device the array has no  *)
(* row for, the store hits the members that follow, and the model stops    *)
(* there with wild = TRUE: it says nothing about what comes after.         *)
(***************************************************************************)
EXTENDS Integers, Sequences

CONSTANTS
  Rows,         \* first bound of EValueAll and the bound of numEventAll
  Cols,         \* second bound of EValueAll
  MaxDevices,   \* bound: devices in a file
  MaxLength     \* bound: events of a device

ASSUME ReadTraceAssumption ==
  /\ Rows \in Nat \ {0}
  /\ Cols \in Nat \ {0}
  /\ MaxDevices \in Nat
  /\ MaxLength \in Nat

VARIABLES
  lengths,       \* lengths[k]: the number of value lines of the k-th trace
  dev,           \* the trace getline is in, Len(lengths) + 1 at end of file
  line,          \* the next line of that trace, 0 for its name
  EValueAll,     \* the array, by row and column
  numEventAll,   \* per device, the value lines stored
  numProcess,    \* see ReadName: the index of the last device, not a count
  wild           \* a store has left the array

vars == <<lengths, dev, line, EValueAll, numEventAll, numProcess, wild>>

RowIds == 0 .. Rows - 1
ColIds == 0 .. Cols - 1

Empty == <<>>   \* the "" every cell starts with

\* Mutant: numProcess starts as the count it is used as.
FromZero == 0

\* numProcess = -1
FromMinusOne == -1

\* setValues, then the first statements of readFile.  Files without a trace
\* exist: main() skips a device file it cannot open.
Init ==
  /\ lengths \in UNION {[1 .. k -> 0 .. MaxLength] : k \in 0 .. MaxDevices}
  /\ dev = 1
  /\ line = 0
  /\ EValueAll = [r \in RowIds |-> [k \in ColIds |-> Empty]]
  /\ numEventAll = [r \in RowIds |-> 0]
  /\ numProcess = FromMinusOne
  /\ wild = FALSE

Reading == ~ wild /\ dev <= Len(lengths)

\* The line after this one.
NextLine ==
  /\ dev' = IF line = lengths[dev] THEN dev + 1 ELSE dev
  /\ line' = IF line = lengths[dev] THEN 0 ELSE line + 1

\* A line with the device's name.
ReadName ==
  /\ Reading
  /\ line = 0
  /\ numProcess' = numProcess + 1
  /\ NextLine
  /\ UNCHANGED <<lengths, EValueAll, numEventAll, wild>>

\* Mutant: an index past the row starts again at its beginning.
CellInRow(p, n) == <<p, n % Cols>>

\* Where EValueAll[p][n] is: in row p, or spilled into the rows after it.
Cell(p, n) == IF n < Cols THEN <<p, n>> ELSE <<p + n \div Cols, n % Cols>>

\* Mutant: the counter is incremented before it is used as an index.
SlotPreIncrement(p) == numEventAll[p] + 1

\* numEventAll[numProcess]++, as an index.
Slot(p) == numEventAll[p]

\* Any other line: EValueAll[numProcess][numEventAll[numProcess]++] = line.
ReadValue ==
  /\ Reading
  /\ line > 0
  /\ LET p    == numProcess
         cell == IF p < Rows THEN Cell(p, Slot(p)) ELSE <<Rows, 0>>
     IN  IF cell[1] < Rows
         THEN /\ EValueAll' = [EValueAll EXCEPT ![cell[1]][cell[2]] = <<dev - 1, line - 1>>]
              /\ numEventAll' = [numEventAll EXCEPT ![p] = @ + 1]
              /\ wild' = FALSE
         ELSE /\ wild' = TRUE
              /\ UNCHANGED <<EValueAll, numEventAll>>
  /\ NextLine
  /\ UNCHANGED <<lengths, numProcess>>

Next == ReadName \/ ReadValue

Spec == Init /\ [][Next]_vars

-----------------------------------------------------------------------------
\* Types of the members readFile fills; the place in the file is a line of it,
\* and numProcess an index of a device or -1.
TypeOK ==
  /\ lengths \in Seq(Nat)
  /\ dev \in 1 .. Len(lengths) + 1
  /\ line \in Nat
  /\ dev <= Len(lengths) => line <= lengths[dev]
  /\ EValueAll \in [RowIds -> [ColIds -> {Empty} \cup (Nat \X Nat)]]
  /\ numEventAll \in [RowIds -> Nat]
  /\ numProcess \in -1 .. Len(lengths) - 1
  /\ wild \in BOOLEAN

AtEnd == ~ wild /\ dev = Len(lengths) + 1

\* The files the array has room for.
Fits ==
  /\ Len(lengths) <= Rows
  /\ \A k \in 1 .. Len(lengths) : lengths[k] <= Cols

\* What EValueAll[p][n] reads back as.
ReadBack(p, n) == LET cell == Cell(p, n) IN EValueAll[cell[1]][cell[2]]

\* A file that fits is stored completely and in place: at any moment every
\* stored event reads back as itself, no store leaves the array, and at the
\* end of the file no event is missing (main.cpp 135-147).
FittingFileStored ==
  Fits =>
    /\ ~ wild
    /\ \A p \in RowIds : \A n \in 0 .. numEventAll[p] - 1 : ReadBack(p, n) = <<p, n>>
    /\ AtEnd => \A p \in RowIds :
                  p < Len(lengths) => numEventAll[p] = lengths[p + 1]

\* After the file, numProcess is one less than the number of devices: every
\* loop "i < numProcess" of the monitor leaves out the last device, and a
\* file without a trace leaves -1.
LastDeviceLeftOut == AtEnd => numProcess = Len(lengths) - 1

\* The devices whose trace reaches a cell of the array, spilling or not.
Writers(r, k) ==
  {p \in 0 .. Len(lengths) - 1 : p <= r /\ (r - p) * Cols + k < lengths[p + 1]}

\* What the array holds after any file that did not leave it: a cell belongs
\* to the last device whose trace reaches it.  So the tail of a trace longer
\* than a row is the head of the next one, for every device but the last.
LastWriterWins ==
  AtEnd =>
    \A r \in RowIds, k \in ColIds :
      LET W == Writers(r, k)
      IN  IF W = {}
          THEN EValueAll[r][k] = Empty
          ELSE \E p \in W : /\ \A q \in W : q <= p
                            /\ EValueAll[r][k] = <<p, (r - p) * Cols + k>>

\* main.cpp 34: EValueAll and numEventAll are the values and the number of
\* events "for the entire trace file".
EntireTraceFile ==
  AtEnd =>
    \A p \in 0 .. Len(lengths) - 1 : \A n \in 0 .. lengths[p + 1] - 1 :
      ReadBack(p, n) = <<p, n>>
=============================================================================
