-------------------------- MODULE ReadTraceProofs ---------------------------
(***************************************************************************)
(* Proofs about ReadTrace, for an array of any size and files of any       *)
(* number and length of traces.  The invariant ties the counters readFile  *)
(* keeps to the place getline has reached in the file.                     *)
(***************************************************************************)
EXTENDS ReadTrace, TLAPS

\* The value lines of device p read so far.
LinesRead(p) ==
  IF p < dev - 1 THEN lengths[p + 1]
  ELSE IF p = dev - 1 /\ line > 0 THEN line - 1
  ELSE 0

\* Where the counters are: numProcess is the index of the device being read,
\* numEventAll the lines of each device, while no store has gone wild.
CountersInv ==
  /\ numProcess = IF line = 0 THEN dev - 2 ELSE dev - 1
  /\ line > 0 => dev <= Len(lengths)
  /\ ~ wild => \A p \in RowIds : p < Len(lengths) => numEventAll[p] = LinesRead(p)
  /\ ~ wild => \A p \in RowIds : p >= Len(lengths) => numEventAll[p] = 0

\* What a file that fits leaves in the array.
StoredInv ==
  Fits => /\ ~ wild
          /\ \A p \in RowIds : \A n \in 0 .. numEventAll[p] - 1 :
               n < Cols /\ EValueAll[p][n] = <<p, n>>

\* The devices whose lines read so far reach a cell of the array.
Reached(r, k) ==
  {p \in 0 .. Len(lengths) - 1 : p <= r /\ (r - p) * Cols + k < LinesRead(p)}

\* A cell holds the line of the last of them.
HoldsLast(r, k) ==
  \/ Reached(r, k) = {} /\ EValueAll[r][k] = Empty
  \/ \E p \in Reached(r, k) :
       /\ \A q \in Reached(r, k) : q <= p
       /\ EValueAll[r][k] = <<p, (r - p) * Cols + k>>

CellsInv == ~ wild => \A r \in RowIds, k \in ColIds : HoldsLast(r, k)

ReadInv == TypeOK /\ CountersInv /\ StoredInv

-----------------------------------------------------------------------------
\* A cell reached from inside the array is a column of some row.
LEMMA CellType ==
  ASSUME NEW p \in Nat, NEW n \in Nat
  PROVE  /\ Cell(p, n) = <<Cell(p, n)[1], Cell(p, n)[2]>>
         /\ Cell(p, n)[1] \in Nat /\ Cell(p, n)[1] >= p
         /\ Cell(p, n)[2] \in ColIds
         /\ n < Cols => Cell(p, n) = <<p, n>>
<1>1. Cols \in Nat /\ Cols > 0
  BY ReadTraceAssumption
<1>2. CASE n < Cols
  BY <1>1, <1>2 DEF Cell, ColIds
<1>3. CASE n >= Cols
  <2>1. n \div Cols \in Nat /\ n % Cols \in 0 .. Cols - 1
    BY <1>1
  <2> QED
    BY <1>1, <1>3, <2>1 DEF Cell, ColIds
<1> QED
  BY <1>1, <1>2, <1>3

\* The event of device p whose place in memory is the cell <<r, k>>.
EventAt(p, r, k) == (r - p) * Cols + k

\* Cell and EventAt are inverse: a device has one event for a cell at or below
\* its own row, and an event one cell.
LEMMA EventAtCell ==
  ASSUME NEW p \in Nat, NEW n \in Nat, NEW r \in Nat, NEW k \in ColIds, p <= r
  PROVE  /\ EventAt(p, r, k) \in Nat
         /\ EventAt(p, r, k) = n <=> Cell(p, n) = <<r, k>>
<1>1. Cols \in Nat /\ Cols > 0 /\ k \in Nat /\ k < Cols
  BY ReadTraceAssumption DEF ColIds
<1> DEFINE d == r - p
<1>2. d \in Nat
  OBVIOUS
<1>3. d * Cols \in Nat
  BY <1>1, <1>2
<1>4. EventAt(p, r, k) = d * Cols + k
  BY DEF EventAt
<1>5. d > 0 => d * Cols >= Cols
  BY <1>1, <1>2
<1>6. (d * Cols + k) \div Cols = d /\ (d * Cols + k) % Cols = k
  BY <1>1, <1>2
<1>7. n = (n \div Cols) * Cols + (n % Cols) /\ n \div Cols \in Nat /\ n % Cols \in Nat
  BY <1>1
<1> QED
  BY <1>1, <1>2, <1>3, <1>4, <1>5, <1>6, <1>7 DEF Cell

\* Files are sequences of lengths.
LEMMA FileType ==
  ASSUME NEW k \in Nat, NEW M \in Nat, NEW f \in [1 .. k -> 0 .. M]
  PROVE  f \in Seq(Nat) /\ Len(f) = k
OBVIOUS

\* Before the first line.
LEMMA ReadInit == Init => ReadInv
<1> SUFFICES ASSUME Init PROVE ReadInv
  OBVIOUS
<1>1. PICK k \in 0 .. MaxDevices : lengths \in [1 .. k -> 0 .. MaxLength]
  BY DEF Init, FromMinusOne
<1>2. lengths \in Seq(Nat) /\ Len(lengths) = k /\ k \in Nat
  BY <1>1, ReadTraceAssumption, FileType
<1>3. TypeOK
  <2>1. \A j \in 1 .. k : lengths[j] \in Nat
    BY <1>1
  <2>2. EValueAll \in [RowIds -> [ColIds -> {Empty} \cup (Nat \X Nat)]]
    BY DEF Init, FromMinusOne
  <2>3. numEventAll \in [RowIds -> Nat]
    BY DEF Init, FromMinusOne
  <2>4. dev = 1 /\ line = 0 /\ numProcess = -1 /\ wild = FALSE
    BY DEF Init, FromMinusOne
  <2>5. dev <= Len(lengths) => line <= lengths[dev]
    BY <1>2, <2>1, <2>4
  <2>6. dev \in 1 .. Len(lengths) + 1 /\ numProcess \in -1 .. Len(lengths) - 1
    BY <1>2, <2>4
  <2>7. line \in Nat /\ wild \in BOOLEAN
    BY <2>4
  <2> QED
    BY <1>2, <2>2, <2>3, <2>5, <2>6, <2>7 DEF TypeOK
<1>4. CountersInv
  <2>1. \A p \in RowIds : p \in Nat
    BY DEF RowIds
  <2> QED
    BY <2>1 DEF Init, FromMinusOne, CountersInv, LinesRead
<1>5. StoredInv
  BY DEF Init, FromMinusOne, StoredInv
<1> QED
  BY <1>3, <1>4, <1>5 DEF ReadInv

\* What a line is, and where the next one is.
LEMMA NextLineEffect ==
  ASSUME TypeOK, Reading, NextLine, lengths' = lengths
  PROVE  /\ dev \in 1 .. Len(lengths) /\ Len(lengths) \in Nat
         /\ lengths[dev] \in Nat /\ line \in 0 .. lengths[dev]
         /\ dev' \in 1 .. Len(lengths) + 1 /\ line' \in Nat
         /\ dev' <= Len(lengths) => line' <= lengths[dev']
         /\ \/ line = lengths[dev] /\ dev' = dev + 1 /\ line' = 0
            \/ line < lengths[dev] /\ dev' = dev /\ line' = line + 1
<1>1. /\ lengths \in Seq(Nat) /\ Len(lengths) \in Nat
      /\ dev \in 1 .. Len(lengths) /\ line \in Nat /\ line <= lengths[dev]
  BY DEF TypeOK, Reading
<1>2. \A j \in 1 .. Len(lengths) : lengths[j] \in Nat
  BY <1>1
<1>3. CASE line = lengths[dev]
  BY <1>1, <1>2, <1>3 DEF NextLine
<1>4. CASE line < lengths[dev]
  BY <1>1, <1>2, <1>4 DEF NextLine
<1> QED
  BY <1>1, <1>2, <1>3, <1>4

\* A line with a device's name only moves numProcess.
LEMMA ReadNameInv == ReadInv /\ ReadName => ReadInv'
<1> SUFFICES ASSUME ReadInv, ReadName PROVE ReadInv'
  OBVIOUS
<1>1. /\ TypeOK /\ Reading /\ NextLine /\ line = 0 /\ numProcess' = numProcess + 1
      /\ UNCHANGED <<lengths, EValueAll, numEventAll, wild>>
  BY DEF ReadInv, ReadName
<1>2. /\ dev \in 1 .. Len(lengths) /\ Len(lengths) \in Nat
      /\ lengths[dev] \in Nat /\ line \in 0 .. lengths[dev]
      /\ dev' \in 1 .. Len(lengths) + 1 /\ line' \in Nat
      /\ dev' <= Len(lengths) => line' <= lengths[dev']
      /\ \/ line = lengths[dev] /\ dev' = dev + 1 /\ line' = 0
         \/ line < lengths[dev] /\ dev' = dev /\ line' = line + 1
  BY <1>1, NextLineEffect
<1>3. numProcess = dev - 2 /\ numProcess' = dev - 1
  BY <1>1, <1>2 DEF ReadInv, CountersInv
<1>4. TypeOK'
  <2>1. numProcess' \in -1 .. Len(lengths) - 1
    BY <1>2, <1>3
  <2> QED
    BY <1>1, <1>2, <2>1 DEF TypeOK
<1>5. \A p \in RowIds : p < Len(lengths) => LinesRead(p)' = LinesRead(p)
  <2> SUFFICES ASSUME NEW p \in RowIds, p < Len(lengths)
               PROVE  LinesRead(p)' = LinesRead(p)
    OBVIOUS
  <2>1. p \in Nat
    BY DEF RowIds
  <2>2. CASE line = lengths[dev] /\ dev' = dev + 1 /\ line' = 0
    BY <1>1, <1>2, <2>1, <2>2 DEF LinesRead
  <2>3. CASE line < lengths[dev] /\ dev' = dev /\ line' = line + 1
    BY <1>1, <1>2, <2>1, <2>3 DEF LinesRead
  <2> QED
    BY <1>2, <2>2, <2>3
<1>6. CountersInv'
  <2>1. numProcess' = IF line' = 0 THEN dev' - 2 ELSE dev' - 1
    <3>1. CASE dev' = dev + 1 /\ line' = 0
      BY <1>2, <1>3, <3>1
    <3>2. CASE dev' = dev /\ line' = line + 1
      BY <1>1, <1>3, <3>2
    <3> QED
      BY <1>2, <3>1, <3>2
  <2>2. line' > 0 => dev' <= Len(lengths')
    BY <1>1, <1>2
  <2>3. ~ wild' => \A p \in RowIds : p < Len(lengths') => numEventAll'[p] = LinesRead(p)'
    BY <1>1, <1>5 DEF ReadInv, CountersInv
  <2>4. ~ wild' => \A p \in RowIds : p >= Len(lengths') => numEventAll'[p] = 0
    BY <1>1 DEF ReadInv, CountersInv
  <2> QED
    BY <2>1, <2>2, <2>3, <2>4 DEF CountersInv
<1>7. StoredInv'
  BY <1>1 DEF ReadInv, StoredInv, Fits
<1> QED
  BY <1>4, <1>6, <1>7 DEF ReadInv

\* A value line, stored or gone wild.
LEMMA ReadValueInv == ReadInv /\ ReadValue => ReadInv'
<1> SUFFICES ASSUME ReadInv, ReadValue PROVE ReadInv'
  OBVIOUS
<1> DEFINE p == numProcess
           n == numEventAll[p]
           cell == IF p < Rows THEN Cell(p, n) ELSE <<Rows, 0>>
<1>1. /\ TypeOK /\ Reading /\ NextLine /\ line > 0 /\ ~ wild
      /\ UNCHANGED <<lengths, numProcess>>
  BY DEF ReadInv, ReadValue, Reading
<1>2. /\ dev \in 1 .. Len(lengths) /\ Len(lengths) \in Nat
      /\ lengths[dev] \in Nat /\ line \in 0 .. lengths[dev]
      /\ dev' \in 1 .. Len(lengths) + 1 /\ line' \in Nat
      /\ dev' <= Len(lengths) => line' <= lengths[dev']
      /\ \/ line = lengths[dev] /\ dev' = dev + 1 /\ line' = 0
         \/ line < lengths[dev] /\ dev' = dev /\ line' = line + 1
  BY <1>1, NextLineEffect
<1>3. p = dev - 1 /\ p \in Nat /\ p < Len(lengths) /\ Rows \in Nat /\ Cols \in Nat
  BY <1>1, <1>2, ReadTraceAssumption DEF ReadInv, CountersInv
<1>4. p < Rows => p \in RowIds /\ n = line - 1 /\ n \in Nat
  BY <1>1, <1>2, <1>3 DEF ReadInv, CountersInv, LinesRead, RowIds
<1>5. /\ cell[1] < Rows => /\ EValueAll' = [EValueAll EXCEPT ![cell[1]][cell[2]] = <<dev - 1, line - 1>>]
                           /\ numEventAll' = [numEventAll EXCEPT ![p] = @ + 1]
                           /\ wild' = FALSE
      /\ ~ (cell[1] < Rows) => wild' = TRUE /\ UNCHANGED <<EValueAll, numEventAll>>
  BY DEF ReadValue, Slot
<1>6. cell[1] < Rows => p < Rows /\ cell = Cell(p, n) /\ cell[1] \in RowIds /\ cell[2] \in ColIds
  <2>1. CASE p < Rows
    BY <1>3, <1>4, <2>1, CellType DEF RowIds
  <2>2. CASE ~ (p < Rows)
    BY <1>3, <2>2
  <2> QED
    BY <2>1, <2>2
<1> HIDE DEF cell
<1>7. numProcess' = IF line' = 0 THEN dev' - 2 ELSE dev' - 1
  <2>1. numProcess' = dev - 1
    BY <1>1, <1>3
  <2>2. CASE dev' = dev + 1 /\ line' = 0
    BY <1>2, <2>1, <2>2
  <2>3. CASE dev' = dev /\ line' = line + 1
    BY <1>2, <2>1, <2>3
  <2> QED
    BY <1>2, <2>2, <2>3
<1>8. line' > 0 => dev' <= Len(lengths')
  BY <1>1, <1>2
<1>9. CASE cell[1] < Rows
  <2>1. /\ EValueAll' \in [RowIds -> [ColIds -> {Empty} \cup (Nat \X Nat)]]
        /\ numEventAll' \in [RowIds -> Nat]
    <3>1. <<dev - 1, line - 1>> \in {Empty} \cup (Nat \X Nat)
      BY <1>1, <1>2
    <3>2. EValueAll \in [RowIds -> [ColIds -> {Empty} \cup (Nat \X Nat)]]
      BY <1>1 DEF TypeOK
    <3>3. numEventAll \in [RowIds -> Nat]
      BY <1>1 DEF TypeOK
    <3>4. EValueAll' \in [RowIds -> [ColIds -> {Empty} \cup (Nat \X Nat)]]
      <4> DEFINE T == {Empty} \cup (Nat \X Nat)
                 v == <<dev - 1, line - 1>>
      <4>1. v \in T /\ EValueAll \in [RowIds -> [ColIds -> T]]
        BY <3>1, <3>2
      <4>2. EValueAll' = [EValueAll EXCEPT ![cell[1]][cell[2]] = v]
        BY <1>5, <1>9
      <4> HIDE DEF T, v
      <4> QED
        BY <1>6, <1>9, <4>1, <4>2 DEF T
    <3>5. numEventAll' \in [RowIds -> Nat]
      BY <1>4, <1>5, <1>6, <1>9, <3>3
    <3> QED
      BY <3>4, <3>5
  <2>2. TypeOK'
    BY <1>1, <1>2, <1>5, <1>9, <2>1 DEF TypeOK
  <2>3. \A q \in RowIds : numEventAll'[q] = IF q = p THEN line ELSE numEventAll[q]
    BY <1>1, <1>2, <1>4, <1>5, <1>6, <1>9, SMTT(30) DEF TypeOK
  <2>4. \A q \in RowIds : q < Len(lengths) => numEventAll'[q] = LinesRead(q)'
    <3> SUFFICES ASSUME NEW q \in RowIds, q < Len(lengths)
                 PROVE  numEventAll'[q] = LinesRead(q)'
      OBVIOUS
    <3>1. q \in Nat
      BY DEF RowIds
    <3>2. q # p => numEventAll[q] = LinesRead(q)
      BY <1>1 DEF ReadInv, CountersInv
    <3>3. CASE line = lengths[dev] /\ dev' = dev + 1 /\ line' = 0
      <4>1. LinesRead(q)' = IF q < dev THEN lengths[q + 1] ELSE 0
        BY <1>1, <1>2, <3>1, <3>3 DEF LinesRead
      <4>2. q # p => LinesRead(q) = IF q < dev THEN lengths[q + 1] ELSE 0
        BY <1>2, <1>3, <3>1 DEF LinesRead
      <4>3. q = p => lengths[q + 1] = line /\ q < dev
        BY <1>2, <1>3, <3>3
      <4> QED
        BY <2>3, <3>2, <4>1, <4>2, <4>3
    <3>4. CASE line < lengths[dev] /\ dev' = dev /\ line' = line + 1
      <4>1. q # p => LinesRead(q)' = LinesRead(q)
        BY <1>1, <1>2, <1>3, <3>1, <3>4 DEF LinesRead
      <4>2. q = p => LinesRead(q)' = line
        BY <1>1, <1>2, <1>3, <3>1, <3>4 DEF LinesRead
      <4> QED
        BY <2>3, <3>2, <4>1, <4>2
    <3> QED
      BY <1>2, <3>3, <3>4
  <2>5. \A q \in RowIds : q >= Len(lengths) => numEventAll'[q] = 0
    <3> SUFFICES ASSUME NEW q \in RowIds, q >= Len(lengths) PROVE numEventAll'[q] = 0
      OBVIOUS
    <3>1. q \in Nat /\ q # p
      BY <1>2, <1>3 DEF RowIds
    <3> QED
      BY <1>1, <2>3, <3>1 DEF ReadInv, CountersInv
  <2>6. CountersInv'
    BY <1>1, <1>7, <1>8, <2>4, <2>5 DEF CountersInv
  <2>7. StoredInv'
    <3> SUFFICES ASSUME Fits,
                        NEW q \in RowIds, NEW e \in 0 .. numEventAll'[q] - 1
                 PROVE  e < Cols /\ EValueAll'[q][e] = <<q, e>>
      BY <1>1, <1>5, <1>9 DEF StoredInv, Fits
    <3>1. line <= Cols /\ n = line - 1 /\ n < Cols
      BY <1>2, <1>3, <1>4, <1>6, <1>9 DEF Fits
    <3>2. cell = <<p, n>>
      BY <1>3, <1>4, <1>6, <1>9, <3>1, CellType
    <3>3. /\ EValueAll' = [EValueAll EXCEPT ![p][n] = <<p, n>>]
          /\ p \in RowIds /\ n \in ColIds
      BY <1>3, <1>4, <1>5, <1>6, <1>9, <3>1, <3>2 DEF ColIds
    <3>4. EValueAll \in [RowIds -> [ColIds -> {Empty} \cup (Nat \X Nat)]]
      BY <1>1 DEF TypeOK
    <3>5. CASE q = p /\ e = n
      BY <3>1, <3>3, <3>4, <3>5
    <3>6. CASE ~ (q = p /\ e = n)
      <4>1. e \in 0 .. numEventAll[q] - 1
        BY <1>2, <2>3, <3>1, <3>6, <1>4, <1>6, <1>9
      <4>2. e < Cols /\ EValueAll[q][e] = <<q, e>>
        BY <4>1 DEF ReadInv, StoredInv
      <4>3. e \in ColIds
        BY <1>3, <4>1, <4>2 DEF ColIds
      <4>4. EValueAll'[q][e] = EValueAll[q][e]
        BY <3>3, <3>4, <3>6, <4>3
      <4> QED
        BY <4>2, <4>4
    <3> QED
      BY <3>5, <3>6
  <2> QED
    BY <2>2, <2>6, <2>7 DEF ReadInv
<1>10. CASE ~ (cell[1] < Rows)
  <2>1. TypeOK'
    BY <1>1, <1>2, <1>5, <1>10 DEF TypeOK
  <2>2. CountersInv'
    BY <1>5, <1>7, <1>8, <1>10 DEF CountersInv
  <2>3. ~ Fits
    <3> SUFFICES ASSUME Fits PROVE FALSE
      OBVIOUS
    <3>1. p < Rows
      BY <1>2, <1>3 DEF Fits
    <3>2. n < Cols
      BY <1>2, <1>3, <1>4, <3>1 DEF Fits
    <3>3. cell = <<p, n>>
      BY <1>3, <1>4, <3>1, <3>2, CellType DEF cell
    <3> QED
      BY <1>10, <3>1, <3>3
  <2> QED
    BY <1>1, <2>1, <2>2, <2>3 DEF ReadInv, StoredInv, Fits
<1> QED
  BY <1>9, <1>10

\* The invariant of readFile.
LEMMA ReadAlwaysInv == Spec => []ReadInv
<1>1. ReadInv /\ UNCHANGED vars => ReadInv'
  BY DEF ReadInv, TypeOK, CountersInv, StoredInv, LinesRead, Fits, vars
<1>2. ReadInv /\ [Next]_vars => ReadInv'
  BY <1>1, ReadNameInv, ReadValueInv DEF Next
<1> QED
  BY <1>2, ReadInit, PTL DEF Spec

\* A value line stored at <<r, k>> adds its device, the last so far, to those
\* that reach that cell, and to no other cell's.
LEMMA CellsStep == ReadInv /\ CellsInv /\ Next => CellsInv'
<1> SUFFICES ASSUME ReadInv, CellsInv, Next, ~ wild',
                    NEW r \in RowIds, NEW k \in ColIds
             PROVE  HoldsLast(r, k)'
  BY DEF CellsInv
<1>1. TypeOK /\ CountersInv /\ Reading /\ NextLine /\ lengths' = lengths /\ ~ wild
  BY DEF ReadInv, Next, ReadName, ReadValue, Reading
<1>2. /\ dev \in 1 .. Len(lengths) /\ Len(lengths) \in Nat
      /\ lengths[dev] \in Nat /\ line \in 0 .. lengths[dev]
      /\ \/ line = lengths[dev] /\ dev' = dev + 1 /\ line' = 0
         \/ line < lengths[dev] /\ dev' = dev /\ line' = line + 1
  BY <1>1, NextLineEffect
<1> DEFINE Devs == 0 .. Len(lengths) - 1
<1>3. \A q \in Devs : /\ LinesRead(q)' = IF q = dev - 1 /\ line > 0 THEN line ELSE LinesRead(q)
                      /\ q > dev - 1 => LinesRead(q) = 0
                      /\ q = dev - 1 /\ line > 0 => LinesRead(q) = line - 1
  <2> SUFFICES ASSUME NEW q \in Devs
               PROVE  /\ LinesRead(q)' = IF q = dev - 1 /\ line > 0 THEN line ELSE LinesRead(q)
                      /\ q > dev - 1 => LinesRead(q) = 0
                      /\ q = dev - 1 /\ line > 0 => LinesRead(q) = line - 1
    OBVIOUS
  <2>1. q \in Nat
    BY <1>2
  <2>2. CASE line = lengths[dev] /\ dev' = dev + 1 /\ line' = 0
    <3>1. LinesRead(q)' = IF q < dev THEN lengths[q + 1] ELSE 0
      BY <1>1, <1>2, <2>1, <2>2 DEF LinesRead
    <3>2. q = dev - 1 => q + 1 = dev /\ q < dev
      BY <1>2, <2>1
    <3> QED
      BY <1>2, <2>1, <2>2, <3>1, <3>2 DEF LinesRead
  <2>3. CASE line < lengths[dev] /\ dev' = dev /\ line' = line + 1
    BY <1>1, <1>2, <2>1, <2>3 DEF LinesRead
  <2> QED
    BY <1>2, <2>2, <2>3
<1>4. r \in Nat /\ HoldsLast(r, k)
  BY <1>1 DEF CellsInv, RowIds
<1>5. /\ Reached(r, k) = {q \in Devs : q <= r /\ EventAt(q, r, k) < LinesRead(q)}
      /\ Reached(r, k)' = {q \in Devs : q <= r /\ EventAt(q, r, k) < LinesRead(q)'}
  BY <1>1 DEF Reached, EventAt
<1>6. \A q \in Devs : q <= r => EventAt(q, r, k) \in Nat
  <2> SUFFICES ASSUME NEW q \in Devs, q <= r PROVE EventAt(q, r, k) \in Nat
    OBVIOUS
  <2>1. q \in Nat
    BY <1>2
  <2> QED
    BY <1>4, <2>1, EventAtCell
<1>7. ASSUME Reached(r, k)' = Reached(r, k), EValueAll'[r][k] = EValueAll[r][k]
      PROVE  HoldsLast(r, k)'
  BY <1>4, <1>7 DEF HoldsLast
<1>8. CASE ReadName
  <2>1. line = 0 /\ EValueAll' = EValueAll
    BY <1>8 DEF ReadName
  <2>2. \A q \in Devs : LinesRead(q)' = LinesRead(q)
    BY <1>3, <2>1
  <2>3. Reached(r, k)' = Reached(r, k)
    BY <1>5, <2>2
  <2> QED
    BY <1>7, <2>1, <2>3
<1>9. CASE ReadValue
  <2>1. line > 0 /\ dev - 1 \in Nat /\ line - 1 \in Nat
    BY <1>2, <1>9 DEF ReadValue
  <2>2. PICK p \in Nat, n \in Nat : p = dev - 1 /\ n = line - 1
    BY <2>1
  <2> DEFINE cell == Cell(p, n)
  <2>3. line > 0 /\ numProcess = p /\ p \in Devs /\ Rows \in Nat /\ p = dev - 1 /\ n = line - 1
    BY <1>1, <1>2, <2>1, <2>2, ReadTraceAssumption DEF CountersInv
  <2>4. p < Rows => p \in RowIds /\ numEventAll[p] = n
    BY <1>1, <1>2, <1>3, <2>3 DEF CountersInv, RowIds
  <2>5. p < Rows
    <3> SUFFICES ASSUME ~ (p < Rows) PROVE FALSE
      OBVIOUS
    <3> QED
      BY <1>9, <2>3 DEF ReadValue
  <2>6. /\ EValueAll' = [EValueAll EXCEPT ![cell[1]][cell[2]] = <<p, n>>]
        /\ cell[1] < Rows
    BY <1>9, <2>3, <2>4, <2>5 DEF ReadValue, Slot
  <2>7. cell = <<cell[1], cell[2]>> /\ cell[1] \in RowIds /\ cell[2] \in ColIds /\ cell[1] >= p
    BY <2>3, <2>6, CellType DEF RowIds
  <2>8. p <= r => (EventAt(p, r, k) = n <=> cell = <<r, k>>)
    <3> SUFFICES ASSUME p <= r PROVE EventAt(p, r, k) = n <=> cell = <<r, k>>
      OBVIOUS
    <3>1. r \in Nat /\ p \in Nat /\ n \in Nat /\ k \in ColIds
      BY <1>4
    <3>2. (EventAt(p, r, k) = n) <=> (Cell(p, n) = <<r, k>>)
      BY <3>1, EventAtCell
    <3> QED
      BY <3>2
  <2>9. EValueAll \in [RowIds -> [ColIds -> {Empty} \cup (Nat \X Nat)]]
    BY <1>1 DEF TypeOK
  <2> HIDE DEF cell
  <2>10. CASE cell = <<r, k>>
    <3>1. cell[1] = r /\ cell[2] = k /\ p <= r
      BY <1>4, <2>3, <2>7, <2>10
    <3>2. EventAt(p, r, k) = n /\ LinesRead(p)' = line
      BY <1>3, <2>3, <2>8, <2>10, <3>1
    <3>3. p \in Reached(r, k)'
      BY <1>2, <1>5, <2>3, <3>1, <3>2
    <3>4. \A q \in Reached(r, k)' : q <= p
      <4> SUFFICES ASSUME NEW q \in Devs, q <= r, EventAt(q, r, k) < LinesRead(q)', q > p
                   PROVE  FALSE
        BY <1>2, <1>5, <2>3
      <4>1. LinesRead(q)' = 0
        BY <1>2, <1>3, <2>3
      <4> QED
        BY <1>6, <4>1
    <3>5. EValueAll'[r][k] = <<p, EventAt(p, r, k)>>
      BY <2>6, <2>7, <2>9, <3>1, <3>2
    <3> QED
      BY <3>3, <3>4, <3>5 DEF HoldsLast, EventAt
  <2>11. CASE cell # <<r, k>>
    <3>1. \A q \in Devs : q <= r => (EventAt(q, r, k) < LinesRead(q)' <=> EventAt(q, r, k) < LinesRead(q))
      <4> SUFFICES ASSUME NEW q \in Devs, q <= r
                   PROVE  EventAt(q, r, k) < LinesRead(q)' <=> EventAt(q, r, k) < LinesRead(q)
        OBVIOUS
      <4>1. CASE q # p
        BY <1>3, <2>3, <4>1
      <4>2. CASE q = p
        <5>1. EventAt(q, r, k) # n /\ LinesRead(q)' = line /\ LinesRead(q) = n
          BY <1>3, <2>3, <2>8, <2>11, <4>2
        <5>2. EventAt(q, r, k) \in Nat
          BY <1>6
        <5> QED
          BY <1>2, <2>3, <5>1, <5>2
      <4> QED
        BY <4>1, <4>2
    <3>2. Reached(r, k)' = Reached(r, k)
      BY <1>5, <3>1
    <3>3. ~ (cell[1] = r /\ cell[2] = k)
      BY <2>7, <2>11
    <3>4. EValueAll'[r][k] = EValueAll[r][k]
      BY <2>6, <2>7, <2>9, <3>3
    <3> QED
      BY <1>7, <3>2, <3>4
  <2> QED
    BY <2>10, <2>11
<1> QED
  BY <1>8, <1>9 DEF Next

\* The cells hold the last lines that reach them, at every moment.
LEMMA CellsAlwaysInv == Spec => []CellsInv
<1>1. Init => CellsInv
  <2> SUFFICES ASSUME Init, NEW r \in RowIds, NEW k \in ColIds PROVE HoldsLast(r, k)
    BY DEF CellsInv
  <2>1. EValueAll[r][k] = Empty /\ dev = 1 /\ line = 0 /\ TypeOK
    BY ReadInit DEF Init, ReadInv
  <2>2. \A p \in 0 .. Len(lengths) - 1 : p \in Nat /\ LinesRead(p) = 0
    BY <2>1 DEF LinesRead, TypeOK
  <2>3. \A p \in Nat : p <= r => EventAt(p, r, k) \in Nat
    <3> SUFFICES ASSUME NEW p \in Nat, p <= r PROVE EventAt(p, r, k) \in Nat
      OBVIOUS
    <3>1. r \in Nat
      BY DEF RowIds
    <3> QED
      BY <3>1, EventAtCell
  <2>4. Reached(r, k) = {p \in 0 .. Len(lengths) - 1 : p <= r /\ EventAt(p, r, k) < LinesRead(p)}
    BY DEF Reached, EventAt
  <2>5. Reached(r, k) = {}
    BY <2>2, <2>3, <2>4
  <2> QED
    BY <2>1, <2>5 DEF HoldsLast
<1>2. CellsInv /\ UNCHANGED vars => CellsInv'
  BY DEF CellsInv, HoldsLast, Reached, LinesRead, vars
<1>3. ReadInv /\ CellsInv /\ [Next]_vars => CellsInv'
  BY <1>2, CellsStep
<1> QED
  BY <1>1, <1>3, ReadAlwaysInv, PTL DEF Spec

-----------------------------------------------------------------------------
\* Types of readFile: no store that the model lets through leaves the array.
THEOREM ReadTypeCorrect == Spec => []TypeOK
<1>1. ReadInv => TypeOK
  BY DEF ReadInv
<1> QED
  BY <1>1, ReadAlwaysInv, PTL

\* A file that fits the array is stored completely and in place, whatever the
\* array's bounds (main.cpp 135-147).
THEOREM FittingFilesStored == Spec => []FittingFileStored
<1>1. ReadInv => FittingFileStored
  <2> SUFFICES ASSUME ReadInv, Fits PROVE FittingFileStored
    BY DEF FittingFileStored
  <2>1. ~ wild
    BY DEF ReadInv, StoredInv
  <2>2. ASSUME NEW p \in RowIds, NEW n \in 0 .. numEventAll[p] - 1
        PROVE  ReadBack(p, n) = <<p, n>>
    <3>1. n < Cols /\ EValueAll[p][n] = <<p, n>>
      BY <2>2 DEF ReadInv, StoredInv
    <3>2. p \in Nat /\ n \in Nat
      BY <2>2 DEF RowIds
    <3>3. Cell(p, n) = <<p, n>>
      BY <3>1, <3>2, CellType
    <3> QED
      BY <3>1, <3>3 DEF ReadBack
  <2>3. ASSUME AtEnd, NEW p \in RowIds, p < Len(lengths)
        PROVE  numEventAll[p] = lengths[p + 1]
    <3>1. numEventAll[p] = LinesRead(p)
      BY <2>1, <2>3 DEF ReadInv, CountersInv
    <3>2. p < dev - 1
      BY <2>3 DEF AtEnd, RowIds, ReadInv, TypeOK
    <3> QED
      BY <3>1, <3>2 DEF LinesRead
  <2> QED
    BY <2>1, <2>2, <2>3 DEF FittingFileStored
<1> QED
  BY <1>1, ReadAlwaysInv, PTL

\* At the end of any file numProcess is one less than its number of devices:
\* the last device is outside every loop over the processes (main.cpp 133, 140).
THEOREM LastDeviceIsLeftOut == Spec => []LastDeviceLeftOut
<1>1. ReadInv => LastDeviceLeftOut
  <2> SUFFICES ASSUME ReadInv, AtEnd PROVE numProcess = Len(lengths) - 1
    BY DEF LastDeviceLeftOut
  <2>1. Len(lengths) \in Nat /\ line \in Nat /\ dev = Len(lengths) + 1
    BY DEF ReadInv, TypeOK, AtEnd
  <2>2. line = 0
    BY <2>1 DEF ReadInv, CountersInv
  <2> QED
    BY <2>1, <2>2 DEF ReadInv, CountersInv
<1> QED
  BY <1>1, ReadAlwaysInv, PTL

\* After any file that did not leave the array a cell belongs to the last
\* device whose trace reaches it, for every size of the array and every file:
\* so a trace longer than a row loses its tail to the next one (main.cpp 145).
THEOREM LastWritersWin == Spec => []LastWriterWins
<1>1. ReadInv /\ CellsInv => LastWriterWins
  <2> SUFFICES ASSUME ReadInv, CellsInv, AtEnd, NEW r \in RowIds, NEW k \in ColIds
               PROVE  IF Writers(r, k) = {}
                      THEN EValueAll[r][k] = Empty
                      ELSE \E p \in Writers(r, k) :
                             /\ \A q \in Writers(r, k) : q <= p
                             /\ EValueAll[r][k] = <<p, (r - p) * Cols + k>>
    BY DEF LastWriterWins
  <2>1. HoldsLast(r, k)
    BY DEF CellsInv, AtEnd
  <2>2. \A p \in 0 .. Len(lengths) - 1 : LinesRead(p) = lengths[p + 1]
    BY DEF AtEnd, LinesRead, ReadInv, TypeOK
  <2>3. Writers(r, k) = Reached(r, k)
    BY <2>2 DEF Writers, Reached
  <2> QED
    BY <2>1, <2>3 DEF HoldsLast
<1> QED
  BY <1>1, ReadAlwaysInv, CellsAlwaysInv, PTL
=============================================================================
