------------------------------ MODULE RoomMain ------------------------------
(***************************************************************************)
(* main() in main.cpp.  For one room after the other the files are         *)
(* assembled (RoomFiles), then for every eps and every segment each        *)
(* switch-light monitor reads its window and asks the solver, the central  *)
(* monitor does the same, and the monitors share what they hold with all   *)
(* others.  Rooms differ in their files only, so a room is what the        *)
(* directory has for it.                                                   *)
(*                                                                         *)
(* readSegTrace and solveSMT enter as the operators of SegmentOps and      *)
(* SolveSMT.  The values of a trace are never read, so a trace is its      *)
(* length; each device has its own.  What readFile does with a trace its   *)
(* array has no room for is the subject of ReadTrace.  A table that has    *)
(* stored a name past its end (wild) is the end of the model: nothing is   *)
(* said of the program after that.                                         *)
(***************************************************************************)
EXTENDS RoomFiles, SegmentOps, SolveSMT

CONSTANTS
  SegLength,   \* segLength, 4 in the code
  MaxEps,      \* the last eps, 5 in the code
  NumRooms,    \* entries of rooms, 6 in the code
  Lengths      \* the trace lengths of devices

ASSUME RoomMainAssumption ==
  /\ SegLength \in Nat \ {0}
  /\ MaxEps \in Nat
  /\ NumRooms \in Nat \ {0}
  /\ Lengths \subseteq Nat

VARIABLES
  nth,            \* the place of path in rooms
  lengths,        \* the events of each device that has a trace
  phase,          \* where main() is
  eps, end,       \* the loop variables
  i,              \* the monitor whose turn it is
  verdicts,       \* verdicts[m][c] of monitorList[m]
  verdicts_mod,   \* verdicts_mod[m][c]
  table,          \* hbSet of the central monitor
  cenVerdict,     \* centMon.verdicts_mod[0]
  answers         \* history: the solver's answers of this segment

loopVars == <<phase, eps, end, i, verdicts, verdicts_mod, table, cenVerdict, answers>>
roomVars == <<nth, numbered, unnumbered, emptied, plug, light, detailsCen, formC, dists, lengths,
              phase, eps, end, i, verdicts, verdicts_mod, table, cenVerdict, answers>>

Phases == {"files", "segment", "solve", "central", "share", "done", "aborted"}

Indices == 0 .. numMonitor - 1

\* The devices whose file opens and has lines: at least the one naming it.
Traced == {device \in Kinds \X (1 .. MaxNumbered) : HasTrace(device)}

NoVerdict == [m \in Indices |-> [c \in Indices |-> FALSE]]

RoomInit ==
  /\ Init
  /\ nth = 1
  /\ lengths \in [Traced -> Lengths]
  /\ phase = "files"
  /\ eps = 0
  /\ end = 0
  /\ i = 0
  /\ verdicts = NoVerdict
  /\ verdicts_mod = NoVerdict
  /\ table = EmptyTable
  /\ cenVerdict = FALSE
  /\ answers = <<>>

AssembleFiles ==
  /\ phase = "files"
  /\ AssemblePair
  /\ UNCHANGED <<nth, lengths, loopVars>>

FilesDone ==
  /\ phase = "files"
  /\ Assembled
  /\ phase' = "segment"
  /\ UNCHANGED <<fileVars, nth, lengths, eps, end, i, verdicts, verdicts_mod, table,
                 cenVerdict, answers>>

\* Mutant: all the devices are counted.
ProcessesAll(devices) == Len(devices)

\* numProcess after readFile: one less than the devices in the file.
Processes(devices) == Len(devices) - 1

\* centMon.numEventAll[0]
TraceLength == IF detailsCen = <<>> THEN 0 ELSE lengths[detailsCen[1]]

\* Mutant: the loop also runs when the trace has ended.
TraceLeftInclusive == end <= TraceLength

\* while(end < centMon.numEventAll[0])
TraceLeft == end < TraceLength

\* start = end; end += segLength; ...
BeginSegment ==
  /\ phase = "segment"
  /\ TraceLeft
  /\ end' = end + SegLength
  /\ i' = 0
  /\ answers' = <<>>
  /\ phase' = IF numMonitor > 0 THEN "solve" ELSE "central"
  /\ UNCHANGED <<fileVars, nth, lengths, eps, verdicts, verdicts_mod, table, cenVerdict>>

\* The window sizes readSegTrace finds in the traces of these devices, each
\* cut off where its own trace ends.
Sizes(devices) ==
  WindowSizes(Processes(devices), [k \in 0 .. Len(devices) - 1 |-> lengths[devices[k + 1]]],
              WindowStart(end - SegLength, eps), end)

\* The events solveSMT counts.
Events(devices) == TotNumEvents(Processes(devices), Sizes(devices))

\* bv_sort(0): Z3 throws, and nothing catches.
Abort ==
  /\ phase' = "aborted"
  /\ UNCHANGED <<fileVars, nth, lengths, eps, end, i, verdicts, verdicts_mod, table,
                 cenVerdict, answers>>

\* monitorList[i].readSegTrace, and verdicts_mod[0] = solveSMT(0).  A monitor
\* of a pair has at most one process, so its table stays empty.
SolvePair ==
  /\ phase = "solve"
  /\ LET n == Events(dists[i + 1])
     IN  IF n = 0 THEN Abort
         ELSE /\ \E a \in Answers(n, {}) :
                   /\ verdicts_mod' = [verdicts_mod EXCEPT ![i][0] = a]
                   /\ answers' = Append(answers, a)
              /\ i' = i + 1
              /\ phase' = IF i + 1 < numMonitor THEN "solve" ELSE "central"
              /\ UNCHANGED <<fileVars, nth, lengths, eps, end, verdicts, table, cenVerdict>>

\* The pairs centMon.readSegTrace enters.
CentralPairs == NewPairs(Processes(detailsCen), Sizes(detailsCen), eps)

\* The same for centMon; its table keeps the entries of every segment.
SolveCentral ==
  /\ phase = "central"
  /\ LET n == Events(detailsCen)
     IN  IF n = 0 THEN Abort
         ELSE \E pairs \in {CentralPairs} :
              \E t \in {EnterAll(table, pairs)} :
                /\ table' = t
                /\ cenVerdict' \in IF t.wild THEN BOOLEAN ELSE Answers(n, Entries(t))
                /\ i' = 0
                /\ phase' = "share"
                /\ UNCHANGED <<fileVars, nth, lengths, eps, end, verdicts, verdicts_mod, answers>>

\* Mutant: a monitor shares with the next one only.
ReceivesNext(j) == j = i + 1

\* for(j ...) if(i != j)
Receives(j) == j # i

\* monitorList[i].ShareVerdict(&monitorList[j]) for every j # i: GetVerdict
\* stores verdicts[i][c] and sets the flag, for every flag i has set.
ShareVerdict ==
  /\ phase = "share"
  /\ verdicts' = [j \in Indices |-> [c \in Indices |->
       IF Receives(j) /\ verdicts_mod[i][c] THEN verdicts[i][c] ELSE verdicts[j][c]]]
  /\ verdicts_mod' = [j \in Indices |-> [c \in Indices |->
       (Receives(j) /\ verdicts_mod[i][c]) \/ verdicts_mod[j][c]]]
  /\ i' = i + 1
  /\ phase' = IF i + 1 < numMonitor THEN "share" ELSE "segment"
  /\ UNCHANGED <<fileVars, nth, lengths, eps, end, table, cenVerdict, answers>>

\* Mutant: the loop over eps goes on.
LastEpsLate == eps > MaxEps

\* eps++, and the loop ends unless eps <= 5.
LastEps == eps = MaxEps

\* The end of the while loop: the times are printed, eps is incremented.
NextEps ==
  /\ phase = "segment"
  /\ ~ TraceLeft
  /\ eps' = eps + 1
  /\ end' = 0
  /\ answers' = <<>>
  /\ phase' = IF LastEps THEN "done" ELSE "segment"
  /\ UNCHANGED <<fileVars, nth, lengths, i, verdicts, verdicts_mod, table, cenVerdict>>

\* The next iteration over rooms: the counters, the monitors and both files
\* are new.
NextRoom ==
  /\ phase = "done"
  /\ nth < NumRooms
  /\ nth' = nth + 1
  /\ numbered' \in [Kinds -> 0 .. MaxNumbered]
  /\ unnumbered' \in [Kinds -> {0, 1}]
  /\ emptied' \in Emptied(numbered')
  /\ lengths' \in [Traced' -> Lengths]
  /\ plug' = 1 /\ light' = 1
  /\ detailsCen' = <<>> /\ formC' = <<>> /\ dists' = <<>>
  /\ phase' = "files"
  /\ eps' = 0 /\ end' = 0 /\ i' = 0
  /\ verdicts' = NoVerdict' /\ verdicts_mod' = NoVerdict'
  /\ table' = EmptyTable
  /\ cenVerdict' = FALSE
  /\ answers' = <<>>

RoomStep ==
  \/ AssembleFiles
  \/ FilesDone
  \/ BeginSegment
  \/ SolvePair
  \/ SolveCentral
  \/ ShareVerdict
  \/ NextEps
  \/ NextRoom

RoomNext == ~ table.wild /\ RoomStep

\* The next step asks Z3 about quantified constraints, one for each entry of
\* hbSet.  No timeout is set, so the answer may never come.
Quantified == phase = "central" /\ (table.numHbSet > 0 \/ CentralPairs # <<>>)

\* main() goes on, except that it may wait for such an answer for ever.
RoomSpec == RoomInit /\ [][RoomNext]_roomVars /\ WF_roomVars(~ Quantified /\ RoomNext)

-----------------------------------------------------------------------------
\* Types of the variables of main() and of the monitors' flags; every counter
\* stays within the bound of its loop.
RoomTypeOK ==
  /\ FilesTypeOK
  /\ nth \in 1 .. NumRooms
  /\ lengths \in [Traced -> Lengths]
  /\ phase \in Phases
  /\ eps \in 0 .. MaxEps + 1
  /\ end \in Nat
  /\ i \in 0 .. numMonitor
  /\ verdicts \in [Indices -> [Indices -> BOOLEAN]]
  /\ verdicts_mod \in [Indices -> [Indices -> BOOLEAN]]
  /\ table.numHbSet \in 0 .. HbMax
  /\ cenVerdict \in BOOLEAN
  /\ answers \in Seq(BOOLEAN)

\* After the monitors have shared they all hold the same flag, and it is the
\* disjunction of the answers of this segment, which differ when the traces
\* of the switches end at different places: every monitor hears of every
\* true answer, and although ShareVerdict only ever sets flags, nothing
\* survives from an earlier segment or eps (main.cpp 422, 441-446).
SharedIsDisjunction ==
  phase = "segment" /\ answers # <<>> =>
    \A m \in Indices :
      verdicts_mod[m][0] <=> \E k \in 1 .. Len(answers) : answers[k]

\* What the monitor of a switch-light pair answers is the size of the
\* window of its switch: true unless it has 1 or 3 events.  Trace values
\* have no influence, nor has the light or the length of its trace.
AnswerIsWindowSize ==
  \A k \in 1 .. Len(answers) :
    answers[k] <=>
      WindowSize(lengths[dists[k][1]], WindowStart(end - SegLength, eps), end) \notin {1, 3}

\* A device is counted that has no line to read: its file has no number, or
\* the export has emptied it.
TraceMissing == emptied # {} \/ \E kind \in Kinds : unnumbered[kind] > 0

\* A switch has no event left where a segment of the first switch begins.
SwitchEndsEarly ==
  /\ <<"switch", 1>> \in Traced
  /\ \E device \in Traced, start \in 0 .. lengths[<<"switch", 1>>] - 1 :
       /\ device[1] = "switch"
       /\ \E k \in 0 .. start : start = k * SegLength
       /\ lengths[device] <= start

\* The program is aborted by an empty window just in the rooms where a
\* counted device has no trace or a switch has none left at the start of
\* some segment: other differences of the lengths, short last segments and
\* lights that end early never make a monitor ask about no events, and with
\* one of the two the room is never finished, unless no trace was read at
\* all (main.cpp 411 bounds all monitors by the first trace, 159 cuts each
\* window by its own).
AbortsJustOnEmptyWindow ==
  /\ phase = "aborted" => TraceMissing \/ SwitchEndsEarly
  /\ phase = "done" /\ TraceLength > 0 => ~ TraceMissing /\ ~ SwitchEndsEarly

\* A room all of whose devices have a trace, no switch's ending early, and
\* the monitors fit.
Complete ==
  /\ numbered["switch"] * numbered["light"] <= MonitorMax
  /\ ~ TraceMissing
  /\ ~ SwitchEndsEarly

\* Such a room is monitored to the end, for every eps, unless Z3 never
\* answers a quantified query or the table is left.
CompleteRoomsFinish == Complete ~> (phase = "done" \/ table.wild \/ []Quantified)

-----------------------------------------------------------------------------
(***************************************************************************)
(* What comments and the README say, and the code does not do.             *)
(***************************************************************************)

\* main.cpp 24: verdicts is the "array of all the verdicts from every
\* monitor", so when the segment has been shared it has a true entry if
\* some monitor was answered true.
VerdictsRecorded ==
  phase = "segment" /\ (\E k \in 1 .. Len(answers) : answers[k]) =>
    \A m \in Indices : \E c \in Indices : verdicts[m][c]
=============================================================================
