--------------------------- MODULE RoomMainProofs ---------------------------
(***************************************************************************)
(* main() in main.cpp, for any number of rooms, devices, monitors,         *)
(* segments and skews: how the files of a room are assembled, what the     *)
(* monitors of its pairs answer, in which rooms an empty window ends the   *)
(* program, and what the monitors hold after they have shared.             *)
(***************************************************************************)
EXTENDS RoomMain, MonitorOpsProofs, FiniteSetTheorems

\* The part of the types the argument needs.
FlagTypes ==
  /\ numMonitor \in Nat
  /\ i \in Nat
  /\ verdicts_mod \in [Indices -> [Indices -> BOOLEAN]]
  /\ answers \in Seq(BOOLEAN)

\* Monitor m's own answer of this segment, or that of a monitor before i.
Heard(m) == answers[m + 1] \/ \E j \in 0 .. i - 1 : answers[j + 1]

\* While the monitors ask the solver, the first i flags are their answers,
\* whatever they were before; while they share, a flag is what the monitor
\* has heard.
FlagInv ==
  /\ phase = "files" => answers = <<>>
  /\ phase = "solve" =>
       /\ i < numMonitor
       /\ Len(answers) = i
       /\ \A m \in 0 .. i - 1 : verdicts_mod[m][0] = answers[m + 1]
  /\ phase = "central" =>
       /\ Len(answers) = numMonitor
       /\ \A m \in Indices : verdicts_mod[m][0] = answers[m + 1]
  /\ phase = "share" =>
       /\ Len(answers) = numMonitor
       /\ i < numMonitor \/ numMonitor = 0
       /\ \A m \in Indices : verdicts_mod[m][0] = Heard(m)

ShareInv == FlagTypes /\ FlagInv /\ SharedIsDisjunction

\* The number of pairs is a number.
LEMMA PairsAreNat ==
  ASSUME numbered \in [Kinds -> Nat], unnumbered \in [Kinds -> Nat]
  PROVE  numMonitor \in Nat
<1>1. numSwitch \in Nat /\ numLight \in Nat
  BY DEF numSwitch, numLight, Kinds
<1>2. \A a, b \in Nat : a * b \in Nat
  OBVIOUS
<1> QED
  BY <1>1, <1>2 DEF numMonitor

\* A room to begin with: no answers, all flags down.
LEMMA FreshRoom ==
  ASSUME numbered \in [Kinds -> 0 .. MaxNumbered], unnumbered \in [Kinds -> {0, 1}],
         phase = "files", i = 0, verdicts_mod = NoVerdict, answers = <<>>
  PROVE  ShareInv
<1>1. numMonitor \in Nat
  <2>1. numbered \in [Kinds -> Nat] /\ unnumbered \in [Kinds -> Nat]
    BY RoomFilesAssumption
  <2> QED
    BY <2>1, PairsAreNat
<1> QED
  BY <1>1 DEF ShareInv, FlagTypes, FlagInv, SharedIsDisjunction, NoVerdict

\* The number of pairs of the next room.
LEMMA NextPairsAreNat ==
  ASSUME NextRoom
  PROVE  numMonitor' \in Nat
<1>1. numbered' \in [Kinds -> Nat] /\ unnumbered' \in [Kinds -> Nat]
  BY RoomFilesAssumption DEF NextRoom
<1>2. numSwitch' \in Nat /\ numLight' \in Nat
  BY <1>1 DEF numSwitch, numLight, Kinds
<1>3. \A a, b \in Nat : a * b \in Nat
  OBVIOUS
<1> QED
  BY <1>2, <1>3 DEF numMonitor

\* The same for the next room.
LEMMA FreshNextRoom ==
  ASSUME NextRoom
  PROVE  ShareInv'
<1>1. numMonitor' \in Nat
  BY NextPairsAreNat
<1> QED
  BY <1>1 DEF NextRoom, ShareInv, FlagTypes, FlagInv, SharedIsDisjunction, NoVerdict, Indices

\* The number of monitors depends on the files of the room only.
LEMMA MonitorsFixed ==
  ASSUME UNCHANGED <<numbered, unnumbered>>
  PROVE  numMonitor' = numMonitor /\ Indices' = Indices
BY DEF numMonitor, numSwitch, numLight, Indices

\* The solver's answers are Boolean.
LEMMA AnswersBoolean ==
  ASSUME NEW n, NEW entries
  PROVE  Answers(n, entries) \subseteq BOOLEAN
BY DEF Answers

\* A monitor's answer replaces its flag, an old one included.
LEMMA SolvePairStep == ShareInv /\ SolvePair => ShareInv'
<1> SUFFICES ASSUME ShareInv, SolvePair PROVE ShareInv'
  OBVIOUS
<1> USE DEF ShareInv
<1>1. numMonitor' = numMonitor /\ Indices' = Indices
  BY MonitorsFixed DEF SolvePair, Abort, fileVars
<1>2. phase = "solve"
  BY DEF SolvePair
<1>3. CASE Abort
  BY <1>1, <1>3 DEF Abort, FlagTypes, FlagInv, SharedIsDisjunction
<1>4. CASE ~ Abort
  <2>1. PICK a \in BOOLEAN :
          /\ verdicts_mod' = [verdicts_mod EXCEPT ![i][0] = a]
          /\ answers' = Append(answers, a)
          /\ i' = i + 1
          /\ phase' = IF i + 1 < numMonitor THEN "solve" ELSE "central"
    BY <1>4, AnswersBoolean DEF SolvePair
  <2>2. /\ i \in Nat /\ numMonitor \in Nat /\ i < numMonitor
        /\ answers \in Seq(BOOLEAN) /\ Len(answers) = i
        /\ verdicts_mod \in [Indices -> [Indices -> BOOLEAN]]
    BY <1>2 DEF FlagTypes, FlagInv
  <2>3. i \in Indices /\ 0 \in Indices
    BY <2>2 DEF Indices
  <2>4. FlagTypes'
    BY <1>1, <2>1, <2>2, <2>3 DEF FlagTypes
  <2>5. Len(answers') = i + 1
    BY <2>1, <2>2
  <2>6. \A m \in 0 .. i : verdicts_mod'[m][0] = answers'[m + 1]
    <3> SUFFICES ASSUME NEW m \in 0 .. i
                 PROVE  verdicts_mod'[m][0] = answers'[m + 1]
      OBVIOUS
    <3>0. m \in Indices
      BY <2>2 DEF Indices
    <3>1. CASE m = i
      <4>1. verdicts_mod'[m][0] = a
        BY <2>1, <2>2, <2>3, <3>1
      <4>2. answers'[m + 1] = a
        BY <2>1, <2>2, <3>1
      <4> QED
        BY <4>1, <4>2
    <3>2. CASE m < i
      <4>1. verdicts_mod'[m] = verdicts_mod[m]
        BY <2>1, <2>2, <3>0, <3>2
      <4>2. answers'[m + 1] = answers[m + 1]
        BY <2>1, <2>2, <3>2
      <4>3. verdicts_mod[m][0] = answers[m + 1]
        BY <1>2, <2>2, <3>2 DEF FlagInv
      <4> QED
        BY <4>1, <4>2, <4>3
    <3> QED
      BY <2>2, <3>1, <3>2
  <2>7. FlagInv'
    <3>1. CASE i + 1 < numMonitor
      BY <1>1, <2>1, <2>2, <2>5, <2>6, <3>1 DEF FlagInv
    <3>2. CASE ~ (i + 1 < numMonitor)
      <4>1. i + 1 = numMonitor /\ Indices = 0 .. i
        BY <2>2, <3>2 DEF Indices
      <4> QED
        BY <1>1, <2>1, <2>5, <2>6, <3>2, <4>1 DEF FlagInv
    <3> QED
      BY <3>1, <3>2
  <2> QED
    BY <2>1, <2>4, <2>7 DEF SharedIsDisjunction
<1> QED
  BY <1>3, <1>4

\* Sharing: monitor i hands what it has heard to all others, which are then as
\* far as monitor i + 1.
LEMMA ShareStep == ShareInv /\ ShareVerdict => ShareInv'
<1> SUFFICES ASSUME ShareInv, ShareVerdict PROVE ShareInv'
  OBVIOUS
<1> USE DEF ShareInv
<1>1. numMonitor' = numMonitor /\ Indices' = Indices
  BY MonitorsFixed DEF ShareVerdict, fileVars
<1>2. /\ phase = "share"
      /\ verdicts_mod' = [j \in Indices |-> [c \in Indices |->
           (j # i /\ verdicts_mod[i][c]) \/ verdicts_mod[j][c]]]
      /\ i' = i + 1
      /\ phase' = IF i + 1 < numMonitor THEN "share" ELSE "segment"
      /\ answers' = answers
  BY DEF ShareVerdict, Receives
<1>3. /\ i \in Nat /\ numMonitor \in Nat
      /\ answers \in Seq(BOOLEAN) /\ Len(answers) = numMonitor
      /\ i < numMonitor \/ numMonitor = 0
  BY <1>2 DEF FlagTypes, FlagInv
<1>4. FlagTypes'
  <2>1. verdicts_mod' \in [Indices -> [Indices -> BOOLEAN]]
    BY <1>2
  <2> QED
    BY <1>1, <1>2, <1>3, <2>1 DEF FlagTypes
<1>5. \A m \in Indices : verdicts_mod'[m][0] = Heard(m)'
  <2> SUFFICES ASSUME NEW m \in Indices
               PROVE  verdicts_mod'[m][0] = Heard(m)'
    OBVIOUS
  <2>1. i \in Indices /\ 0 \in Indices /\ m \in Nat
    BY <1>3 DEF Indices
  <2>2. verdicts_mod'[m][0] = ((m # i /\ verdicts_mod[i][0]) \/ verdicts_mod[m][0])
    BY <1>2, <2>1
  <2>3. verdicts_mod[i][0] = Heard(i) /\ verdicts_mod[m][0] = Heard(m)
    BY <1>2, <2>1 DEF FlagInv
  <2>4. Heard(m)' = (answers[m + 1] \/ \E j \in 0 .. i : answers[j + 1])
    <3>1. i' - 1 = i
      BY <1>2, <1>3
    <3> QED
      BY <1>2, <3>1, Zenon DEF Heard
  <2>5. (\E j \in 0 .. i : answers[j + 1])
          <=> (answers[i + 1] \/ \E j \in 0 .. i - 1 : answers[j + 1])
    BY <1>3
  <2> DEFINE earlier == \E j \in 0 .. i - 1 : answers[j + 1]
  <2>6. /\ Heard(i) = (answers[i + 1] \/ earlier)
        /\ Heard(m) = (answers[m + 1] \/ earlier)
    BY DEF Heard
  <2>7. Heard(m)' = (answers[m + 1] \/ answers[i + 1] \/ earlier)
    BY <2>4, <2>5, Zenon
  <2> HIDE DEF earlier
  <2>8. CASE m = i
    BY <2>2, <2>3, <2>6, <2>7, <2>8, Zenon
  <2>9. CASE m # i
    BY <2>2, <2>3, <2>6, <2>7, <2>9, Zenon
  <2> QED
    BY <2>8, <2>9
<1>6. FlagInv'
  BY <1>1, <1>2, <1>3, <1>5 DEF FlagInv
<1>7. SharedIsDisjunction'
  <2> SUFFICES ASSUME phase' = "segment", NEW m \in Indices
               PROVE  verdicts_mod'[m][0] <=> \E x \in 1 .. Len(answers) : answers[x]
    BY <1>1, <1>2 DEF SharedIsDisjunction
  <2>1. m \in 0 .. i /\ i + 1 = numMonitor
    BY <1>2, <1>3 DEF Indices
  <2>2. Heard(m)' <=> \E j \in 0 .. i : answers[j + 1]
    BY <1>2, <1>3, <2>1 DEF Heard
  <2>3. (\E j \in 0 .. i : answers[j + 1]) <=> \E x \in 1 .. Len(answers) : answers[x]
    <3>1. ASSUME NEW j \in 0 .. i, answers[j + 1]
          PROVE  \E x \in 1 .. Len(answers) : answers[x]
      BY <1>3, <2>1, <3>1
    <3>2. ASSUME NEW x \in 1 .. Len(answers), answers[x]
          PROVE  \E j \in 0 .. i : answers[j + 1]
      <4>1. x - 1 \in 0 .. i /\ (x - 1) + 1 = x
        BY <1>3, <2>1
      <4> QED
        BY <3>2, <4>1
    <3> QED
      BY <3>1, <3>2
  <2> QED
    BY <1>5, <2>2, <2>3
<1> QED
  BY <1>4, <1>6, <1>7

\* The other steps: none touches a flag except by starting a new room.
LEMMA OtherSteps ==
  ASSUME ShareInv,
         \/ AssembleFiles \/ FilesDone \/ BeginSegment \/ SolveCentral \/ NextEps
         \/ UNCHANGED roomVars
  PROVE  ShareInv'
<1> USE DEF ShareInv
<1>1. UNCHANGED <<numbered, unnumbered>> /\ UNCHANGED verdicts_mod
  BY DEF AssembleFiles, AssemblePair, FilesDone, BeginSegment, SolveCentral, NextEps,
         Abort, loopVars, fileVars, roomVars
<1>2. numMonitor' = numMonitor /\ Indices' = Indices
  BY <1>1, MonitorsFixed
<1>3. CASE AssembleFiles
  BY <1>1, <1>2, <1>3
     DEF AssembleFiles, loopVars, FlagTypes, FlagInv, Heard, SharedIsDisjunction
<1>4. CASE FilesDone
  <2>1. phase = "files" /\ phase' = "segment" /\ UNCHANGED <<i, answers>>
    BY <1>4 DEF FilesDone
  <2> QED
    BY <1>1, <1>2, <2>1 DEF FlagTypes, FlagInv, SharedIsDisjunction
<1>5. CASE BeginSegment
  BY <1>1, <1>2, <1>5 DEF BeginSegment, FlagTypes, FlagInv, Indices, SharedIsDisjunction
<1>6. CASE SolveCentral
  <2>1. CASE Abort
    BY <1>1, <1>2, <2>1 DEF Abort, FlagTypes, FlagInv, SharedIsDisjunction
  <2>2. CASE ~ Abort
    <3>1. phase = "central" /\ phase' = "share" /\ i' = 0 /\ answers' = answers
      BY <1>6, <2>2 DEF SolveCentral
    <3>2. \A m \in Indices : Heard(m)' = answers[m + 1]
      BY <3>1 DEF Heard, FlagTypes, FlagInv, Indices
    <3> QED
      BY <1>1, <1>2, <3>1, <3>2 DEF FlagTypes, FlagInv, SharedIsDisjunction
  <2> QED
    BY <2>1, <2>2
<1>7. CASE NextEps
  BY <1>1, <1>2, <1>7 DEF NextEps, FlagTypes, FlagInv, SharedIsDisjunction
<1>8. CASE UNCHANGED roomVars
  BY <1>1, <1>2, <1>8 DEF roomVars, FlagTypes, FlagInv, Heard, SharedIsDisjunction
<1> QED
  BY <1>3, <1>4, <1>5, <1>6, <1>7, <1>8

\* After the monitors have shared (main.cpp 439-449) every flag is the
\* disjunction of the answers of this segment, whatever the lengths of the
\* traces make them, and none survives from an earlier segment, eps or room.
THEOREM SharedFlagsAreDisjunction == RoomSpec => []SharedIsDisjunction
<1>1. RoomInit => ShareInv
  BY FreshRoom DEF RoomInit, Init
<1>2. ShareInv /\ [RoomNext]_roomVars => ShareInv'
  BY SolvePairStep, ShareStep, OtherSteps, FreshNextRoom DEF RoomNext, RoomStep
<1>3. ShareInv => SharedIsDisjunction
  BY DEF ShareInv
<1> QED
  BY <1>1, <1>2, <1>3, PTL DEF RoomSpec

-----------------------------------------------------------------------------
(***************************************************************************)
(* The files of a room (main.cpp 350-383).                                 *)
(***************************************************************************)
DeviceNames == Kinds \X Nat
TracedNames == {d \in Kinds \X (Nat \ {0}) : HasTrace(d)}

\* The lines of the devices of a formula, one device after the other.
LinesOf(form) == FlattenSeq([k \in 1 .. Len(form) |-> Lines(form[k])])

\* Where the monitor of switch p and light l is in monitorList, and the
\* devices in its file.
Place(p, l) == (p - 1) * numLight + l
PairLines(p, l) == Lines(<<"switch", p>>) \o Lines(<<"light", l>>)

\* The formula of the central monitor: the first switch, all the lights, the
\* other switches.
FormulaDevice(k) ==
  IF k = 1 THEN <<"switch", 1>>
  ELSE IF k <= numLight + 1 THEN <<"light", k - 1>> ELSE <<"switch", k - numLight>>
FormulaOf(n) == [k \in 1 .. n |-> FormulaDevice(k)]

\* How far the loops have brought it.
FormulaLength ==
  IF plug = 1 THEN IF light = 1 THEN 0 ELSE light
  ELSE IF light = 1 THEN numLight + plug - 1 ELSE numLight + plug

\* The loop counters and the files they count.
CountersInv ==
  /\ numbered \in [Kinds -> Nat]
  /\ unnumbered \in [Kinds -> {0, 1}]
  /\ emptied \subseteq Kinds \X (Nat \ {0})
  /\ \A device \in emptied : device[2] <= numbered[device[1]]
  /\ plug \in 1 .. numSwitch + 1
  /\ light \in Nat \ {0}
  /\ light <= numLight \/ light = 1
  /\ plug > numSwitch => light = 1
  /\ numLight = 0 => plug = 1

\* The monitors set up so far, in the order of the loops.
PairsInv ==
  /\ dists \in Seq(Seq(DeviceNames))
  /\ Len(dists) <= MonitorMax
  /\ Len(dists) = Place(plug, light) - 1
  /\ \A p \in 1 .. plug, l \in 1 .. numLight :
       p < plug \/ l < light =>
         Place(p, l) \in 1 .. Len(dists) /\ dists[Place(p, l)] = PairLines(p, l)
  /\ \A k \in 1 .. Len(dists) :
       \E p \in 1 .. numSwitch, l \in 1 .. numLight :
         k = Place(p, l) /\ dists[k] = PairLines(p, l)

\* Formula and file of the central monitor.
CentralInv ==
  /\ formC = FormulaOf(FormulaLength)
  /\ detailsCen \in Seq(DeviceNames)
  /\ detailsCen \in Seq(TracedNames)
  /\ detailsCen = LinesOf(formC)
  /\ ~ TraceMissing => detailsCen = formC

FilesInv == CountersInv /\ PairsInv /\ CentralInv

\* The numbers of files of a room.
LEMMA RoomNumbers ==
  ASSUME CountersInv
  PROVE  numSwitch \in Nat /\ numLight \in Nat /\ numMonitor \in Nat
<1>1. numSwitch \in Nat /\ numLight \in Nat
  BY DEF CountersInv, numSwitch, numLight, Kinds
<1>2. \A a, b \in Nat : a * b \in Nat
  OBVIOUS
<1> QED
  BY <1>1, <1>2 DEF numMonitor

\* A device contributes its line or nothing.
LEMMA LinesType ==
  ASSUME NEW d \in DeviceNames
  PROVE  Lines(d) \in Seq(DeviceNames) /\ <<d>> \in Seq(DeviceNames)
<1>1. <<d>> \in Seq(DeviceNames) /\ <<>> \in Seq(DeviceNames)
  OBVIOUS
<1> QED
  BY <1>1 DEF Lines

\* The file has the lines of the formula.
Matches(form, cen) ==
  form \in Seq(DeviceNames) /\ cen \in Seq(DeviceNames) /\ cen = LinesOf(form)

\* A device for the formula and its lines for the file, or neither.
Together(d, a, b) ==
  (a = <<d>> /\ b = Lines(d)) \/ (a = <<>> /\ b = <<>>)

\* Formula and file grow together.
LEMMA GrowTogether ==
  ASSUME NEW form, NEW cen, Matches(form, cen),
         NEW d \in DeviceNames, NEW a, NEW b, Together(d, a, b)
  PROVE  /\ Matches(form \o a, cen \o b)
         /\ HasTrace(d) /\ cen = form => cen \o b = form \o a
<1> DEFINE D == DeviceNames
<1>0. form \in Seq(D) /\ cen \in Seq(D) /\ cen = LinesOf(form)
  BY DEF Matches
<1>1. CASE a = <<>> /\ b = <<>>
  <2>1. form \o <<>> = form /\ cen \o <<>> = cen
    BY <1>0
  <2> QED
    BY <1>1, <2>1
<1>2. CASE a = <<d>> /\ b = Lines(d)
  <2>2. Lines(d) \in Seq(D) /\ <<d>> \in Seq(D)
    BY LinesType
  <2>3. HasTrace(d) => Lines(d) = <<d>>
    BY DEF Lines
  <2> DEFINE parts == [k \in 1 .. Len(form) |-> Lines(form[k])]
             longer == form \o <<d>>
             more == [k \in 1 .. Len(longer) |-> Lines(longer[k])]
             Q == Seq(D)
  <2> HIDE DEF D
  <2>4. /\ Len(form) \in Nat /\ Len(longer) = Len(form) + 1
        /\ \A k \in 1 .. Len(form) : form[k] \in D /\ longer[k] = form[k]
        /\ longer[Len(form) + 1] = d
        /\ longer \in Seq(D)
    BY <1>0, <2>2 DEF D
  <2>5. \A k \in 1 .. Len(form) : Lines(form[k]) \in Q
    BY <2>4, LinesType DEF D
  <2> HIDE DEF Q, longer
  <2>6. parts \in Seq(Q) /\ Len(parts) = Len(form)
    <3>1. parts \in [1 .. Len(form) -> Q]
      BY <2>5
    <3> HIDE DEF parts
    <3> QED
      BY <2>4, <3>1, FunctionIsSequence, Zenon
  <2>7. /\ more \in Seq(Q) /\ Len(more) = Len(form) + 1
        /\ more[Len(form) + 1] = Lines(d)
        /\ EqualTo(Len(form), parts, more)
    <3>1. \A k \in 1 .. Len(longer) : longer[k] \in D
      BY <2>4
    <3>2. \A k \in 1 .. Len(longer) : Lines(longer[k]) \in Q
      BY <3>1, LinesType DEF D, Q
    <3>3. more \in [1 .. Len(longer) -> Q] /\ Len(longer) \in Nat
      BY <2>4, <3>2
    <3>4. more \in Seq(Q) /\ Len(more) = Len(longer)
      <4> HIDE DEF more
      <4> QED
        BY <3>3, FunctionIsSequence, Zenon
    <3>5. /\ Len(form) + 1 \in 1 .. Len(longer)
          /\ \A k \in 1 .. Len(form) : k \in 1 .. Len(longer)
      BY <2>4
    <3>6. /\ more[Len(form) + 1] = Lines(d)
          /\ \A k \in 1 .. Len(form) : parts[k] = more[k]
      BY <2>4, <3>5
    <3> HIDE DEF more, parts
    <3> QED
      BY <2>4, <3>4, <3>6 DEF EqualTo
  <2>8. FlattenSeq(more) = FlattenSeq(parts) \o Lines(d)
    <3> HIDE DEF more, parts
    <3>1. Continues(Len(form), parts, more)
      BY <2>6, <2>7, FlattenLonger, Zenon DEF Q
    <3> QED
      BY <2>7, <3>1 DEF Continues
  <2>9. LinesOf(longer) = cen \o Lines(d)
    BY <1>0, <2>8 DEF LinesOf
  <2>10. cen \o Lines(d) \in Seq(D)
    BY <1>0, <2>2 DEF D
  <2> QED
    BY <1>2, <2>3, <2>4, <2>9, <2>10 DEF longer, D, Matches
<1> QED
  BY <1>1, <1>2 DEF Together

\* One more device of the formula.
LEMMA FormulaAppend ==
  ASSUME numLight \in Nat, NEW n \in Nat
  PROVE  /\ FormulaOf(n) \in Seq(DeviceNames) /\ Len(FormulaOf(n)) = n
         /\ FormulaOf(n) \o <<FormulaDevice(n + 1)>> = FormulaOf(n + 1)
<1>1. \A k \in Nat \ {0} : FormulaDevice(k) \in DeviceNames
  BY DEF FormulaDevice, DeviceNames, Kinds
<1> DEFINE f == FormulaOf(n)
<1>2. f \in [1 .. n -> DeviceNames]
  BY <1>1 DEF FormulaOf
<1>3. f \in Seq(DeviceNames) /\ Len(f) = n
  BY <1>2, FunctionIsSequence, Zenon
<1>4. \A k \in 1 .. n : f[k] = FormulaDevice(k)
  BY DEF FormulaOf
<1> HIDE DEF f
<1> DEFINE d == FormulaDevice(n + 1)
<1>5. d \in DeviceNames
  BY <1>1
<1>7. f \o <<d>> = [k \in 1 .. n + 1 |-> IF k = n + 1 THEN d ELSE f[k]]
  <2> HIDE DEF d
  <2> QED
    BY <1>3, <1>5
<1>8. \A k \in 1 .. n + 1 : FormulaDevice(k) = IF k = n + 1 THEN d ELSE f[k]
  BY <1>4
<1>9. FormulaOf(n + 1) = [k \in 1 .. n + 1 |-> IF k = n + 1 THEN d ELSE f[k]]
  <2> HIDE DEF d
  <2> QED
    BY <1>8 DEF FormulaOf
<1> QED
  BY <1>3, <1>7, <1>9 DEF f

\* What the loops never write.
LEMMA RoomFixed ==
  ASSUME UNCHANGED <<numbered, unnumbered, emptied>>
  PROVE  /\ numSwitch' = numSwitch /\ numLight' = numLight
         /\ numMonitor' = numMonitor /\ Indices' = Indices
         /\ (TraceMissing' <=> TraceMissing) /\ Traced' = Traced
         /\ TracedNames' = TracedNames
         /\ \A d : Lines(d)' = Lines(d)
         /\ \A p, l : Place(p, l)' = Place(p, l) /\ PairLines(p, l)' = PairLines(p, l)
         /\ \A n : FormulaOf(n)' = FormulaOf(n)
         /\ \A form : LinesOf(form)' = LinesOf(form)
BY DEF numSwitch, numLight, numMonitor, Indices, TraceMissing, Lines, HasTrace, Place,
       PairLines, FormulaOf, FormulaDevice, LinesOf, Traced, TracedNames

\* A device of the room has a trace when none is missing.
LEMMA NoneMissing ==
  ASSUME CountersInv, ~ TraceMissing
  PROVE  /\ numSwitch = numbered["switch"] /\ numLight = numbered["light"]
         /\ \A p \in 1 .. numSwitch : HasTrace(<<"switch", p>>)
         /\ \A l \in 1 .. numLight : HasTrace(<<"light", l>>)
<1>1. emptied = {} /\ unnumbered["switch"] = 0 /\ unnumbered["light"] = 0
  BY DEF TraceMissing, CountersInv, Kinds
<1>2. numSwitch = numbered["switch"] /\ numLight = numbered["light"]
  BY <1>1 DEF numSwitch, numLight, CountersInv, Kinds
<1> QED
  BY <1>1, <1>2 DEF HasTrace

\* The loops over the plugs and lights: the counters.
LEMMA AssembleCounters ==
  ASSUME CountersInv, AssemblePair
  PROVE  /\ CountersInv'
         /\ UNCHANGED <<numbered, unnumbered, emptied>>
         /\ plug \in 1 .. numSwitch /\ light \in 1 .. numLight
         /\ \/ light < numLight /\ light' = light + 1 /\ plug' = plug
            \/ light = numLight /\ light' = 1 /\ plug' = plug + 1
<1>1. UNCHANGED <<numbered, unnumbered, emptied>> /\ numSwitch' = numSwitch /\ numLight' = numLight
  BY RoomFixed DEF AssemblePair
<1>2. numSwitch \in Nat /\ numLight \in Nat
  BY RoomNumbers
<1>3. plug \in 1 .. numSwitch /\ light \in 1 .. numLight
  BY <1>2 DEF CountersInv, AssemblePair, PairsLeft
<1>4. \/ light < numLight /\ light' = light + 1 /\ plug' = plug
      \/ light = numLight /\ light' = 1 /\ plug' = plug + 1
  BY <1>2, <1>3 DEF AssemblePair, FirstLight
<1>5. CountersInv'
  BY <1>1, <1>2, <1>3, <1>4 DEF CountersInv
<1> QED
  BY <1>1, <1>3, <1>4, <1>5

\* The places of monitors, as the loops count them.
LEMMA Places ==
  ASSUME numLight \in Nat, NEW p \in Nat \ {0}, NEW l \in Nat \ {0}
  PROVE  /\ Place(p, l) \in Nat \ {0}
         /\ Place(p, l + 1) = Place(p, l) + 1
         /\ l = numLight => Place(p + 1, 1) = Place(p, l) + 1
         /\ \A q \in 1 .. p - 1, k \in 1 .. numLight : Place(q, k) < Place(p, l)
<1> DEFINE L == numLight
<1>1. \A a, b \in Nat : a * b \in Nat
  OBVIOUS
<1>2. (p - 1) * L \in Nat /\ p - 1 \in Nat
  BY <1>1
<1>3. Place(p, l) \in Nat \ {0} /\ Place(p, l + 1) = Place(p, l) + 1
  BY <1>2 DEF Place
<1>4. ASSUME l = L PROVE Place(p + 1, 1) = Place(p, l) + 1
  <2>1. p * L = (p - 1) * L + L
    OBVIOUS
  <2> QED
    BY <1>2, <1>4, <2>1 DEF Place
<1>5. ASSUME NEW q \in 1 .. p - 1, NEW k \in 1 .. L PROVE Place(q, k) < Place(p, l)
  <2>1. (q - 1) * L + L = q * L /\ q * L \in Nat /\ (q - 1) * L \in Nat
    BY <1>1
  <2>2. q * L <= (p - 1) * L
    <3>1. PICK e \in Nat : p - 1 = q + e
      <4>1. (p - 1) - q \in Nat /\ p - 1 = q + ((p - 1) - q)
        OBVIOUS
      <4> QED
        BY <4>1
    <3>2. (q + e) * L = q * L + e * L /\ e * L \in Nat
      BY <1>1
    <3> QED
      BY <1>2, <2>1, <3>1, <3>2
  <2> QED
    BY <1>2, <2>1, <2>2 DEF Place
<1> QED
  BY <1>3, <1>4, <1>5

\* The next monitor takes the next place.
LEMMA AssemblePairs ==
  ASSUME CountersInv, PairsInv, AssemblePair
  PROVE  PairsInv'
<1> DEFINE place == Place(plug, light)
           lines == PairLines(plug, light)
           D == Seq(DeviceNames)
<1>1. /\ UNCHANGED <<numbered, unnumbered, emptied>>
      /\ plug \in 1 .. numSwitch /\ light \in 1 .. numLight
      /\ \/ light < numLight /\ light' = light + 1 /\ plug' = plug
         \/ light = numLight /\ light' = 1 /\ plug' = plug + 1
  BY AssembleCounters
<1>2. numSwitch \in Nat /\ numLight \in Nat /\ plug \in Nat \ {0} /\ light \in Nat \ {0}
  BY <1>1, RoomNumbers
<1>3. dists' = Append(dists, lines)
  BY DEF AssemblePair, PairLines
<1>4. lines \in D
  <2>1. <<"switch", plug>> \in DeviceNames /\ <<"light", light>> \in DeviceNames
    BY <1>2 DEF DeviceNames, Kinds
  <2>2. Lines(<<"switch", plug>>) \in D /\ Lines(<<"light", light>>) \in D
    BY <2>1, LinesType
  <2>3. \A x, y \in D : x \o y \in D
    OBVIOUS
  <2> QED
    BY <2>2, <2>3, Zenon DEF PairLines
<1>5. dists \in Seq(D) /\ Len(dists) \in Nat /\ Len(dists) = place - 1 /\ Len(dists) < MonitorMax
  <2>1. dists \in Seq(D) /\ Len(dists) <= MonitorMax /\ Len(dists) = place - 1
    BY DEF PairsInv
  <2>2. Len(dists) # MonitorMax
    BY DEF AssemblePair, Overrun
  <2>3. Len(dists) \in Nat
    BY <2>1
  <2> QED
    BY <2>1, <2>2, <2>3, RoomFilesAssumption
<1> HIDE DEF lines, D
<1>6. /\ place \in Nat \ {0}
      /\ Place(plug', light') = place + 1
      /\ \A q \in 1 .. plug - 1, k \in 1 .. numLight : Place(q, k) < place
  BY <1>1, <1>2, Places
<1>7. /\ dists' \in Seq(D) /\ Len(dists') = place /\ dists'[place] = lines
      /\ \A k \in 1 .. place - 1 : dists'[k] = dists[k]
  BY <1>3, <1>4, <1>5, <1>6
<1> HIDE DEF place
<1>8. /\ numLight' = numLight /\ numSwitch' = numSwitch
      /\ \A p, l : Place(p, l)' = Place(p, l) /\ PairLines(p, l)' = PairLines(p, l)
  BY <1>1, RoomFixed
<1>9. ASSUME NEW p \in 1 .. plug', NEW l \in 1 .. numLight, p < plug' \/ l < light'
      PROVE  Place(p, l) \in 1 .. place /\ dists'[Place(p, l)] = PairLines(p, l)
  <2>1. CASE p = plug /\ l = light
    BY <1>7, <1>6, <2>1 DEF place, lines
  <2>2. CASE ~ (p = plug /\ l = light)
    <3>1. p \in 1 .. plug /\ (p < plug \/ l < light)
      BY <1>1, <1>2, <1>9, <2>2
    <3>2. Place(p, l) \in 1 .. place - 1 /\ dists[Place(p, l)] = PairLines(p, l)
      BY <1>5, <3>1 DEF PairsInv
    <3> QED
      BY <1>7, <1>6, <3>2
  <2> QED
    BY <2>1, <2>2
<1>10. ASSUME NEW k \in 1 .. place
       PROVE  \E p \in 1 .. numSwitch, l \in 1 .. numLight :
                k = Place(p, l) /\ dists'[k] = PairLines(p, l)
  <2>1. CASE k = place
    BY <1>1, <1>7, <2>1 DEF place, lines
  <2>2. CASE k \in 1 .. place - 1
    <3>1. \E p \in 1 .. numSwitch, l \in 1 .. numLight :
            k = Place(p, l) /\ dists[k] = PairLines(p, l)
      BY <1>5, <2>2 DEF PairsInv
    <3> QED
      BY <1>7, <2>2, <3>1
  <2> QED
    BY <1>6, <2>1, <2>2
<1>11. Len(dists') <= MonitorMax /\ Len(dists') = Place(plug', light') - 1
  BY <1>5, <1>7, <1>6, RoomFilesAssumption
<1>12. Place(plug, light)' = Place(plug', light')
  BY <1>8 DEF Place
<1> QED
  BY <1>7, <1>8, <1>9, <1>10, <1>11, <1>12 DEF PairsInv, D

\* Formula and file of the central monitor.
LEMMA AssembleCentral ==
  ASSUME CountersInv, CentralInv, AssemblePair
  PROVE  CentralInv'
<1> DEFINE s == <<"switch", plug>>
           l == <<"light", light>>
           D == DeviceNames
           sForm == Once(light = 1, <<s>>)
           sCen == Once(light = 1, Lines(s))
           lForm == Once(plug = 1, <<l>>)
           lCen == Once(plug = 1, Lines(l))
           form1 == formC \o sForm
           form2 == form1 \o lForm
           cen1 == detailsCen \o sCen
           cen2 == cen1 \o lCen
           n == FormulaLength
<1>1. /\ UNCHANGED <<numbered, unnumbered, emptied>>
      /\ plug \in 1 .. numSwitch /\ light \in 1 .. numLight
      /\ \/ light < numLight /\ light' = light + 1 /\ plug' = plug
         \/ light = numLight /\ light' = 1 /\ plug' = plug + 1
  BY AssembleCounters
<1>2. numSwitch \in Nat /\ numLight \in Nat /\ plug \in Nat \ {0} /\ light \in Nat \ {0}
  BY <1>1, RoomNumbers
<1>3. formC' = form2 /\ detailsCen' = cen2
  BY DEF AssemblePair, CopyLight
<1>4. s \in D /\ l \in D
  BY <1>2 DEF DeviceNames, Kinds
<1>5. n \in Nat /\ formC = FormulaOf(n) /\ formC \in Seq(D) /\ Len(formC) = n
  <2>1. n \in Nat
    BY <1>2 DEF FormulaLength
  <2>2. formC = FormulaOf(n)
    BY DEF CentralInv
  <2> QED
    BY <1>2, <2>1, <2>2, FormulaAppend
<1>6. Matches(formC, detailsCen)
  BY <1>5 DEF CentralInv, Matches
<1>7. /\ Matches(form1, cen1)
      /\ HasTrace(s) /\ detailsCen = formC => cen1 = form1
  <2>1. Together(s, sForm, sCen)
    BY DEF Together, Once
  <2> HIDE DEF s, sForm, sCen
  <2> QED
    BY <1>4, <1>6, <2>1, GrowTogether
<1>8. /\ Matches(form2, cen2)
      /\ HasTrace(l) /\ cen1 = form1 => cen2 = form2
  <2>1. Together(l, lForm, lCen)
    BY DEF Together, Once
  <2> HIDE DEF l, lForm, lCen, form1, cen1
  <2> QED
    BY <1>4, <1>7, <2>1, GrowTogether
<1>9. ~ TraceMissing => cen2 = form2
  BY <1>1, <1>7, <1>8, NoneMissing DEF CentralInv
<1>10. form2 = FormulaOf(FormulaLength')
  <2>1. numLight' = numLight
    BY <1>1, RoomFixed
  <2>2. \A x \in Nat : FormulaOf(x) \o <<FormulaDevice(x + 1)>> = FormulaOf(x + 1)
    BY <1>2, FormulaAppend
  <2>3. form1 \o <<>> = form1 /\ formC \o <<>> = formC
    <3>1. form1 \in Seq(D)
      BY <1>7 DEF Matches
    <3> HIDE DEF form1
    <3> QED
      BY <1>5, <3>1
  <2> HIDE DEF s, l
  <2>4. CASE plug = 1 /\ light = 1
    <3>1. n = 0 /\ FormulaLength' = 2
      BY <1>1, <1>2, <2>1, <2>4 DEF FormulaLength
    <3>2. FormulaDevice(0 + 1) = s /\ FormulaDevice(1 + 1) = l
      BY <1>1, <1>2, <2>4 DEF FormulaDevice, s, l
    <3>3. form1 = FormulaOf(0 + 1)
      BY <1>5, <2>2, <2>4, <3>1, <3>2 DEF Once
    <3>4. form2 = FormulaOf(1 + 1)
      <4> HIDE DEF form1
      <4> QED
        BY <2>2, <2>4, <3>2, <3>3 DEF Once
    <3> HIDE DEF form2, n
    <3> QED
      BY <3>1, <3>4
  <2>5. CASE plug = 1 /\ light # 1
    <3>1. n = light /\ FormulaLength' = light + 1
      BY <1>1, <1>2, <2>1, <2>5 DEF FormulaLength
    <3>2. FormulaDevice(light + 1) = l
      BY <1>1, <1>2, <2>5 DEF FormulaDevice, l
    <3>3. form1 = formC
      BY <2>3, <2>5 DEF Once
    <3>4. form2 = FormulaOf(light + 1)
      <4> HIDE DEF form1
      <4> QED
        BY <1>2, <1>5, <2>2, <2>5, <3>1, <3>2, <3>3 DEF Once
    <3> HIDE DEF form2, n
    <3> QED
      BY <3>1, <3>4
  <2>6. CASE plug # 1 /\ light = 1
    <3>1. n = numLight + plug - 1 /\ FormulaLength' = n + 1
      BY <1>1, <1>2, <2>1, <2>6 DEF FormulaLength
    <3>2. FormulaDevice(n + 1) = s
      BY <1>1, <1>2, <2>6, <3>1 DEF FormulaDevice, s
    <3>3. form1 = FormulaOf(n + 1)
      BY <1>5, <2>2, <2>6, <3>2 DEF Once
    <3>4. form2 = form1
      <4> HIDE DEF form1
      <4> QED
        BY <2>3, <2>6 DEF Once
    <3> QED
      BY <3>1, <3>3, <3>4
  <2>7. CASE plug # 1 /\ light # 1
    <3>1. FormulaLength' = n
      BY <1>1, <1>2, <2>1, <2>7 DEF FormulaLength
    <3>2. form1 = formC
      BY <2>3, <2>7 DEF Once
    <3>3. form2 = form1
      <4> HIDE DEF form1
      <4> QED
        BY <2>3, <2>7 DEF Once
    <3> QED
      BY <1>5, <3>1, <3>2, <3>3
  <2> QED
    BY <2>4, <2>5, <2>6, <2>7
<1>11. /\ FormulaOf(FormulaLength)' = FormulaOf(FormulaLength')
       /\ LinesOf(formC)' = LinesOf(formC')
       /\ (TraceMissing' <=> TraceMissing) /\ TracedNames' = TracedNames
  <2>1. numLight' = numLight
    BY <1>1, RoomFixed
  <2> QED
    BY <1>1, <2>1, RoomFixed DEF FormulaOf, FormulaDevice, LinesOf, Lines, HasTrace
<1>12. cen2 \in Seq(TracedNames)
  <2>1. s \in Kinds \X (Nat \ {0}) /\ l \in Kinds \X (Nat \ {0})
    BY <1>2 DEF Kinds
  <2>2. sCen \in Seq(TracedNames) /\ lCen \in Seq(TracedNames)
    <3>1. \A d \in Kinds \X (Nat \ {0}) : Lines(d) \in Seq(TracedNames)
      <4> SUFFICES ASSUME NEW d \in Kinds \X (Nat \ {0}) PROVE Lines(d) \in Seq(TracedNames)
        OBVIOUS
      <4>1. CASE HasTrace(d)
        <5>1. d \in TracedNames
          BY <4>1 DEF TracedNames
        <5> QED
          BY <4>1, <5>1 DEF Lines
      <4>2. CASE ~ HasTrace(d)
        BY <4>2 DEF Lines
      <4> QED
        BY <4>1, <4>2
    <3>2. <<>> \in Seq(TracedNames)
      OBVIOUS
    <3> HIDE DEF s, l
    <3> QED
      BY <2>1, <3>1, <3>2 DEF Once
  <2>3. detailsCen \in Seq(TracedNames)
    BY DEF CentralInv
  <2> HIDE DEF sCen, lCen
  <2> QED
    BY <2>2, <2>3
<1> HIDE DEF form2, cen2
<1> QED
  BY <1>3, <1>8, <1>9, <1>10, <1>11, <1>12 DEF CentralInv, Matches

\* When the loops are done every place of monitorList up to numMonitor has
\* been filled.
LEMMA AllPlaces ==
  ASSUME FilesInv, Assembled
  PROVE  /\ Len(dists) = numMonitor
         /\ \A p \in 1 .. numSwitch, l \in 1 .. numLight :
              Place(p, l) \in 1 .. numMonitor /\ dists[Place(p, l)] = PairLines(p, l)
         /\ \A k \in 1 .. numMonitor :
              \E p \in 1 .. numSwitch, l \in 1 .. numLight :
                k = Place(p, l) /\ dists[k] = PairLines(p, l)
<1>1. numSwitch \in Nat /\ numLight \in Nat /\ numMonitor \in Nat
  BY RoomNumbers DEF FilesInv
<1>2. plug \in 1 .. numSwitch + 1 /\ light \in Nat /\ Len(dists) = Place(plug, light) - 1
  BY DEF FilesInv, CountersInv, PairsInv
<1>3. CASE numLight = 0
  <2>1. plug = 1 /\ light = 1
    BY <1>2, <1>3 DEF FilesInv, CountersInv
  <2>2. numMonitor = 0 /\ Place(plug, light) = 1
    BY <1>1, <1>3, <2>1 DEF numMonitor, Place
  <2> QED
    BY <1>2, <1>3, <2>2 DEF FilesInv, PairsInv
<1>4. CASE numLight # 0
  <2>1. plug = numSwitch + 1 /\ light = 1
    BY <1>1, <1>2, <1>4 DEF Assembled, PairsLeft, FilesInv, CountersInv
  <2>2. Place(plug, light) = numMonitor + 1
    <3>1. (numSwitch + 1) - 1 = numSwitch
      BY <1>1
    <3> QED
      BY <1>1, <2>1, <3>1 DEF numMonitor, Place
  <2>3. Len(dists) = numMonitor
    BY <1>1, <1>2, <2>2
  <2>4. \A p \in 1 .. numSwitch : p \in 1 .. plug /\ p < plug
    BY <1>1, <2>1
  <2> QED
    BY <2>3, <2>4 DEF FilesInv, PairsInv
<1> QED
  BY <1>3, <1>4

\* Two lines make the pair of devices they are from.
LEMMA BothTraced ==
  ASSUME NEW p, NEW l
  PROVE  /\ Len(PairLines(p, l)) \in {0, 1, 2}
         /\ Len(PairLines(p, l)) = 2 <=> HasTrace(<<"switch", p>>) /\ HasTrace(<<"light", l>>)
         /\ Len(PairLines(p, l)) = 2 => PairLines(p, l) = <<<<"switch", p>>, <<"light", l>>>>
<1> DEFINE s == <<"switch", p>>
           m == <<"light", l>>
<1> HIDE DEF s, m
<1>1. PairLines(p, l) = Lines(s) \o Lines(m)
  BY DEF PairLines, s, m
<1>2. /\ Len(<<s>> \o <<m>>) = 2 /\ <<s>> \o <<m>> = <<s, m>>
      /\ Len(<<s>> \o <<>>) = 1 /\ Len(<<>> \o <<m>>) = 1 /\ Len(<<>> \o <<>>) = 0
  <2> DEFINE S == {s, m}
  <2>1. <<s>> \in Seq(S) /\ <<m>> \in Seq(S) /\ <<>> \in Seq(S) /\ <<s, m>> \in Seq(S)
    OBVIOUS
  <2>2. Len(<<s>>) = 1 /\ Len(<<m>>) = 1 /\ Len(<<>>) = 0 /\ Len(<<s, m>>) = 2
    OBVIOUS
  <2> HIDE DEF S
  <2>3. \A x, y \in Seq(S) : Len(x \o y) = Len(x) + Len(y)
    OBVIOUS
  <2>4. /\ Len(<<s>> \o <<m>>) = 2
        /\ Len(<<s>> \o <<>>) = 1 /\ Len(<<>> \o <<m>>) = 1 /\ Len(<<>> \o <<>>) = 0
    BY <2>1, <2>2, <2>3
  <2>5. <<s>> \o <<m>> = <<s, m>>
    <3> DEFINE t == <<s>> \o <<m>>
               u == <<s, m>>
    <3>1. t \in Seq(S) /\ u \in Seq(S) /\ Len(t) = 2 /\ Len(u) = 2
      BY <2>1, <2>4
    <3>2. t[1] = s /\ t[2] = m /\ u[1] = s /\ u[2] = m
      BY <2>1, <2>2
    <3> HIDE DEF t, u
    <3>3. \A k \in 1 .. 2 : t[k] = u[k]
      BY <3>2
    <3>4. \A x, y \in Seq(S) :
            Len(x) = Len(y) /\ (\A k \in 1 .. Len(x) : x[k] = y[k]) => x = y
      OBVIOUS
    <3>5. t = u
      BY <3>1, <3>3, <3>4
    <3> QED
      BY <3>5 DEF t, u
  <2> QED
    BY <2>4, <2>5
<1>3. CASE HasTrace(s) /\ HasTrace(m)
  BY <1>1, <1>2, <1>3 DEF Lines, s, m
<1>4. CASE HasTrace(s) /\ ~ HasTrace(m)
  BY <1>1, <1>2, <1>4 DEF Lines, s, m
<1>5. CASE ~ HasTrace(s) /\ HasTrace(m)
  BY <1>1, <1>2, <1>5 DEF Lines, s, m
<1>6. CASE ~ HasTrace(s) /\ ~ HasTrace(m)
  BY <1>1, <1>2, <1>6 DEF Lines, s, m
<1> QED
  BY <1>3, <1>4, <1>5, <1>6

\* Each pair is in one place.
LEMMA PairsOnce == FilesInv => EachPairOnce
<1> SUFFICES ASSUME FilesInv, Assembled
             PROVE  /\ Len(dists) = numMonitor
                    /\ \A s, l \in Devices :
                         s[1] = "switch" /\ l[1] = "light" /\ HasTrace(s) /\ HasTrace(l) =>
                           Cardinality({k \in 1 .. Len(dists) : dists[k] = <<s, l>>}) = 1
  BY DEF EachPairOnce
<1>1. Len(dists) = numMonitor
  BY AllPlaces
<1>2. ASSUME NEW s \in Devices, NEW l \in Devices, s[1] = "switch", l[1] = "light",
             HasTrace(s), HasTrace(l)
      PROVE  Cardinality({k \in 1 .. Len(dists) : dists[k] = <<s, l>>}) = 1
  <2>1. PICK p \in 1 .. numSwitch : s = <<"switch", p>>
    BY <1>2 DEF Devices
  <2>2. PICK m \in 1 .. numLight : l = <<"light", m>>
    BY <1>2 DEF Devices
  <2>3. Place(p, m) \in 1 .. Len(dists) /\ dists[Place(p, m)] = <<s, l>>
    <3>1. Place(p, m) \in 1 .. Len(dists) /\ dists[Place(p, m)] = PairLines(p, m)
      BY <1>1, AllPlaces
    <3>2. PairLines(p, m) = <<s, l>>
      BY <1>2, <2>1, <2>2, BothTraced
    <3> QED
      BY <3>1, <3>2
  <2>4. ASSUME NEW k \in 1 .. Len(dists), dists[k] = <<s, l>>
        PROVE  k = Place(p, m)
    <3>1. PICK q \in 1 .. numSwitch, n \in 1 .. numLight :
            k = Place(q, n) /\ dists[k] = PairLines(q, n)
      BY <1>1, AllPlaces
    <3>2. Len(PairLines(q, n)) = 2
      <4>1. Len(<<s, l>>) = 2
        OBVIOUS
      <4> QED
        BY <2>4, <3>1, <4>1
    <3>3. <<s, l>> = <<<<"switch", q>>, <<"light", n>>>>
      BY <2>4, <3>1, <3>2, BothTraced
    <3>4. s = <<"switch", q>> /\ l = <<"light", n>>
      BY <3>3
    <3>5. q = p /\ n = m
      BY <2>1, <2>2, <3>4
    <3> QED
      BY <3>1, <3>5
  <2>5. {k \in 1 .. Len(dists) : dists[k] = <<s, l>>} = {Place(p, m)}
    BY <2>3, <2>4
  <2> QED
    BY <2>5, FS_Singleton
<1> QED
  BY <1>1, <1>2

\* When the loops are done the formula has every device of the room once.
LEMMA FormulaOnce == FilesInv => CentralMatchesFormula
<1> SUFFICES ASSUME FilesInv PROVE CentralMatchesFormula
  OBVIOUS
<1>1. detailsCen = FlattenSeq([k \in 1 .. Len(formC) |-> Lines(formC[k])])
  BY DEF FilesInv, CentralInv, LinesOf
<1>2. ASSUME Assembled, numMonitor > 0
      PROVE  /\ {formC[k] : k \in 1 .. Len(formC)} = Devices
             /\ Len(formC) = Cardinality(Devices)
  <2> DEFINE n == numSwitch + numLight
  <2>1. numSwitch \in Nat /\ numLight \in Nat
    BY RoomNumbers DEF FilesInv
  <2>2. numSwitch # 0 /\ numLight # 0
    <3>1. \A a \in Nat : a * 0 = 0 /\ 0 * a = 0
      OBVIOUS
    <3>2. numMonitor # 0
      BY <1>2
    <3> QED
      BY <2>1, <3>1, <3>2 DEF numMonitor
  <2>3. plug = numSwitch + 1 /\ light = 1
    BY <1>2, <2>1, <2>2 DEF Assembled, PairsLeft, FilesInv, CountersInv
  <2>4. FormulaLength = n
    BY <2>1, <2>2, <2>3 DEF FormulaLength
  <2>5. formC = FormulaOf(n) /\ Len(formC) = n /\ n \in Nat
    <3>1. n \in Nat
      BY <2>1
    <3> HIDE DEF n
    <3>2. formC = FormulaOf(n)
      BY <2>4 DEF FilesInv, CentralInv
    <3>3. Len(FormulaOf(n)) = n
      BY <2>1, <3>1, FormulaAppend
    <3> QED
      BY <3>1, <3>2, <3>3
  <2>6. \A k \in 1 .. n : formC[k] = FormulaDevice(k)
    BY <2>5 DEF FormulaOf
  <2>7. \A k \in 1 .. n : FormulaDevice(k) \in Devices
    BY <2>1, <2>2 DEF FormulaDevice, Devices
  <2>8. ASSUME NEW d \in Devices PROVE \E k \in 1 .. n : d = FormulaDevice(k)
    <3>1. CASE d = <<"switch", 1>>
      <4>1. 1 \in 1 .. n /\ FormulaDevice(1) = d
        BY <2>1, <2>2, <3>1 DEF FormulaDevice
      <4> QED
        BY <4>1
    <3>2. ASSUME NEW l \in 1 .. numLight, d = <<"light", l>>
          PROVE  \E k \in 1 .. n : d = FormulaDevice(k)
      <4>1. l + 1 \in 1 .. n /\ FormulaDevice(l + 1) = d
        BY <2>1, <2>2, <3>2 DEF FormulaDevice
      <4> QED
        BY <4>1
    <3>3. ASSUME NEW p \in 2 .. numSwitch, d = <<"switch", p>>
          PROVE  \E k \in 1 .. n : d = FormulaDevice(k)
      <4>1. p + numLight \in 1 .. n /\ FormulaDevice(p + numLight) = d
        BY <2>1, <2>2, <3>3 DEF FormulaDevice
      <4> QED
        BY <4>1
    <3>4. \/ \E l \in 1 .. numLight : d = <<"light", l>>
          \/ \E p \in 1 .. numSwitch : d = <<"switch", p>>
      BY DEF Devices
    <3>5. \A p \in 1 .. numSwitch : p = 1 \/ p \in 2 .. numSwitch
      BY <2>1
    <3> QED
      BY <3>1, <3>2, <3>3, <3>4, <3>5
  <2>9. ASSUME NEW j \in 1 .. n, NEW k \in 1 .. n, FormulaDevice(j) = FormulaDevice(k)
        PROVE  j = k
    <3>1. /\ j # 1 => FormulaDevice(j) # <<"switch", 1>>
          /\ k # 1 => FormulaDevice(k) # <<"switch", 1>>
      BY <2>1 DEF FormulaDevice
    <3>2. FormulaDevice(1) = <<"switch", 1>>
      BY DEF FormulaDevice
    <3>3. CASE j = 1 \/ k = 1
      BY <2>9, <3>1, <3>2, <3>3
    <3>4. CASE j # 1 /\ k # 1
      BY <2>1, <2>9, <3>4 DEF FormulaDevice
    <3> QED
      BY <3>3, <3>4
  <2>10. {formC[k] : k \in 1 .. Len(formC)} = Devices
    BY <2>5, <2>6, <2>7, <2>8
  <2>11. Cardinality(Devices) = n
    <3> DEFINE f == [k \in 1 .. n |-> FormulaDevice(k)]
    <3>1. f \in Bijection(1 .. n, Devices)
      <4>1. f \in [1 .. n -> Devices]
        BY <2>7
      <4>2. \A j, k \in 1 .. n : f[j] = f[k] => j = k
        BY <2>9
      <4>3. \A d \in Devices : \E k \in 1 .. n : f[k] = d
        BY <2>8
      <4> HIDE DEF f, n
      <4> QED
        BY <4>1, <4>2, <4>3 DEF Bijection, Injection, Surjection, IsInjective
    <3>2. ExistsBijection(1 .. n, Devices)
      BY <3>1 DEF ExistsBijection
    <3> QED
      BY <2>5, <3>2, FS_CountingElements
  <2> QED
    BY <2>5, <2>10, <2>11
<1> QED
  BY <1>1, <1>2 DEF CentralMatchesFormula

\* The types of the files.
LEMMA FilesTyped == FilesInv => FilesTypeOK
<1> SUFFICES ASSUME FilesInv PROVE FilesTypeOK
  OBVIOUS
<1>1. formC \in Seq(DeviceNames)
  <2>1. numSwitch \in Nat /\ numLight \in Nat
    BY RoomNumbers DEF FilesInv
  <2>2. FormulaLength \in Nat
    BY <2>1 DEF FormulaLength, FilesInv, CountersInv
  <2> QED
    BY <2>1, <2>2, FormulaAppend DEF FilesInv, CentralInv
<1>2. \A form \in Seq(DeviceNames) : {form[k] : k \in 1 .. Len(form)} \subseteq DeviceNames
  OBVIOUS
<1>3. detailsCen \in Seq(DeviceNames)
  BY DEF FilesInv, CentralInv
<1>4. emptied \subseteq Kinds \X Nat
  BY DEF FilesInv, CountersInv
<1> QED
  BY <1>1, <1>2, <1>3, <1>4
     DEF FilesInv, CountersInv, PairsInv, FilesTypeOK, DeviceNames

\* A room before the loops.
FilesFresh ==
  /\ numbered \in [Kinds -> 0 .. MaxNumbered]
  /\ unnumbered \in [Kinds -> {0, 1}]
  /\ emptied \in Emptied(numbered)
  /\ plug = 1 /\ light = 1
  /\ detailsCen = <<>> /\ formC = <<>> /\ dists = <<>>

\* It has the invariant.
LEMMA FreshFiles == FilesFresh => FilesInv
<1> SUFFICES ASSUME FilesFresh PROVE FilesInv
  OBVIOUS
<1> USE DEF FilesFresh
<1>1. numbered \in [Kinds -> Nat]
  BY RoomFilesAssumption
<1>2. numSwitch \in Nat /\ numLight \in Nat
  BY <1>1 DEF numSwitch, numLight, Kinds
<1>3. CountersInv
  BY <1>1, <1>2, RoomFilesAssumption DEF CountersInv, Emptied
<1>4. PairsInv
  <2>1. Place(plug, light) = 1
    BY <1>2 DEF Place
  <2>2. dists \in Seq(Seq(DeviceNames)) /\ Len(dists) = 0
    OBVIOUS
  <2> QED
    BY <1>2, <2>1, <2>2, RoomFilesAssumption DEF PairsInv
<1>5. CentralInv
  <2>1. FormulaLength = 0
    BY DEF FormulaLength
  <2>2. formC = FormulaOf(0)
    BY DEF FormulaOf
  <2>3. LinesOf(formC) = <<>>
    <3>1. [k \in 1 .. Len(formC) |-> Lines(formC[k])] = <<>>
      OBVIOUS
    <3>2. FlattenSeq(<<>>) = <<>>
      BY DEF FlattenSeq
    <3> QED
      BY <3>1, <3>2, Zenon DEF LinesOf
  <2> QED
    BY <2>1, <2>2, <2>3 DEF CentralInv
<1> QED
  BY <1>3, <1>4, <1>5 DEF FilesInv

\* The same after a step.
LEMMA FreshFilesNext == FilesFresh' => FilesInv'
BY FreshFiles, PTL

-----------------------------------------------------------------------------
(***************************************************************************)
(* The loops over eps and the segments (main.cpp 385-455).                 *)
(***************************************************************************)

\* The window of the current segment in the trace of a device.
Window(device) == WindowSize(lengths[device], WindowStart(end - SegLength, eps), end)

\* Where segments begin.
Boundary(x) == \E k \in Nat : x = k * SegLength

\* No switch has ended where a segment before x begins.
Survived(x) ==
  \A p \in 1 .. numSwitch, start \in Nat :
    Boundary(start) /\ start < x => lengths[<<"switch", p>>] > start

\* The types and the counters of the loops.
LoopsInv ==
  /\ nth \in 1 .. NumRooms
  /\ numbered \in [Kinds -> 0 .. MaxNumbered]
  /\ lengths \in [Traced -> Lengths]
  /\ phase \in Phases
  /\ eps \in 0 .. MaxEps + 1
  /\ phase # "done" => eps <= MaxEps
  /\ end \in Nat
  /\ i \in 0 .. numMonitor
  /\ verdicts \in [Indices -> [Indices -> BOOLEAN]]
  /\ table \in Tables
  /\ cenVerdict \in BOOLEAN

\* Who has got past the solver: a segment begins inside the first trace, the
\* pairs asked so far have two traces, so once all of them were asked no
\* trace of the room is missing.
TraceInv ==
  /\ phase # "files" => Assembled
  /\ phase = "files" => eps = 0 /\ end = 0
  /\ phase \in {"solve", "central"} => end >= SegLength /\ end - SegLength < TraceLength
  /\ phase \in {"solve", "central", "share"} => numMonitor > 0
  /\ phase = "solve" => \A m \in 1 .. i : Len(dists[m]) = 2
  /\ phase \in {"central", "share"} => ~ TraceMissing
  /\ phase = "segment" /\ TraceLength > 0 /\ (eps > 0 \/ end > 0) => ~ TraceMissing
  /\ phase = "done" /\ TraceLength > 0 => ~ TraceMissing
  /\ phase = "aborted" => TraceMissing \/ SwitchEndsEarly

\* The pass without skew asks every switch at the start of every segment of
\* the first trace; the later passes ask for no more.
EarlyInv ==
  /\ Boundary(end)
  /\ phase = "done" => eps > 0
  /\ phase \in {"segment", "central", "share"} /\ eps = 0 => Survived(end)
  /\ phase = "solve" /\ eps = 0 =>
       /\ Survived(end - SegLength)
       /\ \A m \in 1 .. i : lengths[dists[m][1]] > end - SegLength
  /\ phase \in {"segment", "solve", "central", "share", "done"} /\ eps > 0 =>
       Survived(TraceLength)

RoomInv == ShareInv /\ FilesInv /\ LoopsInv /\ TraceInv /\ EarlyInv /\ AnswerIsWindowSize

\* Segments begin SegLength apart.
LEMMA Boundaries ==
  /\ Boundary(0)
  /\ \A x \in Nat : Boundary(x) => Boundary(x + SegLength)
  /\ \A x \in Nat : x >= SegLength /\ Boundary(x) => Boundary(x - SegLength)
  /\ \A x, y \in Nat : Boundary(x) /\ Boundary(y) /\ x < y => x <= y - SegLength
  /\ \A x \in Nat : Boundary(x) <=> \E k \in 0 .. x : x = k * SegLength
<1> DEFINE S == SegLength
<1>1. S \in Nat \ {0}
  BY RoomMainAssumption
<1> HIDE DEF S
<1>2. \A a, b \in Nat : a * b \in Nat
  OBVIOUS
<1>3. \A k \in Nat : (k + 1) * S = k * S + S /\ k * S \in Nat
  BY <1>1, <1>2
<1>4. ASSUME NEW j \in Nat, NEW k \in Nat, j < k PROVE j * S + S <= k * S
  <2>1. PICK e \in Nat : k = (j + 1) + e
    <3>1. k - (j + 1) \in Nat /\ k = (j + 1) + (k - (j + 1))
      BY <1>4
    <3> QED
      BY <3>1
  <2>2. ((j + 1) + e) * S = (j + 1) * S + e * S /\ e * S \in Nat /\ (j + 1) * S \in Nat
    BY <1>1, <1>2
  <2>3. (j + 1) * S = j * S + S /\ j * S \in Nat
    BY <1>3
  <2> QED
    BY <1>1, <2>1, <2>2, <2>3
<1>5. Boundary(0)
  <2>1. 0 * S = 0 /\ 0 \in Nat
    BY <1>1
  <2> QED
    BY <2>1 DEF Boundary, S
<1>6. ASSUME NEW x \in Nat, Boundary(x) PROVE Boundary(x + S)
  <2>1. PICK k \in Nat : x = k * S
    BY <1>6 DEF Boundary, S
  <2>2. x + S = (k + 1) * S /\ k + 1 \in Nat
    BY <1>3, <2>1
  <2> QED
    BY <2>2 DEF Boundary, S
<1>7. ASSUME NEW x \in Nat, x >= S, Boundary(x) PROVE Boundary(x - S)
  <2>1. PICK k \in Nat : x = k * S
    BY <1>7 DEF Boundary, S
  <2>2. k # 0
    <3>1. 0 * S = 0
      BY <1>1
    <3> QED
      BY <1>1, <1>7, <2>1, <3>1
  <2>3. PICK j \in Nat : k = j + 1
    <3>1. k - 1 \in Nat /\ k = (k - 1) + 1
      BY <2>2
    <3> QED
      BY <3>1
  <2>4. (j + 1) * S = j * S + S /\ j * S \in Nat
    BY <1>3
  <2>5. x - S = j * S
    BY <1>1, <2>1, <2>3, <2>4
  <2> QED
    BY <2>5 DEF Boundary, S
<1>8. ASSUME NEW x \in Nat, NEW y \in Nat, Boundary(x), Boundary(y), x < y PROVE x <= y - S
  <2>1. PICK j \in Nat : x = j * S
    BY <1>8 DEF Boundary, S
  <2>2. PICK k \in Nat : y = k * S
    BY <1>8 DEF Boundary, S
  <2>3. j < k
    <3>1. CASE k = j
      BY <1>8, <2>1, <2>2, <3>1
    <3>2. CASE k < j
      <4>1. k * S + S <= j * S
        BY <1>4, <3>2
      <4> QED
        BY <1>1, <1>8, <2>1, <2>2, <4>1
    <3> QED
      BY <3>1, <3>2
  <2>4. j * S + S <= k * S
    BY <1>4, <2>3
  <2> QED
    BY <1>1, <2>1, <2>2, <2>4
<1>9. ASSUME NEW x \in Nat, Boundary(x) PROVE \E k \in 0 .. x : x = k * S
  <2>1. PICK k \in Nat : x = k * S
    BY <1>9 DEF Boundary, S
  <2>2. k <= x
    <3>1. PICK e \in Nat : S = 1 + e
      <4>1. S - 1 \in Nat /\ S = 1 + (S - 1)
        BY <1>1
      <4> QED
        BY <4>1
    <3>2. k * (1 + e) = k + k * e /\ k * e \in Nat
      BY <1>2
    <3> QED
      BY <2>1, <3>1, <3>2
  <2> QED
    BY <2>1, <2>2
<1>10. \A x \in Nat : (\E k \in 0 .. x : x = k * S) => Boundary(x)
  BY DEF Boundary, S
<1> QED
  BY <1>5, <1>6, <1>7, <1>8, <1>9, <1>10 DEF S

\* Without pairs no device is copied.
LEMMA TraceNeedsPairs ==
  ASSUME FilesInv, Assembled, TraceLength > 0
  PROVE  numSwitch > 0 /\ numLight > 0 /\ numMonitor > 0
<1>1. numSwitch \in Nat /\ numLight \in Nat /\ numMonitor \in Nat
  BY RoomNumbers DEF FilesInv
<1>2. detailsCen # <<>>
  BY DEF TraceLength
<1>3. ASSUME numSwitch = 0 \/ numLight = 0 PROVE FALSE
  <2>1. plug = 1 /\ light = 1
    BY <1>1, <1>3 DEF FilesInv, CountersInv
  <2>2. formC = FormulaOf(0)
    BY <2>1 DEF FilesInv, CentralInv, FormulaLength
  <2>3. formC = <<>>
    BY <2>2 DEF FormulaOf
  <2>4. LinesOf(formC) = <<>>
    <3>1. [k \in 1 .. Len(formC) |-> Lines(formC[k])] = <<>>
      BY <2>3
    <3>2. FlattenSeq(<<>>) = <<>>
      BY DEF FlattenSeq
    <3> QED
      BY <3>1, <3>2, Zenon DEF LinesOf
  <2> QED
    BY <1>2, <2>4 DEF FilesInv, CentralInv
<1>4. numSwitch > 0 /\ numLight > 0
  BY <1>1, <1>3
<1>5. \A a, b \in Nat : a > 0 /\ b > 0 => a * b > 0
  OBVIOUS
<1> QED
  BY <1>1, <1>4, <1>5 DEF numMonitor

\* A pair without its two traces has a trace missing.
LEMMA PairMissing ==
  ASSUME FilesInv, Assembled, NEW m \in 1 .. numMonitor, Len(dists[m]) # 2
  PROVE  TraceMissing
<1> SUFFICES ASSUME ~ TraceMissing PROVE FALSE
  OBVIOUS
<1>1. PICK p \in 1 .. numSwitch, l \in 1 .. numLight : dists[m] = PairLines(p, l)
  BY AllPlaces
<1>2. HasTrace(<<"switch", p>>) /\ HasTrace(<<"light", l>>)
  BY NoneMissing DEF FilesInv
<1>3. Len(PairLines(p, l)) = 2
  BY <1>2, BothTraced
<1> QED
  BY <1>1, <1>3

\* When all pairs have theirs, the room has all.
LEMMA NoPairMissing ==
  ASSUME FilesInv, Assembled, numMonitor > 0, \A m \in 1 .. numMonitor : Len(dists[m]) = 2
  PROVE  ~ TraceMissing
<1>1. numSwitch \in Nat /\ numLight \in Nat /\ numMonitor \in Nat
  BY RoomNumbers DEF FilesInv
<1>2. numSwitch # 0 /\ numLight # 0
  <2>1. \A a \in Nat : a * 0 = 0 /\ 0 * a = 0
    OBVIOUS
  <2>2. numMonitor # 0
    OBVIOUS
  <2> QED
    BY <1>1, <2>1, <2>2 DEF numMonitor
<1>3. ASSUME NEW p \in 1 .. numSwitch, NEW l \in 1 .. numLight
      PROVE  HasTrace(<<"switch", p>>) /\ HasTrace(<<"light", l>>)
  <2>1. Place(p, l) \in 1 .. numMonitor /\ dists[Place(p, l)] = PairLines(p, l)
    BY AllPlaces
  <2>2. Len(PairLines(p, l)) = 2
    BY <2>1
  <2> QED
    BY <2>2, BothTraced
<1>4. /\ \A p \in 1 .. numSwitch : HasTrace(<<"switch", p>>)
      /\ \A l \in 1 .. numLight : HasTrace(<<"light", l>>)
  <2>1. 1 \in 1 .. numSwitch /\ 1 \in 1 .. numLight
    BY <1>1, <1>2
  <2> QED
    BY <1>3, <2>1
<1>5. /\ numbered["switch"] \in Nat /\ numbered["light"] \in Nat
      /\ unnumbered["switch"] \in {0, 1} /\ unnumbered["light"] \in {0, 1}
  BY DEF FilesInv, CountersInv, Kinds
<1>6. unnumbered["switch"] = 0 /\ unnumbered["light"] = 0
  <2>1. numSwitch <= numbered["switch"] /\ numLight <= numbered["light"]
    <3>1. numSwitch \in 1 .. numSwitch /\ numLight \in 1 .. numLight
      BY <1>1, <1>2
    <3>2. HasTrace(<<"switch", numSwitch>>) /\ HasTrace(<<"light", numLight>>)
      BY <1>4, <3>1
    <3> QED
      BY <3>2 DEF HasTrace
  <2> QED
    BY <1>5, <2>1 DEF numSwitch, numLight
<1>7. emptied = {}
  <2> SUFFICES ASSUME NEW d \in emptied PROVE FALSE
    OBVIOUS
  <2>1. d \in Kinds \X (Nat \ {0}) /\ d[2] <= numbered[d[1]]
    BY DEF FilesInv, CountersInv
  <2>2. PICK kind \in Kinds, number \in Nat \ {0} : d = <<kind, number>>
    BY <2>1
  <2>3. number <= numbered[kind]
    BY <2>1, <2>2
  <2>4. ~ HasTrace(<<kind, number>>)
    BY <2>2 DEF HasTrace
  <2>5. CASE kind = "switch"
    <3>1. number \in 1 .. numSwitch
      BY <1>5, <1>6, <2>3, <2>5 DEF numSwitch
    <3> QED
      BY <1>4, <2>4, <2>5, <3>1
  <2>6. CASE kind = "light"
    <3>1. number \in 1 .. numLight
      BY <1>5, <1>6, <2>3, <2>6 DEF numLight
    <3> QED
      BY <1>4, <2>4, <2>6, <3>1
  <2> QED
    BY <2>5, <2>6 DEF Kinds
<1> QED
  BY <1>6, <1>7 DEF TraceMissing, Kinds

\* A device with a trace has a length.
LEMMA TracedLength ==
  ASSUME LoopsInv, NEW kind \in Kinds, NEW number \in Nat \ {0}, HasTrace(<<kind, number>>)
  PROVE  <<kind, number>> \in Traced /\ lengths[<<kind, number>>] \in Nat
<1>1. numbered[kind] \in 0 .. MaxNumbered
  BY DEF LoopsInv
<1>2. number <= numbered[kind]
  BY DEF HasTrace
<1>3. number \in 1 .. MaxNumbered
  BY <1>1, <1>2, RoomFilesAssumption
<1>4. <<kind, number>> \in Traced
  BY <1>3 DEF Traced
<1> QED
  BY <1>4, RoomMainAssumption DEF LoopsInv

\* The window of a device with a trace: empty just when the trace ends before
\* it begins, so never when it has an event in the segment.
LEMMA WindowIs ==
  ASSUME LoopsInv, end >= SegLength, NEW d, lengths[d] \in Nat
  PROVE  /\ Window(d) \in Nat
         /\ Window(d) = 0 => lengths[d] <= end - SegLength
         /\ eps = 0 /\ Window(d) # 0 => lengths[d] > end - SegLength
<1>1. eps \in Nat /\ end \in Nat /\ SegLength \in Nat \ {0}
  BY RoomMainAssumption DEF LoopsInv
<1> DEFINE L == lengths[d]
<1>2. L \in Nat
  OBVIOUS
<1>3. Window(d) = WindowSize(L, WindowStart(end - SegLength, eps), end)
  BY DEF Window
<1> HIDE DEF L
<1> QED
  BY <1>1, <1>2, <1>3 DEF WindowSize, WindowStart, L

\* The monitor of a pair with two traces reads those of a switch and a light.
LEMMA PairTraces ==
  ASSUME FilesInv, LoopsInv, Assembled, NEW m \in 1 .. numMonitor, Len(dists[m]) = 2
  PROVE  \E p \in 1 .. numSwitch, l \in 1 .. numLight :
           /\ dists[m] = <<<<"switch", p>>, <<"light", l>>>>
           /\ dists[m][1] = <<"switch", p>> /\ dists[m][2] = <<"light", l>>
           /\ HasTrace(<<"switch", p>>) /\ HasTrace(<<"light", l>>)
           /\ <<"switch", p>> \in Traced
           /\ lengths[<<"switch", p>>] \in Nat /\ lengths[<<"light", l>>] \in Nat
<1>1. PICK p \in 1 .. numSwitch, l \in 1 .. numLight : dists[m] = PairLines(p, l)
  BY AllPlaces
<1>2. /\ dists[m] = <<<<"switch", p>>, <<"light", l>>>>
      /\ HasTrace(<<"switch", p>>) /\ HasTrace(<<"light", l>>)
  BY <1>1, BothTraced
<1>3. p \in Nat \ {0} /\ l \in Nat \ {0} /\ "switch" \in Kinds /\ "light" \in Kinds
  BY DEF Kinds
<1>4. <<"switch", p>> \in Traced /\ lengths[<<"switch", p>>] \in Nat
  BY <1>2, <1>3, TracedLength
<1>5. lengths[<<"light", l>>] \in Nat
  BY <1>2, <1>3, TracedLength
<1> DEFINE s == <<"switch", p>>
           t == <<"light", l>>
<1>6. <<s, t>>[1] = s /\ <<s, t>>[2] = t
  <2> HIDE DEF s, t
  <2> QED
    OBVIOUS
<1> QED
  BY <1>2, <1>4, <1>5, <1>6

\* What the monitor of a pair asks about: the window of its switch, or
\* nothing.
LEMMA PairEvents ==
  ASSUME FilesInv, LoopsInv, Assembled, end >= SegLength, NEW m \in 1 .. numMonitor
  PROVE  Events(dists[m]) = IF Len(dists[m]) = 2 THEN Window(dists[m][1]) ELSE 0
<1> DEFINE P == Processes(dists[m])
<1>1. Len(dists[m]) \in {0, 1, 2}
  <2>1. PICK p \in 1 .. numSwitch, l \in 1 .. numLight : dists[m] = PairLines(p, l)
    BY AllPlaces
  <2> QED
    BY <2>1, BothTraced
<1>2. CASE Len(dists[m]) = 2
  <2>1. P = 1
    BY <1>2 DEF Processes
  <2>2. lengths[dists[m][1]] \in Nat
    BY <1>2, PairTraces
  <2>3. Window(dists[m][1]) \in Nat
    BY <2>2, WindowIs
  <2> DEFINE sizes == Sizes(dists[m])
  <2>4. sizes \in [0 .. 0 -> Nat] /\ sizes[0] = Window(dists[m][1])
    <3> DEFINE all == [k \in 0 .. Len(dists[m]) - 1 |-> lengths[dists[m][k + 1]]]
               lo == WindowStart(end - SegLength, eps)
    <3>1. sizes = [k \in 0 .. 0 |-> WindowSize(all[k], lo, end)]
      <4>1. 0 .. 1 - 1 = 0 .. 0
        OBVIOUS
      <4> QED
        BY <2>1, <4>1 DEF Sizes, WindowSizes
    <3>2. all[0] = lengths[dists[m][1]]
      <4>1. 0 \in 0 .. Len(dists[m]) - 1 /\ 0 + 1 = 1
        BY <1>2
      <4> QED
        BY <4>1
    <3>3. WindowSize(all[0], lo, end) = Window(dists[m][1])
      BY <3>2 DEF Window
    <3> HIDE DEF all, lo
    <3>4. \A k \in 0 .. 0 : k = 0
      OBVIOUS
    <3> QED
      BY <2>3, <3>1, <3>3, <3>4
  <2>5. TotNumEvents(1, sizes) = sizes[0]
    <3> HIDE DEF sizes
    <3> QED
      BY <2>4, TotNumEventsOne
  <2> QED
    BY <1>2, <2>1, <2>4, <2>5 DEF Events
<1>3. CASE Len(dists[m]) # 2
  <2>1. P <= 0
    <3>1. \A x \in {0, 1, 2} : x # 2 => x - 1 <= 0
      OBVIOUS
    <3> QED
      BY <1>1, <1>3, <3>1, Zenon DEF Processes
  <2> QED
    BY <1>3, <2>1 DEF Events, TotNumEvents
<1> QED
  BY <1>2, <1>3

\* The devices of the central monitor, when no trace is missing.
LEMMA CentralDevices ==
  ASSUME FilesInv, LoopsInv, Assembled, numMonitor > 0, ~ TraceMissing
  PROVE  /\ numSwitch \in Nat \ {0} /\ numLight \in Nat \ {0}
         /\ Len(detailsCen) = numSwitch + numLight
         /\ \A k \in 1 .. Len(detailsCen) : lengths[detailsCen[k]] \in Nat
         /\ detailsCen[1] = <<"switch", 1>>
         /\ <<"switch", 1>> \in Traced
         /\ TraceLength = lengths[<<"switch", 1>>]
         /\ TraceLength \in Nat
<1> DEFINE n == numSwitch + numLight
<1>1. numSwitch \in Nat /\ numLight \in Nat
  BY RoomNumbers DEF FilesInv
<1>2. numSwitch # 0 /\ numLight # 0
  <2>1. \A a \in Nat : a * 0 = 0 /\ 0 * a = 0
    OBVIOUS
  <2>2. numMonitor # 0
    OBVIOUS
  <2> QED
    BY <1>1, <2>1, <2>2 DEF numMonitor
<1>3. plug = numSwitch + 1 /\ light = 1
  BY <1>1, <1>2 DEF Assembled, PairsLeft, FilesInv, CountersInv
<1>4. FormulaLength = n
  BY <1>1, <1>2, <1>3 DEF FormulaLength
<1>5. detailsCen = FormulaOf(n)
  BY <1>4 DEF FilesInv, CentralInv
<1>6. Len(detailsCen) = n /\ n \in Nat /\ 1 \in 1 .. n
  <2>1. n \in Nat /\ 1 \in 1 .. n
    BY <1>1, <1>2
  <2> HIDE DEF n
  <2>2. Len(FormulaOf(n)) = n
    BY <1>1, <2>1, FormulaAppend
  <2> QED
    BY <1>5, <2>1, <2>2
<1>7. \A k \in 1 .. n : detailsCen[k] = FormulaDevice(k)
  BY <1>5 DEF FormulaOf
<1>8. /\ \A p \in 1 .. numSwitch : HasTrace(<<"switch", p>>)
      /\ \A l \in 1 .. numLight : HasTrace(<<"light", l>>)
  BY NoneMissing DEF FilesInv
<1>9. /\ \A p \in 1 .. numSwitch :
           <<"switch", p>> \in Traced /\ lengths[<<"switch", p>>] \in Nat
      /\ \A l \in 1 .. numLight : lengths[<<"light", l>>] \in Nat
  <2>1. /\ "switch" \in Kinds /\ "light" \in Kinds
        /\ \A p \in 1 .. numSwitch : p \in Nat \ {0}
        /\ \A l \in 1 .. numLight : l \in Nat \ {0}
    BY DEF Kinds
  <2> QED
    BY <1>8, <2>1, TracedLength
<1>10. ASSUME NEW k \in 1 .. n PROVE lengths[FormulaDevice(k)] \in Nat
  <2>1. CASE k = 1
    <3>1. 1 \in 1 .. numSwitch
      BY <1>1, <1>2
    <3> QED
      BY <1>9, <2>1, <3>1 DEF FormulaDevice
  <2>2. CASE k # 1 /\ k <= numLight + 1
    <3>1. k - 1 \in 1 .. numLight
      BY <1>1, <2>2
    <3> QED
      BY <1>9, <2>2, <3>1 DEF FormulaDevice
  <2>3. CASE k # 1 /\ ~ (k <= numLight + 1)
    <3>1. k - numLight \in 1 .. numSwitch
      BY <1>1, <2>3
    <3> QED
      BY <1>9, <2>3, <3>1 DEF FormulaDevice
  <2> QED
    BY <2>1, <2>2, <2>3
<1>11. detailsCen[1] = <<"switch", 1>>
  BY <1>6, <1>7 DEF FormulaDevice
<1>12. <<"switch", 1>> \in Traced /\ lengths[<<"switch", 1>>] \in Nat
  <2>1. 1 \in 1 .. numSwitch
    BY <1>1, <1>2
  <2> QED
    BY <1>9, <2>1
<1>13. detailsCen # <<>>
  <2>1. Len(<<>>) = 0
    OBVIOUS
  <2> QED
    BY <1>1, <1>2, <1>6, <2>1
<1>14. TraceLength = lengths[<<"switch", 1>>]
  BY <1>11, <1>13 DEF TraceLength
<1> HIDE DEF n
<1> QED
  BY <1>1, <1>2, <1>6, <1>7, <1>10, <1>11, <1>12, <1>14 DEF n

\* In such a room a switch ends early unless all have survived.
LEMMA EarlyIs ==
  ASSUME FilesInv, LoopsInv, Assembled, numMonitor > 0, ~ TraceMissing
  PROVE  SwitchEndsEarly <=> ~ Survived(TraceLength)
<1> DEFINE T == TraceLength
<1>1. /\ <<"switch", 1>> \in Traced /\ T = lengths[<<"switch", 1>>] /\ T \in Nat
      /\ numSwitch \in Nat
  BY CentralDevices
<1>2. numSwitch = numbered["switch"]
  BY NoneMissing DEF FilesInv
<1>3. \A p \in 1 .. numSwitch :
        <<"switch", p>> \in Traced /\ lengths[<<"switch", p>>] \in Nat
  <2>1. \A p \in 1 .. numSwitch : HasTrace(<<"switch", p>>)
    BY NoneMissing DEF FilesInv
  <2>2. "switch" \in Kinds /\ \A p \in 1 .. numSwitch : p \in Nat \ {0}
    BY <1>1 DEF Kinds
  <2> QED
    BY <2>1, <2>2, TracedLength
<1> HIDE DEF T
<1>4. ASSUME SwitchEndsEarly PROVE ~ Survived(T)
  <2>1. PICK d \in Traced, start \in 0 .. T - 1 :
          /\ d[1] = "switch"
          /\ \E k \in 0 .. start : start = k * SegLength
          /\ lengths[d] <= start
    BY <1>1, <1>4 DEF SwitchEndsEarly
  <2>2. start \in Nat /\ start < T
    BY <1>1, <2>1
  <2>3. Boundary(start)
    BY <2>1, <2>2, Boundaries
  <2>4. PICK kind \in Kinds, p \in 1 .. MaxNumbered : d = <<kind, p>>
    BY DEF Traced
  <2>5. kind = "switch" /\ HasTrace(<<kind, p>>)
    BY <2>1, <2>4 DEF Traced
  <2>6. p \in 1 .. numSwitch
    BY <1>1, <1>2, <2>5, RoomFilesAssumption DEF HasTrace
  <2>7. lengths[<<"switch", p>>] \in Nat /\ lengths[<<"switch", p>>] <= start
    BY <1>3, <2>1, <2>4, <2>5, <2>6
  <2>8. ~ (lengths[<<"switch", p>>] > start)
    BY <2>2, <2>7
  <2> QED
    BY <2>2, <2>3, <2>6, <2>8 DEF Survived
<1>5. ASSUME ~ Survived(T) PROVE SwitchEndsEarly
  <2>1. PICK p \in 1 .. numSwitch, start \in Nat :
          Boundary(start) /\ start < T /\ ~ (lengths[<<"switch", p>>] > start)
    BY <1>5 DEF Survived
  <2>2. start \in 0 .. T - 1 /\ lengths[<<"switch", p>>] <= start
    BY <1>1, <1>3, <2>1
  <2>3. \E k \in 0 .. start : start = k * SegLength
    BY <2>1, Boundaries
  <2>4. <<"switch", p>> \in Traced /\ <<"switch", p>>[1] = "switch"
    BY <1>3
  <2> QED
    BY <1>1, <2>2, <2>3, <2>4 DEF SwitchEndsEarly
<1> QED
  BY <1>4, <1>5 DEF T

\* What the central monitor asks about, when no trace is missing: something.
LEMMA CentralEvents ==
  ASSUME FilesInv, LoopsInv, Assembled, end >= SegLength, end - SegLength < TraceLength,
         numMonitor > 0, ~ TraceMissing
  PROVE  LET P == Processes(detailsCen)
         IN  /\ P \in Nat \ {0}
             /\ Sizes(detailsCen) \in [0 .. P - 1 -> Nat]
             /\ Events(detailsCen) \in Nat \ {0}
<1> DEFINE P == Processes(detailsCen)
           W == Window(<<"switch", 1>>)
           sizes == Sizes(detailsCen)
<1>1. /\ numSwitch \in Nat \ {0} /\ numLight \in Nat \ {0}
      /\ Len(detailsCen) = numSwitch + numLight
      /\ \A k \in 1 .. Len(detailsCen) : lengths[detailsCen[k]] \in Nat
      /\ detailsCen[1] = <<"switch", 1>>
      /\ TraceLength = lengths[<<"switch", 1>>]
      /\ TraceLength \in Nat
  BY CentralDevices
<1>2. P \in Nat \ {0} /\ P = Len(detailsCen) - 1
  BY <1>1 DEF Processes
<1>3. eps \in Nat /\ end \in Nat /\ SegLength \in Nat \ {0}
  BY RoomMainAssumption DEF LoopsInv
<1>4. W \in Nat \ {0}
  BY <1>1, <1>3, WindowIs
<1>5. sizes \in [0 .. P - 1 -> Nat] /\ sizes[0] = W
  <2> DEFINE all == [k \in 0 .. Len(detailsCen) - 1 |-> lengths[detailsCen[k + 1]]]
             lo == WindowStart(end - SegLength, eps)
  <2>1. sizes = [k \in 0 .. P - 1 |-> WindowSize(all[k], lo, end)]
    BY DEF Sizes, WindowSizes
  <2>2. \A k \in 0 .. P - 1 : all[k] \in Nat
    <3>1. \A k \in 0 .. P - 1 : k \in 0 .. Len(detailsCen) - 1 /\ k + 1 \in 1 .. Len(detailsCen)
      BY <1>1, <1>2
    <3> QED
      BY <1>1, <3>1
  <2>3. all[0] = lengths[<<"switch", 1>>]
    <3>1. 0 \in 0 .. Len(detailsCen) - 1 /\ 0 + 1 = 1
      BY <1>1
    <3> QED
      BY <1>1, <3>1
  <2>4. WindowSize(all[0], lo, end) = W
    BY <2>3 DEF Window
  <2>5. lo \in Nat
    BY <1>3 DEF WindowStart
  <2> HIDE DEF all, lo, W
  <2>6. \A k \in 0 .. P - 1 : WindowSize(all[k], lo, end) \in Nat
    BY <1>3, <2>2, <2>5 DEF WindowSize
  <2> HIDE DEF P, sizes
  <2>7. 0 \in 0 .. P - 1
    BY <1>2
  <2> QED
    BY <2>1, <2>4, <2>6, <2>7
<1> HIDE DEF P, sizes, W
<1>6. TotNumEvents(P, sizes) \in Nat /\ TotNumEvents(P, sizes) >= W
  BY <1>2, <1>5, TotNumEventsBound
<1>7. TotNumEvents(P, sizes) \in Nat \ {0}
  BY <1>4, <1>6
<1> QED
  BY <1>2, <1>5, <1>7 DEF P, sizes, Events

\* A step that leaves the files alone.
LEMMA FilesSame ==
  ASSUME FilesInv, UNCHANGED fileVars
  PROVE  FilesInv' /\ TraceMissing' = TraceMissing /\ Assembled' = Assembled
<1>1. /\ UNCHANGED <<numbered, unnumbered, emptied>>
      /\ plug' = plug /\ light' = light /\ detailsCen' = detailsCen
      /\ formC' = formC /\ dists' = dists
  BY DEF fileVars
<1>2. numSwitch' = numSwitch /\ numLight' = numLight
  BY <1>1 DEF numSwitch, numLight
<1>3. TraceMissing' = TraceMissing /\ Assembled' = Assembled
  BY <1>1, <1>2 DEF TraceMissing, Assembled, PairsLeft
<1>4. CountersInv'
  BY <1>1, <1>2 DEF FilesInv, CountersInv
<1>5. PairsInv'
  <2>1. \A p, l : Place(p, l)' = Place(p, l) /\ PairLines(p, l)' = PairLines(p, l)
    BY <1>1, RoomFixed
  <2>2. Place(plug, light)' = Place(plug, light)
    BY <1>1, <1>2 DEF Place
  <2> QED
    BY <1>1, <1>2, <2>1, <2>2 DEF FilesInv, PairsInv
<1>6. CentralInv'
  <2>1. FormulaOf(FormulaLength)' = FormulaOf(FormulaLength) /\ LinesOf(formC)' = LinesOf(formC)
    BY <1>1, <1>2 DEF FormulaOf, FormulaDevice, FormulaLength, LinesOf, Lines, HasTrace
  <2>2. TracedNames' = TracedNames
    BY <1>1, RoomFixed
  <2> QED
    BY <1>1, <1>3, <2>1, <2>2 DEF FilesInv, CentralInv
<1> QED
  BY <1>3, <1>4, <1>5, <1>6 DEF FilesInv

\* What the files and the lengths alone decide.
LEMMA RoomSame ==
  ASSUME UNCHANGED fileVars, lengths' = lengths
  PROVE  /\ numSwitch' = numSwitch /\ numMonitor' = numMonitor /\ Indices' = Indices
         /\ numbered' = numbered /\ dists' = dists
         /\ Traced' = Traced /\ TraceLength' = TraceLength
         /\ SwitchEndsEarly' = SwitchEndsEarly
         /\ Survived(TraceLength)' = Survived(TraceLength)
         /\ end' = end => Survived(end)' = Survived(end)
<1>1. /\ UNCHANGED <<numbered, unnumbered, emptied>>
      /\ detailsCen' = detailsCen /\ dists' = dists
  BY DEF fileVars
<1>2. /\ numSwitch' = numSwitch /\ numMonitor' = numMonitor /\ Indices' = Indices
      /\ Traced' = Traced
  BY <1>1, RoomFixed
<1>3. TraceLength' = TraceLength
  BY <1>1 DEF TraceLength
<1>4. SwitchEndsEarly' = SwitchEndsEarly
  BY <1>2 DEF SwitchEndsEarly
<1>5. Survived(TraceLength)' = Survived(TraceLength)
  BY <1>2, <1>3 DEF Survived, Boundary
<1>6. end' = end => Survived(end)' = Survived(end)
  BY <1>2 DEF Survived, Boundary
<1> QED
  BY <1>1, <1>2, <1>3, <1>4, <1>5, <1>6

\* The solver's answers about a window, when its table is empty.
LEMMA PairAnswer ==
  ASSUME NEW n \in Nat \ {0}, NEW a \in Answers(n, {})
  PROVE  a \in BOOLEAN /\ (a <=> n \notin {1, 3})
<1>1. Satisfiable(n, {}) <=> n \notin {1, 3}
  BY SolvableBySize
<1> QED
  BY <1>1 DEF Answers

\* A switch with an empty window has ended early.
LEMMA EmptyIsEarly ==
  ASSUME FilesInv, LoopsInv, Assembled, Boundary(end), end >= SegLength,
         end - SegLength < TraceLength, NEW m \in 1 .. numMonitor,
         Len(dists[m]) = 2, Window(dists[m][1]) = 0
  PROVE  TraceMissing \/ SwitchEndsEarly
<1> SUFFICES ASSUME ~ TraceMissing PROVE SwitchEndsEarly
  OBVIOUS
<1>1. PICK p \in 1 .. numSwitch :
        dists[m][1] = <<"switch", p>> /\ lengths[<<"switch", p>>] \in Nat
  BY PairTraces
<1>2. end \in Nat /\ SegLength \in Nat \ {0}
  BY RoomMainAssumption DEF LoopsInv
<1>3. lengths[<<"switch", p>>] <= end - SegLength
  BY <1>1, WindowIs
<1>4. end - SegLength \in Nat /\ Boundary(end - SegLength)
  BY <1>2, Boundaries
<1>5. ~ (lengths[<<"switch", p>>] > end - SegLength)
  BY <1>1, <1>3, <1>4
<1>6. ~ Survived(TraceLength)
  BY <1>4, <1>5 DEF Survived
<1>7. numMonitor > 0
  <2>1. numMonitor \in Nat
    BY RoomNumbers DEF FilesInv
  <2> QED
    BY <2>1
<1> QED
  BY <1>6, <1>7, EarlyIs

\* When every switch was asked, none has ended before this segment.
LEMMA AllAsked ==
  ASSUME FilesInv, LoopsInv, Assembled, Boundary(end), end >= SegLength, numMonitor > 0,
         Survived(end - SegLength),
         \A m \in 1 .. numMonitor :
           Len(dists[m]) = 2 /\ lengths[dists[m][1]] > end - SegLength
  PROVE  Survived(end)
<1>1. end \in Nat /\ SegLength \in Nat \ {0} /\ end - SegLength \in Nat
  BY RoomMainAssumption DEF LoopsInv
<1>2. ~ TraceMissing
  BY NoPairMissing
<1>3. numSwitch \in Nat /\ numLight \in Nat \ {0}
  BY <1>2, CentralDevices
<1>4. SUFFICES ASSUME NEW p \in 1 .. numSwitch, NEW start \in Nat, Boundary(start), start < end
               PROVE  lengths[<<"switch", p>>] > start
  BY DEF Survived
<1>5. start <= end - SegLength
  BY <1>1, <1>4, Boundaries
<1>6. CASE start < end - SegLength
  BY <1>4, <1>6 DEF Survived
<1>7. CASE start = end - SegLength
  <2>1. 1 \in 1 .. numLight
    BY <1>3
  <2>2. Place(p, 1) \in 1 .. numMonitor /\ dists[Place(p, 1)] = PairLines(p, 1)
    BY <2>1, AllPlaces
  <2>3. PairLines(p, 1) = <<<<"switch", p>>, <<"light", 1>>>>
    BY <2>2, BothTraced
  <2> DEFINE d == <<"switch", p>>
             e == <<"light", 1>>
  <2>4. <<d, e>>[1] = d
    <3> HIDE DEF d, e
    <3> QED
      OBVIOUS
  <2>5. dists[Place(p, 1)][1] = <<"switch", p>>
    BY <2>2, <2>3, <2>4
  <2> QED
    BY <1>7, <2>2, <2>5
<1> QED
  BY <1>1, <1>5, <1>6, <1>7

\* A pair's monitor asks the solver.
LEMMA SolvePairRoom == RoomInv /\ SolvePair => RoomInv'
<1> SUFFICES ASSUME RoomInv, SolvePair PROVE RoomInv'
  OBVIOUS
<1> DEFINE d == dists[i + 1]
           n == Events(d)
           W == Window(d[1])
<1>1. ShareInv'
  BY SolvePairStep DEF RoomInv
<1>2. /\ phase = "solve" /\ FilesInv /\ LoopsInv /\ Assembled /\ Boundary(end)
      /\ end >= SegLength /\ end - SegLength < TraceLength
      /\ i \in Nat /\ numMonitor \in Nat /\ i < numMonitor
      /\ \A m \in 1 .. i : Len(dists[m]) = 2
      /\ answers \in Seq(BOOLEAN) /\ Len(answers) = i
  BY DEF SolvePair, RoomInv, TraceInv, EarlyInv, ShareInv, FlagTypes, FlagInv
<1>3. i + 1 \in 1 .. numMonitor /\ i + 1 \in 0 .. numMonitor
  BY <1>2
<1>4. n = IF Len(d) = 2 THEN W ELSE 0
  BY <1>2, <1>3, PairEvents
<1>5. Len(d) = 2 =>
        /\ W \in Nat
        /\ eps = 0 /\ W # 0 => lengths[d[1]] > end - SegLength
  <2> SUFFICES ASSUME Len(d) = 2
               PROVE  W \in Nat /\ (eps = 0 /\ W # 0 => lengths[d[1]] > end - SegLength)
    OBVIOUS
  <2>1. lengths[d[1]] \in Nat
    BY <1>2, <1>3, PairTraces
  <2> QED
    BY <1>2, <2>1, WindowIs
<1>6. \/ n = 0 /\ Abort
      \/ /\ n # 0
         /\ \E a \in Answers(n, {}) : answers' = Append(answers, a)
         /\ i' = i + 1
         /\ phase' = IF i + 1 < numMonitor THEN "solve" ELSE "central"
         /\ UNCHANGED <<fileVars, nth, lengths, eps, end, verdicts, table, cenVerdict>>
  BY DEF SolvePair
<1> HIDE DEF n, W
<1>7. CASE n = 0 /\ Abort
  <2>1. TraceMissing \/ SwitchEndsEarly
    <3>1. CASE Len(d) # 2
      BY <1>2, <1>3, <3>1, PairMissing
    <3>2. CASE Len(d) = 2
      BY <1>2, <1>3, <1>4, <1>7, <3>2, EmptyIsEarly DEF W
    <3> QED
      BY <3>1, <3>2
  <2>2. /\ phase' = "aborted"
        /\ UNCHANGED <<fileVars, nth, lengths, eps, end, i, verdicts, table, cenVerdict, answers>>
    BY <1>7 DEF Abort
  <2>3. FilesInv' /\ TraceMissing' = TraceMissing /\ Assembled'
    BY <1>2, <2>2, FilesSame
  <2>4. /\ numMonitor' = numMonitor /\ Indices' = Indices /\ Traced' = Traced
        /\ numbered' = numbered /\ dists' = dists
        /\ SwitchEndsEarly' = SwitchEndsEarly
    BY <2>2, RoomSame
  <2>5. LoopsInv'
    BY <1>2, <2>2, <2>4 DEF LoopsInv, Phases
  <2>6. AnswerIsWindowSize'
    BY <2>2, <2>4 DEF RoomInv, AnswerIsWindowSize
  <2>7. TraceInv'
    BY <2>1, <2>2, <2>3, <2>4 DEF TraceInv
  <2>8. EarlyInv'
    BY <1>2, <2>2 DEF EarlyInv, Boundary
  <2> QED
    BY <1>1, <2>3, <2>5, <2>6, <2>7, <2>8 DEF RoomInv
<1>8. CASE /\ n # 0
           /\ \E a \in Answers(n, {}) : answers' = Append(answers, a)
           /\ i' = i + 1
           /\ phase' = IF i + 1 < numMonitor THEN "solve" ELSE "central"
           /\ UNCHANGED <<fileVars, nth, lengths, eps, end, verdicts, table, cenVerdict>>
  <2>1. Len(d) = 2 /\ n = W /\ W \in Nat \ {0}
    BY <1>4, <1>5, <1>8
  <2>2. PICK a \in Answers(n, {}) : answers' = Append(answers, a)
    BY <1>8
  <2>3. a \in BOOLEAN /\ (a <=> W \notin {1, 3})
    BY <2>1, <2>2, PairAnswer
  <2>4. FilesInv' /\ TraceMissing' = TraceMissing /\ Assembled'
    BY <1>2, <1>8, FilesSame
  <2>5. /\ numMonitor' = numMonitor /\ Indices' = Indices /\ TraceLength' = TraceLength
        /\ Traced' = Traced /\ numbered' = numbered /\ dists' = dists
        /\ numSwitch' = numSwitch
        /\ Survived(TraceLength)' = Survived(TraceLength)
        /\ Survived(end)' = Survived(end)
    BY <1>8, RoomSame
  <2>6. LoopsInv'
    BY <1>2, <1>3, <1>8, <2>5 DEF LoopsInv, Phases
  <2>7. AnswerIsWindowSize'
    <3>1. \A k \in 1 .. Len(answers) : answers[k] <=> Window(dists[k][1]) \notin {1, 3}
      BY DEF RoomInv, AnswerIsWindowSize, Window
    <3>2. /\ Len(answers') = i + 1 /\ answers'[i + 1] = a
          /\ \A k \in 1 .. i : answers'[k] = answers[k]
      BY <1>2, <2>2, <2>3
    <3>3. \A k \in 1 .. Len(answers') : k \in 1 .. i \/ k = i + 1
      BY <1>2, <3>2
    <3>4. \A k \in 1 .. Len(answers') : answers'[k] <=> Window(dists[k][1]) \notin {1, 3}
      BY <1>2, <2>3, <3>1, <3>2, <3>3 DEF W
    <3> QED
      BY <1>8, <2>5, <3>4 DEF AnswerIsWindowSize, Window
  <2>8. \A m \in 1 .. i + 1 : Len(dists[m]) = 2
    BY <1>2, <2>1
  <2>9. TraceInv'
    <3>1. CASE i + 1 < numMonitor
      BY <1>2, <1>8, <2>4, <2>5, <2>8, <3>1 DEF TraceInv
    <3>2. CASE ~ (i + 1 < numMonitor)
      <4>1. i + 1 = numMonitor /\ numMonitor > 0
        BY <1>2, <3>2
      <4>2. ~ TraceMissing
        BY <1>2, <2>8, <4>1, NoPairMissing
      <4> QED
        BY <1>2, <1>8, <2>4, <2>5, <3>2, <4>1, <4>2 DEF TraceInv
    <3> QED
      BY <3>1, <3>2
  <2>10. EarlyInv'
    <3>1. CASE eps = 0
      <4>1. /\ Survived(end - SegLength)
            /\ \A m \in 1 .. i : lengths[dists[m][1]] > end - SegLength
        BY <1>2, <3>1 DEF RoomInv, EarlyInv
      <4>2. \A m \in 1 .. i + 1 : lengths[dists[m][1]] > end - SegLength
        <5>1. lengths[d[1]] > end - SegLength
          BY <1>5, <2>1, <3>1
        <5>2. \A m \in 1 .. i + 1 : m \in 1 .. i \/ m = i + 1
          BY <1>2
        <5> QED
          BY <4>1, <5>1, <5>2
      <4>3. eps' = 0 /\ end' = end /\ lengths' = lengths
        BY <1>8, <3>1
      <4>4. Boundary(end)'
        BY <1>2, <4>3 DEF Boundary
      <4>5. CASE i + 1 < numMonitor
        <5>1. Survived(end - SegLength)'
          BY <2>5, <4>1, <4>3 DEF Survived, Boundary
        <5> QED
          BY <1>8, <2>5, <4>2, <4>3, <4>4, <4>5, <5>1 DEF EarlyInv
      <4>6. CASE ~ (i + 1 < numMonitor)
        <5>1. i + 1 = numMonitor /\ numMonitor > 0
          BY <1>2, <4>6
        <5>2. Survived(end)
          BY <1>2, <2>8, <4>1, <4>2, <5>1, AllAsked
        <5> QED
          BY <1>8, <2>5, <4>3, <4>4, <4>6, <5>2 DEF EarlyInv
      <4> QED
        BY <4>5, <4>6
    <3>2. CASE eps # 0
      <4>1. eps > 0
        BY <1>2, <3>2 DEF LoopsInv
      <4>2. Survived(TraceLength)
        BY <1>2, <4>1 DEF RoomInv, EarlyInv
      <4>3. eps' = eps /\ phase' \in {"solve", "central"} /\ Boundary(end)'
        BY <1>2, <1>8 DEF Boundary
      <4> QED
        BY <2>5, <3>2, <4>2, <4>3 DEF EarlyInv
    <3> QED
      BY <3>1, <3>2
  <2> QED
    BY <1>1, <2>4, <2>6, <2>7, <2>9, <2>10 DEF RoomInv
<1> QED
  BY <1>6, <1>7, <1>8

\* The central monitor asks the solver: it is never asked about nothing.
LEMMA SolveCentralRoom == RoomInv /\ SolveCentral => RoomInv'
<1> SUFFICES ASSUME RoomInv, SolveCentral PROVE RoomInv'
  OBVIOUS
<1> DEFINE P == Processes(detailsCen)
           n == Events(detailsCen)
           pairs == NewPairs(P, Sizes(detailsCen), eps)
           t == EnterAll(table, pairs)
<1>1. ShareInv'
  BY OtherSteps DEF RoomInv
<1>2. /\ phase = "central" /\ FilesInv /\ LoopsInv /\ Assembled
      /\ end >= SegLength /\ end - SegLength < TraceLength
      /\ ~ TraceMissing /\ numMonitor > 0 /\ table \in Tables
  BY DEF SolveCentral, RoomInv, TraceInv, LoopsInv
<1>3. P \in Nat \ {0} /\ Sizes(detailsCen) \in [0 .. P - 1 -> Nat] /\ n \in Nat \ {0}
  BY <1>2, CentralEvents
<1>4. /\ n # 0 =>
           /\ table' = t
           /\ cenVerdict' \in IF t.wild THEN BOOLEAN ELSE Answers(n, Entries(t))
           /\ i' = 0
           /\ phase' = "share"
           /\ UNCHANGED <<fileVars, nth, lengths, eps, end, verdicts, verdicts_mod, answers>>
  BY DEF SolveCentral, CentralPairs
<1> HIDE DEF P
<1>5. t \in Tables
  <2>1. pairs \in Seq(NamePair)
    BY <1>3, NewPairsType
  <2> HIDE DEF pairs
  <2> QED
    BY <1>2, <2>1, EnterAllType
<1> HIDE DEF n, t
<1>6. /\ table' \in Tables /\ cenVerdict' \in BOOLEAN /\ i' = 0 /\ phase' = "share"
      /\ UNCHANGED <<fileVars, nth, lengths, eps, end, verdicts, answers>>
  <2>1. Answers(n, Entries(t)) \subseteq BOOLEAN
    BY AnswersBoolean
  <2> QED
    BY <1>3, <1>4, <1>5, <2>1
<1>7. FilesInv' /\ ~ TraceMissing' /\ Assembled'
  BY <1>2, <1>6, FilesSame
<1>8. /\ numMonitor' = numMonitor /\ Indices' = Indices /\ Traced' = Traced
      /\ numbered' = numbered /\ dists' = dists
      /\ Survived(TraceLength)' = Survived(TraceLength) /\ Survived(end)' = Survived(end)
  BY <1>6, RoomSame
<1>9. numMonitor \in Nat
  BY <1>2, RoomNumbers DEF FilesInv
<1>10. LoopsInv'
  BY <1>2, <1>6, <1>8, <1>9 DEF LoopsInv, Phases
<1>11. AnswerIsWindowSize'
  BY <1>6, <1>8 DEF RoomInv, AnswerIsWindowSize
<1>12. TraceInv'
  BY <1>2, <1>6, <1>7, <1>8 DEF TraceInv
<1>13. EarlyInv'
  BY <1>2, <1>6, <1>8 DEF RoomInv, EarlyInv, Boundary
<1> QED
  BY <1>1, <1>7, <1>10, <1>11, <1>12, <1>13 DEF RoomInv

\* The monitors share.
LEMMA ShareVerdictRoom == RoomInv /\ ShareVerdict => RoomInv'
<1> SUFFICES ASSUME RoomInv, ShareVerdict PROVE RoomInv'
  OBVIOUS
<1>1. ShareInv'
  BY ShareStep DEF RoomInv
<1>2. /\ phase = "share" /\ FilesInv /\ LoopsInv /\ Assembled /\ ~ TraceMissing
      /\ numMonitor \in Nat /\ numMonitor > 0 /\ i \in Nat /\ i < numMonitor
      /\ verdicts \in [Indices -> [Indices -> BOOLEAN]]
  BY DEF ShareVerdict, RoomInv, TraceInv, LoopsInv, ShareInv, FlagTypes, FlagInv
<1>3. /\ verdicts' = [j \in Indices |-> [c \in Indices |->
           IF j # i /\ verdicts_mod[i][c] THEN verdicts[i][c] ELSE verdicts[j][c]]]
      /\ i' = i + 1
      /\ phase' \in {"share", "segment"}
      /\ UNCHANGED <<fileVars, nth, lengths, eps, end, table, cenVerdict, answers>>
  BY DEF ShareVerdict, Receives
<1>4. i \in Indices
  BY <1>2 DEF Indices
<1>5. verdicts' \in [Indices -> [Indices -> BOOLEAN]]
  BY <1>2, <1>3, <1>4
<1>6. FilesInv' /\ ~ TraceMissing' /\ Assembled'
  BY <1>2, <1>3, FilesSame
<1>7. /\ numMonitor' = numMonitor /\ Indices' = Indices /\ Traced' = Traced
      /\ numbered' = numbered /\ dists' = dists
      /\ Survived(TraceLength)' = Survived(TraceLength) /\ Survived(end)' = Survived(end)
  BY <1>3, RoomSame
<1>8. LoopsInv'
  <2>1. i' \in 0 .. numMonitor' /\ phase' \in Phases /\ phase' # "done"
    BY <1>2, <1>3, <1>7 DEF Phases
  <2> QED
    BY <1>2, <1>3, <1>5, <1>7, <2>1 DEF LoopsInv
<1>9. AnswerIsWindowSize'
  BY <1>3, <1>7 DEF RoomInv, AnswerIsWindowSize
<1>10. TraceInv'
  BY <1>2, <1>3, <1>6, <1>7 DEF TraceInv
<1>11. EarlyInv'
  BY <1>2, <1>3, <1>7 DEF RoomInv, EarlyInv, Boundary
<1> QED
  BY <1>1, <1>6, <1>8, <1>9, <1>10, <1>11 DEF RoomInv

\* The first trace has a length.
LEMMA LengthIsNat ==
  ASSUME FilesInv, LoopsInv
  PROVE  TraceLength \in Nat
<1>1. CASE detailsCen = <<>>
  BY <1>1 DEF TraceLength
<1>2. CASE detailsCen # <<>>
  <2> DEFINE d == detailsCen[1]
  <2>1. d \in TracedNames
    <3>1. detailsCen \in Seq(TracedNames)
      BY DEF FilesInv, CentralInv
    <3> QED
      BY <1>2, <3>1
  <2> HIDE DEF d
  <2>2. PICK kind \in Kinds, number \in Nat \ {0} :
          d = <<kind, number>> /\ HasTrace(<<kind, number>>)
    BY <2>1 DEF TracedNames
  <2>3. lengths[d] \in Nat
    BY <2>2, TracedLength
  <2> QED
    BY <1>2, <2>3 DEF TraceLength, d
<1> QED
  BY <1>1, <1>2

\* The steps around a segment.
LEMMA SegmentRoom == RoomInv /\ (FilesDone \/ BeginSegment \/ NextEps) => RoomInv'
<1> SUFFICES ASSUME RoomInv, FilesDone \/ BeginSegment \/ NextEps PROVE RoomInv'
  OBVIOUS
<1>1. ShareInv'
  BY OtherSteps DEF RoomInv
<1>2. FilesInv /\ LoopsInv /\ TraceInv /\ EarlyInv
  BY DEF RoomInv
<1>3. /\ UNCHANGED <<fileVars, nth, lengths, verdicts, verdicts_mod, table, cenVerdict>>
      /\ answers' = <<>> \/ (answers' = answers /\ end' = end /\ eps' = eps)
  BY DEF FilesDone, BeginSegment, NextEps
<1>4. FilesInv' /\ TraceMissing' = TraceMissing /\ Assembled' = Assembled
  BY <1>2, <1>3, FilesSame
<1>5. /\ numMonitor' = numMonitor /\ Indices' = Indices /\ TraceLength' = TraceLength
      /\ numSwitch' = numSwitch
      /\ Traced' = Traced /\ numbered' = numbered /\ dists' = dists
      /\ Survived(TraceLength)' = Survived(TraceLength)
      /\ end' = end => Survived(end)' = Survived(end)
  BY <1>3, RoomSame
<1>6. AnswerIsWindowSize'
  <2>1. CASE answers' = <<>>
    BY <2>1 DEF AnswerIsWindowSize
  <2>2. CASE answers' = answers /\ end' = end /\ eps' = eps
    BY <1>3, <1>5, <2>2 DEF RoomInv, AnswerIsWindowSize
  <2> QED
    BY <1>3, <2>1, <2>2
<1>7. numMonitor \in Nat /\ TraceLength \in Nat /\ SegLength \in Nat \ {0} /\ MaxEps \in Nat
      /\ end \in Nat /\ eps \in Nat
  <2>1. numMonitor \in Nat
    BY <1>2, RoomNumbers DEF FilesInv
  <2>2. TraceLength \in Nat
    BY <1>2, LengthIsNat
  <2> QED
    BY <1>2, <2>1, <2>2, RoomMainAssumption DEF LoopsInv
<1>8. CASE FilesDone
  <2>1. phase = "files" /\ phase' = "segment" /\ Assembled /\ UNCHANGED <<eps, end, i, answers>>
    BY <1>8 DEF FilesDone
  <2>2. LoopsInv'
    BY <1>2, <1>3, <1>5, <2>1 DEF LoopsInv, Phases
  <2>3. eps = 0 /\ end = 0
    BY <1>2, <2>1 DEF TraceInv
  <2>4. TraceInv'
    BY <1>4, <2>1, <2>3 DEF TraceInv
  <2>5. EarlyInv'
    <3>1. Boundary(end)' /\ end' = 0 /\ eps' = 0
      BY <1>2, <2>1, <2>3 DEF EarlyInv, Boundary
    <3>2. Survived(end)'
      BY <3>1 DEF Survived
    <3> QED
      BY <2>1, <3>1, <3>2 DEF EarlyInv
  <2> QED
    BY <1>1, <1>4, <1>6, <2>2, <2>4, <2>5 DEF RoomInv
<1>9. CASE BeginSegment
  <2>1. /\ phase = "segment" /\ end < TraceLength /\ end' = end + SegLength /\ i' = 0
        /\ eps' = eps
        /\ phase' = IF numMonitor > 0 THEN "solve" ELSE "central"
    BY <1>9 DEF BeginSegment, TraceLeft
  <2>2. Assembled
    BY <1>2, <2>1 DEF TraceInv
  <2>3. numMonitor > 0
    BY <1>2, <1>7, <2>1, <2>2, TraceNeedsPairs
  <2>4. LoopsInv'
    BY <1>2, <1>3, <1>5, <1>7, <2>1, <2>3 DEF LoopsInv, Phases
  <2>5. end' >= SegLength /\ end' - SegLength < TraceLength
    BY <1>7, <2>1
  <2>6. TraceInv'
    BY <1>4, <1>5, <2>1, <2>2, <2>3, <2>5 DEF TraceInv
  <2>7. EarlyInv'
    <3>1. Boundary(end + SegLength)
      BY <1>2, <1>7, Boundaries DEF EarlyInv
    <3>2. Boundary(end)'
      BY <2>1, <3>1 DEF Boundary
    <3>3. ASSUME eps = 0 PROVE Survived(end - SegLength)'
      <4>1. Survived(end)
        BY <1>2, <2>1, <3>3 DEF EarlyInv
      <4>2. end' - SegLength = end
        BY <1>7, <2>1
      <4> QED
        BY <1>3, <1>5, <4>1, <4>2 DEF Survived, Boundary
    <3>4. ASSUME eps > 0 PROVE Survived(TraceLength)'
      BY <1>2, <1>5, <2>1, <3>4 DEF EarlyInv
    <3>5. \A m \in 1 .. i' : FALSE
      BY <2>1
    <3> QED
      BY <2>1, <2>3, <3>2, <3>3, <3>4, <3>5 DEF EarlyInv
  <2> QED
    BY <1>1, <1>4, <1>6, <2>4, <2>6, <2>7 DEF RoomInv
<1>10. CASE NextEps
  <2>1. /\ phase = "segment" /\ ~ (end < TraceLength) /\ end' = 0 /\ i' = i
        /\ eps' = eps + 1
        /\ phase' = IF eps = MaxEps THEN "done" ELSE "segment"
    BY <1>10 DEF NextEps, TraceLeft, LastEps
  <2>2. Assembled /\ (TraceLength > 0 => ~ TraceMissing)
    BY <1>2, <1>7, <2>1 DEF TraceInv
  <2>3. eps <= MaxEps
    BY <1>2, <2>1 DEF LoopsInv
  <2>4. LoopsInv'
    <3>1. eps' \in 0 .. MaxEps + 1 /\ (phase' # "done" => eps' <= MaxEps)
      BY <1>7, <2>1, <2>3
    <3> QED
      BY <1>2, <1>3, <1>5, <2>1, <3>1 DEF LoopsInv, Phases
  <2>5. TraceInv'
    BY <1>4, <1>5, <2>1, <2>2 DEF TraceInv
  <2>6. EarlyInv'
    <3>1. Boundary(end)'
      BY <2>1, Boundaries DEF Boundary
    <3>2. Survived(TraceLength)
      <4>1. CASE eps = 0
        <5>1. Survived(end) /\ TraceLength <= end
          BY <1>2, <1>7, <2>1, <4>1 DEF EarlyInv
        <5>2. \A x \in Nat : x < TraceLength => x < end
          BY <1>7, <5>1
        <5> QED
          BY <5>1, <5>2 DEF Survived
      <4>2. CASE eps > 0
        BY <1>2, <2>1, <4>2 DEF EarlyInv
      <4> QED
        BY <1>7, <4>1, <4>2
    <3>3. eps' > 0
      BY <1>7, <2>1
    <3>4. phase' \in {"segment", "done"}
      BY <2>1
    <3> QED
      BY <1>5, <3>1, <3>2, <3>3, <3>4 DEF EarlyInv
  <2> QED
    BY <1>1, <1>4, <1>6, <2>4, <2>5, <2>6 DEF RoomInv
<1> QED
  BY <1>8, <1>9, <1>10

\* The set-up loops.
LEMMA AssembleRoom == RoomInv /\ AssembleFiles => RoomInv'
<1> SUFFICES ASSUME RoomInv, AssembleFiles PROVE RoomInv'
  OBVIOUS
<1>1. ShareInv'
  BY OtherSteps DEF RoomInv
<1>2. /\ phase = "files" /\ AssemblePair
      /\ UNCHANGED <<nth, lengths, phase, eps, end, i, verdicts, table, cenVerdict, answers>>
  BY DEF AssembleFiles, loopVars
<1>3. FilesInv'
  BY <1>2, AssembleCounters, AssemblePairs, AssembleCentral DEF RoomInv, FilesInv
<1>4. /\ numMonitor' = numMonitor /\ Indices' = Indices /\ Traced' = Traced
      /\ numbered' = numbered
  BY <1>2, RoomFixed DEF AssemblePair
<1>5. LoopsInv'
  BY <1>2, <1>4 DEF RoomInv, LoopsInv
<1>6. AnswerIsWindowSize'
  <2>1. answers' = <<>>
    BY <1>2 DEF RoomInv, ShareInv, FlagInv
  <2> QED
    BY <2>1 DEF AnswerIsWindowSize
<1>7. TraceInv'
  BY <1>2 DEF RoomInv, TraceInv
<1>8. EarlyInv'
  BY <1>2 DEF RoomInv, EarlyInv, Boundary
<1> QED
  BY <1>1, <1>3, <1>5, <1>6, <1>7, <1>8 DEF RoomInv

\* The first room.
LEMMA FirstRoom == RoomInit => RoomInv
<1> SUFFICES ASSUME RoomInit PROVE RoomInv
  OBVIOUS
<1>1. ShareInv
  BY FreshRoom DEF RoomInit, Init
<1>2. FilesInv
  BY FreshFiles DEF RoomInit, Init, FilesFresh
<1>3. numMonitor \in Nat
  BY <1>2, RoomNumbers DEF FilesInv
<1>4. table \in Tables
  BY EmptyTableType DEF RoomInit
<1>5. LoopsInv
  <2>1. /\ nth = 1 /\ lengths \in [Traced -> Lengths] /\ phase = "files" /\ eps = 0 /\ end = 0
        /\ i = 0 /\ cenVerdict = FALSE /\ verdicts = NoVerdict
        /\ numbered \in [Kinds -> 0 .. MaxNumbered]
    BY DEF RoomInit, Init
  <2>2. verdicts \in [Indices -> [Indices -> BOOLEAN]]
    BY <2>1 DEF NoVerdict
  <2>3. nth \in 1 .. NumRooms /\ eps \in 0 .. MaxEps + 1 /\ eps <= MaxEps /\ i \in 0 .. numMonitor
    BY <1>3, <2>1, RoomMainAssumption
  <2> QED
    BY <1>4, <2>1, <2>2, <2>3 DEF LoopsInv, Phases
<1>6. TraceInv /\ AnswerIsWindowSize
  BY DEF RoomInit, TraceInv, AnswerIsWindowSize
<1>7. EarlyInv
  BY Boundaries DEF RoomInit, EarlyInv
<1> QED
  BY <1>1, <1>2, <1>5, <1>6, <1>7 DEF RoomInv

\* The same for the next one.
LEMMA FollowingRoom == RoomInv /\ NextRoom => RoomInv'
<1> SUFFICES ASSUME RoomInv, NextRoom PROVE RoomInv'
  OBVIOUS
<1>1. ShareInv'
  BY FreshNextRoom
<1>2. FilesInv'
  BY FreshFilesNext DEF NextRoom, FilesFresh
<1>3. numMonitor' \in Nat
  BY NextPairsAreNat
<1>4. table' \in Tables
  BY EmptyTableType DEF NextRoom
<1>5. nth' \in 1 .. NumRooms
  BY RoomMainAssumption DEF NextRoom, RoomInv, LoopsInv
<1>6. LoopsInv'
  <2>1. /\ lengths' \in [Traced' -> Lengths] /\ phase' = "files" /\ eps' = 0 /\ end' = 0
        /\ i' = 0 /\ cenVerdict' = FALSE /\ verdicts' = NoVerdict'
        /\ numbered' \in [Kinds -> 0 .. MaxNumbered]
    BY DEF NextRoom
  <2>2. verdicts' \in [Indices' -> [Indices' -> BOOLEAN]]
    BY <2>1 DEF NoVerdict
  <2>3. eps' \in 0 .. MaxEps + 1 /\ eps' <= MaxEps /\ i' \in 0 .. numMonitor'
    BY <1>3, <2>1, RoomMainAssumption
  <2> QED
    BY <1>4, <1>5, <2>1, <2>2, <2>3 DEF LoopsInv, Phases
<1>7. TraceInv' /\ AnswerIsWindowSize'
  BY DEF NextRoom, TraceInv, AnswerIsWindowSize
<1>8. EarlyInv'
  BY Boundaries DEF NextRoom, EarlyInv, Boundary
<1> QED
  BY <1>1, <1>2, <1>6, <1>7, <1>8 DEF RoomInv

\* Nothing happens.
LEMMA StutterRoom == RoomInv /\ UNCHANGED roomVars => RoomInv'
<1> SUFFICES ASSUME RoomInv, UNCHANGED roomVars PROVE RoomInv'
  OBVIOUS
<1>1. ShareInv'
  BY OtherSteps DEF RoomInv
<1>2. /\ UNCHANGED fileVars
      /\ UNCHANGED <<nth, lengths, phase, eps, end, i, verdicts, table, cenVerdict, answers>>
  BY DEF roomVars, fileVars
<1>3. FilesInv' /\ TraceMissing' = TraceMissing /\ Assembled' = Assembled
  BY <1>2, FilesSame DEF RoomInv
<1>4. /\ numMonitor' = numMonitor /\ Indices' = Indices /\ TraceLength' = TraceLength
      /\ Traced' = Traced /\ numbered' = numbered /\ dists' = dists
      /\ SwitchEndsEarly' = SwitchEndsEarly /\ numSwitch' = numSwitch
      /\ Survived(TraceLength)' = Survived(TraceLength) /\ Survived(end)' = Survived(end)
  BY <1>2, RoomSame
<1>5. LoopsInv'
  BY <1>2, <1>4 DEF RoomInv, LoopsInv
<1>6. AnswerIsWindowSize'
  BY <1>2, <1>4 DEF RoomInv, AnswerIsWindowSize
<1>7. TraceInv'
  BY <1>2, <1>3, <1>4 DEF RoomInv, TraceInv
<1>8. EarlyInv'
  <2>1. Survived(end - SegLength)' = Survived(end - SegLength)
    BY <1>2, <1>4 DEF Survived, Boundary
  <2>2. Boundary(end)' = Boundary(end)
    BY <1>2 DEF Boundary
  <2> QED
    BY <1>2, <1>4, <2>1, <2>2 DEF RoomInv, EarlyInv
<1> QED
  BY <1>1, <1>3, <1>5, <1>6, <1>7, <1>8 DEF RoomInv

\* The invariant of main().
LEMMA RoomAlwaysInv == RoomSpec => []RoomInv
<1>1. RoomInv /\ [RoomNext]_roomVars => RoomInv'
  BY SolvePairRoom, SolveCentralRoom, ShareVerdictRoom, SegmentRoom, AssembleRoom,
     FollowingRoom, StutterRoom DEF RoomNext, RoomStep
<1> QED
  BY <1>1, FirstRoom, PTL DEF RoomSpec

-----------------------------------------------------------------------------
\* The loops of main() keep every variable in its type and every counter
\* within the bound of its loop, numHbSet included.
THEOREM RoomTypeCorrect == RoomSpec => []RoomTypeOK
<1>1. RoomInv => RoomTypeOK
  <2> SUFFICES ASSUME RoomInv PROVE RoomTypeOK
    OBVIOUS
  <2>1. table.numHbSet \in 0 .. HbMax
    BY DEF RoomInv, LoopsInv, Tables
  <2>2. FilesTypeOK
    BY FilesTyped DEF RoomInv
  <2> QED
    BY <2>1, <2>2 DEF RoomInv, LoopsInv, ShareInv, FlagTypes, RoomTypeOK
<1> QED
  BY <1>1, RoomAlwaysInv, PTL

\* The central monitor's file has the lines of its formula's devices in the
\* formula's order, and the formula every device once, for any number of
\* switches and lights, files missing or not (main.cpp 350-383).
THEOREM CentralFileMatches == RoomSpec => []CentralMatchesFormula
<1>1. RoomInv => CentralMatchesFormula
  BY FormulaOnce DEF RoomInv
<1> QED
  BY <1>1, RoomAlwaysInv, PTL

\* Every switch meets every light in exactly one monitor.
THEOREM PairsSetUpOnce == RoomSpec => []EachPairOnce
<1>1. RoomInv => EachPairOnce
  BY PairsOnce DEF RoomInv
<1> QED
  BY <1>1, RoomAlwaysInv, PTL

\* The answer a switch-light monitor gets from solveSMT (main.cpp 421-427)
\* tells the size of the window and nothing else.
THEOREM PairAnswersAreSizes == RoomSpec => []AnswerIsWindowSize
<1>1. RoomInv => AnswerIsWindowSize
  BY DEF RoomInv
<1> QED
  BY <1>1, RoomAlwaysInv, PTL

\* bv_sort(0) ends the program in rooms with a missing trace or a switch
\* whose trace is gone where a segment of the first one begins, and in no
\* other, whatever the lengths of the traces are (main.cpp 159, 207, 411).
THEOREM AbortsAreEmptyWindows == RoomSpec => []AbortsJustOnEmptyWindow
<1>1. RoomInv => AbortsJustOnEmptyWindow
  <2> SUFFICES ASSUME RoomInv PROVE AbortsJustOnEmptyWindow
    OBVIOUS
  <2>1. ASSUME phase = "done", TraceLength > 0 PROVE ~ TraceMissing /\ ~ SwitchEndsEarly
    <3>1. FilesInv /\ LoopsInv /\ Assembled /\ ~ TraceMissing /\ Survived(TraceLength)
      BY <2>1 DEF RoomInv, TraceInv, EarlyInv
    <3>2. numMonitor > 0
      BY <2>1, <3>1, TraceNeedsPairs
    <3> QED
      BY <3>1, <3>2, EarlyIs
  <2> QED
    BY <2>1 DEF RoomInv, TraceInv, AbortsJustOnEmptyWindow
<1> QED
  BY <1>1, RoomAlwaysInv, PTL
=============================================================================
