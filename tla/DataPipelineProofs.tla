------------------------- MODULE DataPipelineProofs -------------------------
(***************************************************************************)
(* What the alignment scripts promise, for any rooms, items, times and     *)
(* values: types; tables made from a room's own helpers are aligned; with  *)
(* a client that stops at errors all tables are, and all of them come from *)
(* one run unless helpers are dropped by hand.  Then what the export makes *)
(* of them, for any database and any queries that fail or crash.           *)
(***************************************************************************)
EXTENDS DataPipeline, Induction, FiniteSetTheorems

\* An entry of a room names an item.
LEMMA ItemTyped ==
  ASSUME NEW r \in Rooms, NEW e \in Entries(r)
  PROVE  Item(r, e) \in Items
BY DEF Items

\* The rows of a helper table are numbers.
LEMMA FillTyped ==
  ASSUME recorded \in [Items -> Counts],
         NEW r \in Rooms, NEW e \in Entries(r), NEW t \in Times
  PROVE  Fill(r, e, t) \in Nat
<1> DEFINE having == {o \in Entries(r) \ {e} : recorded[Item(r, o)][t] > 0}
<1>1. CASE having = {}
  BY <1>1 DEF Fill
<1>2. CASE having # {}
  <2>1. (CHOOSE o \in having : TRUE) \in having
    BY <1>2
  <2>2. recorded[Item(r, CHOOSE o \in having : TRUE)][t] \in Nat
    BY <2>1, ItemTyped DEF Counts
  <2> QED
    BY <2>2 DEF Fill
<1> QED
  BY <1>1, <1>2

\* The item of an entry and the helper of that entry together have every time
\* of the room, and none twice if the items have distinct times: the case of
\* a single select, which keeps duplicates, included.
LEMMA FillAligns ==
  ASSUME recorded \in [Items -> Counts],
         NEW r \in Rooms, NEW e \in Entries(r), NEW table,
         table.own = recorded[Item(r, e)],
         table.fill = [t \in Times |-> Fill(r, e, t)]
  PROVE  Aligned(r, table)
<1> SUFFICES ASSUME NEW t \in Times
             PROVE  /\ table.own[t] + table.fill[t] > 0 <=> RoomHas(r, t)
                    /\ table.fill[t] = 0 \/ table.own[t] = 0
                    /\ DistinctTimes(r) => table.own[t] + table.fill[t] <= 1
  BY DEF Aligned
<1> DEFINE having == {o \in Entries(r) \ {e} : recorded[Item(r, o)][t] > 0}
<1> DEFINE own == recorded[Item(r, e)][t]
<1>1. /\ table.own[t] = own
      /\ table.fill[t] = Fill(r, e, t)
  OBVIOUS
<1>2. own \in Nat
  BY ItemTyped DEF Counts
<1>3. CASE own > 0
  <2>1. Fill(r, e, t) = 0
    BY <1>3 DEF Fill
  <2>2. RoomHas(r, t)
    BY <1>3 DEF RoomHas
  <2>3. DistinctTimes(r) => own <= 1
    BY DEF DistinctTimes
  <2> QED
    BY <1>1, <1>2, <1>3, <2>1, <2>2, <2>3
<1>4. CASE own = 0 /\ having = {}
  <2>1. Fill(r, e, t) = 0
    BY <1>4 DEF Fill
  <2>2. ~ RoomHas(r, t)
    BY <1>4 DEF RoomHas
  <2> QED
    BY <1>1, <1>4, <2>1, <2>2
<1>5. CASE own = 0 /\ having # {}
  <2> DEFINE one == CHOOSE o \in having : TRUE
  <2>1. one \in having
    BY <1>5
  <2>2. one \in Entries(r) /\ recorded[Item(r, one)][t] > 0
    BY <2>1
  <2>3. recorded[Item(r, one)][t] \in Nat
    BY <2>2, ItemTyped DEF Counts
  <2>4. RoomHas(r, t)
    BY <2>2 DEF RoomHas
  <2>5. Fill(r, e, t) \in {1, recorded[Item(r, one)][t]}
    BY <1>5 DEF Fill
  <2>6. DistinctTimes(r) => recorded[Item(r, one)][t] <= 1
    BY <2>2 DEF DistinctTimes
  <2> HIDE DEF one
  <2> QED
    BY <1>1, <1>5, <2>2, <2>3, <2>4, <2>5, <2>6
<1> QED
  BY <1>2, <1>3, <1>4, <1>5

-----------------------------------------------------------------------------
\* Every step of a script keeps the types.
THEOREM ScriptsTyped == AlignSpec => []AlignTypeOK
<1>1. AlignInit => AlignTypeOK
  <2> SUFFICES ASSUME AlignInit PROVE AlignTypeOK
    OBVIOUS
  <2>1. recorded \in [Items -> Counts]
    <3>1. 0 .. MaxCopies \subseteq Nat
      BY AlignmentAssumption
    <3>2. [Times -> 0 .. MaxCopies] \subseteq Counts
      BY <3>1 DEF Counts
    <3> QED
      BY <3>2 DEF AlignInit
  <2>2. room \in Rooms
    BY AlignmentAssumption DEF AlignInit
  <2>3. k \in Entries(room)
    BY <2>2, AlignmentAssumption DEF AlignInit, Entries
  <2>4. DOMAIN helpers = {} /\ DOMAIN outputs = {}
    BY DEF AlignInit
  <2> QED
    BY <2>1, <2>2, <2>3, <2>4 DEF AlignInit, AlignTypeOK, Stages
<1>2. AlignTypeOK /\ [ScriptStep]_alignVars => AlignTypeOK'
  <2> SUFFICES ASSUME AlignTypeOK, [ScriptStep]_alignVars
               PROVE  AlignTypeOK'
    OBVIOUS
  <2>0. \A r \in Rooms : Len(Script[r]) \in Nat \ {0}
    BY AlignmentAssumption
  <2>1. Advance => room' \in Rooms /\ stage' \in Stages /\ k' \in Entries(room')
                   /\ run' \in Nat /\ dropped' \in BOOLEAN
    BY <2>0 DEF Advance, AlignTypeOK, Stages, Entries, LastEntry
  <2>2. CASE StartScript
    BY <2>0, <2>2 DEF StartScript, tableVars, AlignTypeOK, Stages, Entries
  <2>3. CASE UpdateValues
    <3>1. binary' \subseteq Items
      BY <2>3, ItemTyped DEF UpdateValues, AlignTypeOK
    <3> QED
      BY <2>1, <2>3, <3>1 DEF UpdateValues, AlignTypeOK
  <2>4. CASE CreateHelper
    <3>1. [t \in Times |-> Fill(room, k, t)] \in Counts
      BY FillTyped DEF AlignTypeOK, Counts
    <3>2. \A h \in DOMAIN helpers' :
            helpers'[h] \in [rows : Counts, value : BOOLEAN, room : Rooms, run : Nat]
      BY <2>4, <3>1 DEF CreateHelper, Created, AlignTypeOK
    <3> QED
      BY <2>1, <2>4, <3>2 DEF CreateHelper, AlignTypeOK
  <2>5. CASE AddValueColumn
    <3>1. \A h \in DOMAIN helpers' :
            helpers'[h] \in [rows : Counts, value : BOOLEAN, room : Rooms, run : Nat]
      BY <2>5 DEF AddValueColumn, AlignTypeOK
    <3> QED
      BY <2>1, <2>5, <3>1 DEF AddValueColumn, AlignTypeOK
  <2>6. CASE CreateOutput
    <3>1. recorded[Item(room, k)] \in Counts
      BY ItemTyped DEF AlignTypeOK
    <3>2. helpers[k].rows \in Counts /\ helpers[k].room \in Rooms
      BY <2>6 DEF CreateOutput, AlignTypeOK
    <3>3. \A o \in DOMAIN outputs' :
            outputs'[o] \in [own : Counts, fill : Counts, binary : BOOLEAN,
                             room : Rooms, run : Nat]
      BY <2>6, <3>1, <3>2 DEF CreateOutput, Created, AlignTypeOK
    <3> QED
      BY <2>1, <2>6, <3>3 DEF CreateOutput, AlignTypeOK
  <2>7. CASE StopScript
    BY <2>0, <2>7 DEF StopScript, tableVars, AlignTypeOK, Stages, Entries
  <2>8. CASE SkipStatement
    BY <2>1, <2>8 DEF SkipStatement, tableVars, AlignTypeOK
  <2>9. CASE DropHelpers
    BY <2>9 DEF DropHelpers, AlignTypeOK
  <2>10. CASE UNCHANGED alignVars
    BY <2>10 DEF alignVars, AlignTypeOK
  <2> QED
    BY <2>2, <2>3, <2>4, <2>5, <2>6, <2>7, <2>8, <2>9, <2>10 DEF ScriptStep
<1> QED
  BY <1>1, <1>2, PTL DEF AlignSpec

-----------------------------------------------------------------------------
\* A helper table is that of an entry of the room that made it.
HelpersFill ==
  \A h \in DOMAIN helpers :
    /\ h \in Entries(helpers[h].room)
    /\ helpers[h].rows = [t \in Times |-> Fill(helpers[h].room, h, t)]

\* A device table has the rows of its item, and if its helper was made for
\* the same room, the right rows of 0.
OutputsFilled ==
  \A o \in DOMAIN outputs :
    /\ o[1] \in Rooms
    /\ o[2] \in Entries(o[1])
    /\ outputs[o].own = recorded[Item(o[1], o[2])]
    /\ outputs[o].room = o[1] =>
         outputs[o].fill = [t \in Times |-> Fill(o[1], o[2], t)]

\* A client that stops at errors is past CREATE t<k> only with a helper of
\* this room, and past the UPDATEs only with all items converted that can be.
NothingSkipped ==
  skipped = 0 =>
    /\ stage \in {"alter", "output"} => k \in DOMAIN helpers /\ helpers[k].room = room
    /\ stage = "update" =>
         \A e \in Entries(room) : e < k => Item(room, e) \in binary \cup Dimmed
    /\ stage \in {"create", "alter", "output"} =>
         \A e \in Entries(room) : Item(room, e) \in binary \cup Dimmed
    /\ \A o \in DOMAIN outputs :
         outputs[o].room = o[1] /\ (outputs[o].binary \/ Item(o[1], o[2]) \in Dimmed)

TablesInv == AlignTypeOK /\ HelpersFill /\ OutputsFilled /\ NothingSkipped

\* The recorded values, and with them Fill, never change.
LEMMA RecordedFixed ==
  ASSUME [ScriptStep]_alignVars
  PROVE  recorded' = recorded
BY DEF ScriptStep, alignVars, tableVars, StartScript, UpdateValues, CreateHelper,
       AddValueColumn, CreateOutput, StopScript, SkipStatement, DropHelpers

LEMMA FillFixed ==
  ASSUME recorded' = recorded, NEW r, NEW e, NEW t
  PROVE  Fill(r, e, t)' = Fill(r, e, t)
BY DEF Fill

\* The tables are as the invariant says, whatever is interrupted or repeated.
LEMMA TablesInvariant == AlignSpec => []TablesInv
<1>1. AlignInit => HelpersFill /\ OutputsFilled /\ NothingSkipped
  BY DEF AlignInit, HelpersFill, OutputsFilled, NothingSkipped
<1>2. TablesInv /\ AlignTypeOK' /\ [ScriptStep]_alignVars => TablesInv'
  <2> SUFFICES ASSUME TablesInv, AlignTypeOK', [ScriptStep]_alignVars
               PROVE  HelpersFill' /\ OutputsFilled' /\ NothingSkipped'
    BY DEF TablesInv
  <2> USE DEF TablesInv
  <2>0. recorded' = recorded /\ \A r, e, t : Fill(r, e, t)' = Fill(r, e, t)
    BY RecordedFixed, FillFixed
  <2>a. ASSUME UNCHANGED helpers
        PROVE  HelpersFill'
    BY <2>0, <2>a DEF HelpersFill
  <2>b. ASSUME UNCHANGED outputs
        PROVE  OutputsFilled'
    BY <2>0, <2>b DEF OutputsFilled
  <2>c. room \in Rooms /\ k \in Entries(room) /\ Len(Script[room]) \in Nat
    BY AlignmentAssumption DEF AlignTypeOK
  <2>1. CASE StartScript
    <3>1. NothingSkipped'
      BY <2>1, AlignmentAssumption DEF StartScript, tableVars, NothingSkipped, Entries
    <3> QED
      BY <2>1, <2>a, <2>b, <3>1 DEF StartScript, tableVars
  <2>2. CASE UpdateValues
    <3>1. NothingSkipped'
      BY <2>2, <2>c DEF UpdateValues, Advance, LastEntry, NothingSkipped, Entries
    <3> QED
      BY <2>2, <2>a, <2>b, <3>1 DEF UpdateValues
  <2>3. CASE CreateHelper
    <3>1. HelpersFill'
      BY <2>0, <2>3, <2>c, ZenonT(30) DEF CreateHelper, Created, HelpersFill
    <3>2. NothingSkipped'
      BY <2>3, <2>c DEF CreateHelper, Created, MayCreate, Advance, NothingSkipped
    <3> QED
      BY <2>3, <2>b, <3>1, <3>2 DEF CreateHelper
  <2>4. CASE AddValueColumn
    <3>0. /\ DOMAIN helpers' = DOMAIN helpers
          /\ \A h \in DOMAIN helpers : /\ helpers'[h].room = helpers[h].room
                                       /\ helpers'[h].rows = helpers[h].rows
      BY <2>4 DEF AddValueColumn, AlignTypeOK
    <3>1. HelpersFill'
      BY <2>0, <3>0 DEF HelpersFill
    <3>2. NothingSkipped'
      BY <2>4, <3>0 DEF AddValueColumn, Advance, NothingSkipped
    <3> QED
      BY <2>4, <2>b, <3>1, <3>2 DEF AddValueColumn
  <2>5. CASE CreateOutput
    <3>0. k \in DOMAIN helpers
      BY <2>5 DEF CreateOutput
    <3>1. OutputsFilled'
      <4> SUFFICES ASSUME NEW o \in DOMAIN outputs'
                   PROVE  /\ o[1] \in Rooms
                          /\ o[2] \in Entries(o[1])
                          /\ outputs'[o].own = recorded[Item(o[1], o[2])]
                          /\ outputs'[o].room = o[1] =>
                               outputs'[o].fill = [t \in Times |-> Fill(o[1], o[2], t)]
        BY <2>0 DEF OutputsFilled
      <4>1. CASE o \in DOMAIN outputs
        BY <2>5, <4>1 DEF CreateOutput, Created, OutputsFilled
      <4>2. CASE o \notin DOMAIN outputs
        <5>1. /\ o = <<room, k>>
              /\ outputs'[o] = [own |-> recorded[Item(room, k)], fill |-> helpers[k].rows,
                                binary |-> Item(room, k) \in binary,
                                room |-> helpers[k].room, run |-> run]
          BY <2>5, <4>2 DEF CreateOutput, Created
        <5>2. helpers[k].rows = [t \in Times |-> Fill(helpers[k].room, k, t)]
          BY <3>0 DEF HelpersFill
        <5> QED
          BY <2>c, <5>1, <5>2
      <4> QED
        BY <4>1, <4>2
    <3>2. NothingSkipped'
      <4>1. ASSUME skipped = 0
            PROVE  \A o \in DOMAIN outputs' :
                     outputs'[o].room = o[1] /\ (outputs'[o].binary \/ Item(o[1], o[2]) \in Dimmed)
        <5> SUFFICES ASSUME NEW o \in DOMAIN outputs'
                     PROVE  outputs'[o].room = o[1]
                            /\ (outputs'[o].binary \/ Item(o[1], o[2]) \in Dimmed)
          OBVIOUS
        <5>1. CASE o \in DOMAIN outputs
          BY <2>5, <4>1, <5>1 DEF CreateOutput, Created, NothingSkipped
        <5>2. CASE o \notin DOMAIN outputs
          <6>1. /\ o = <<room, k>>
                /\ outputs'[o].room = helpers[k].room
                /\ outputs'[o].binary = (Item(room, k) \in binary)
            BY <2>5, <5>2 DEF CreateOutput, Created
          <6>2. helpers[k].room = room /\ Item(room, k) \in binary \cup Dimmed
            BY <2>5, <2>c, <4>1 DEF CreateOutput, NothingSkipped
          <6>3. o[1] = room /\ o[2] = k
            BY <6>1
          <6> QED
            BY <6>1, <6>2, <6>3
        <5> QED
          BY <5>1, <5>2
      <4> QED
        BY <2>5, <4>1 DEF CreateOutput, Advance, NothingSkipped
    <3> QED
      BY <2>5, <2>a, <3>1, <3>2 DEF CreateOutput
  <2>6. CASE StopScript
    BY <2>6, <2>a, <2>b DEF StopScript, tableVars, NothingSkipped
  <2>7. CASE SkipStatement
    BY <2>7, <2>a, <2>b DEF SkipStatement, tableVars, NothingSkipped, AlignTypeOK
  <2>8. CASE DropHelpers
    <3>1. HelpersFill'
      BY <2>0, <2>8 DEF DropHelpers, HelpersFill
    <3> QED
      BY <2>8, <2>b, <3>1 DEF DropHelpers, NothingSkipped
  <2>9. CASE UNCHANGED alignVars
    BY <2>9, <2>a, <2>b DEF alignVars, NothingSkipped
  <2> QED
    BY <2>1, <2>2, <2>3, <2>4, <2>5, <2>6, <2>7, <2>8, <2>9 DEF ScriptStep
<1> QED
  BY <1>1, <1>2, ScriptsTyped, PTL DEF AlignSpec, TablesInv

\* A device table made from its own room's helper is aligned (the scripts'
\* CREATE TABLE ... NOT IN ..., UNION ALL), however the scripts were run.
THEOREM OwnHelpersAlign == AlignSpec => []OwnHelperAligns
<1>1. TablesInv => OwnHelperAligns
  BY FillAligns DEF TablesInv, AlignTypeOK, OutputsFilled, OwnHelperAligns
<1> QED
  BY <1>1, TablesInvariant, PTL

\* With a client that stops at errors every device table is aligned and has
\* converted values, unless its item has a value no UPDATE names.
THEOREM TablesAligned == AlignSpec => []AlignedUnlessSkipped
<1>1. TablesInv => AlignedUnlessSkipped
  BY FillAligns, ZenonT(30)
     DEF TablesInv, AlignTypeOK, OutputsFilled, NothingSkipped, AlignedUnlessSkipped
<1> QED
  BY <1>1, TablesInvariant, PTL

-----------------------------------------------------------------------------
\* While nothing was dropped and no error passed over, t1 exists as soon as
\* any table does, and its run made them all; a script past CREATE t1 is that
\* run.
FromOneRun ==
  skipped = 0 /\ ~ dropped =>
    /\ \A h \in DOMAIN helpers : 1 \in DOMAIN helpers /\ helpers[h].run = helpers[1].run
    /\ \A o \in DOMAIN outputs : 1 \in DOMAIN helpers /\ outputs[o].run = helpers[1].run
    /\ stage \in {"alter", "output"} \/ (stage = "create" /\ k > 1) =>
         1 \in DOMAIN helpers /\ helpers[1].run = run

\* Scripts never drop their helper tables (entrance.sql 5-14), so all tables
\* of a database come from one run.
THEOREM TablesFromOneRun == AlignSpec => []OneRunMakesTables
<1>1. AlignInit => FromOneRun
  BY DEF AlignInit, FromOneRun
<1>2. AlignTypeOK /\ FromOneRun /\ [ScriptStep]_alignVars => FromOneRun'
  <2> SUFFICES ASSUME AlignTypeOK, FromOneRun, [ScriptStep]_alignVars
               PROVE  FromOneRun'
    OBVIOUS
  <2>0. k \in Nat \ {0} /\ (stage = "create" => k = 1 \/ k > 1)
    BY DEF AlignTypeOK, Entries
  <2>1. CASE StartScript
    BY <2>1 DEF StartScript, tableVars, FromOneRun
  <2>2. CASE UpdateValues
    BY <2>2 DEF UpdateValues, Advance, FromOneRun
  <2>3. CASE CreateHelper
    <3>1. CASE k = 1
      <4>1. skipped = 0 /\ ~ dropped => DOMAIN helpers = {} /\ DOMAIN outputs = {}
        BY <2>3, <3>1 DEF CreateHelper, MayCreate, FromOneRun
      <4> QED
        BY <2>3, <3>1, <4>1 DEF CreateHelper, Created, Advance, FromOneRun
    <3>2. CASE k > 1
      BY <2>3, <3>2 DEF CreateHelper, Created, Advance, FromOneRun
    <3> QED
      BY <2>0, <2>3, <3>1, <3>2 DEF CreateHelper
  <2>4. CASE AddValueColumn
    <3>1. /\ DOMAIN helpers' = DOMAIN helpers
          /\ \A h \in DOMAIN helpers : helpers'[h].run = helpers[h].run
      BY <2>4 DEF AddValueColumn, AlignTypeOK
    <3> QED
      BY <2>4, <3>1 DEF AddValueColumn, Advance, FromOneRun
  <2>5. CASE CreateOutput
    BY <2>5 DEF CreateOutput, Created, Advance, FromOneRun
  <2>6. CASE StopScript
    BY <2>6 DEF StopScript, tableVars, FromOneRun
  <2>7. CASE SkipStatement
    BY <2>7 DEF SkipStatement, FromOneRun, AlignTypeOK
  <2>8. CASE DropHelpers
    BY <2>8 DEF DropHelpers, FromOneRun
  <2>9. CASE UNCHANGED alignVars
    BY <2>9 DEF alignVars, FromOneRun
  <2> QED
    BY <2>1, <2>2, <2>3, <2>4, <2>5, <2>6, <2>7, <2>8, <2>9 DEF ScriptStep
<1>3. FromOneRun => OneRunMakesTables
  <2> SUFFICES ASSUME FromOneRun, skipped = 0, ~ dropped
               PROVE  Cardinality({helpers[h].run : h \in DOMAIN helpers} \cup
                                  {outputs[o].run : o \in DOMAIN outputs}) <= 1
    BY DEF OneRunMakesTables
  <2> DEFINE runs == {helpers[h].run : h \in DOMAIN helpers} \cup
                     {outputs[o].run : o \in DOMAIN outputs}
  <2>1. runs \subseteq {helpers[1].run}
    BY DEF FromOneRun
  <2>2. IsFiniteSet({helpers[1].run}) /\ Cardinality({helpers[1].run}) = 1
    BY FS_Singleton
  <2> HIDE DEF runs
  <2>3. Cardinality(runs) <= 1
    BY <2>1, <2>2, FS_Subset
  <2> QED
    BY <2>3 DEF runs
<1> QED
  BY <1>1, <1>2, <1>3, ScriptsTyped, PTL DEF AlignSpec
-----------------------------------------------------------------------------
(***************************************************************************)
(* The export: names, rows and files stay together.                        *)
(***************************************************************************)

NoLines == Export!NoLines

\* The lines the file of the j-th table is to have.
Expected(j) ==
  IF tables[j] \in failed THEN NoLines
  ELSE [header |-> tables[j],
        rows |-> IF tables[j] \in lost THEN <<>> ELSE Database[tables[j]]]

\* The two counters agree while the queries run, entries not reached yet are
\* empty, and all files written so far are those of their tables.
ExportInv ==
  /\ tables \in Seq(TableNames)
  /\ \A a, b \in 1 .. Len(tables) : tables[a] = tables[b] => a = b
  /\ i \in Nat \ {0}
  /\ step \in {"idle", "show"} => i = 1 /\ pos = 1 /\ failed = {} /\ lost = {}
  /\ step \in {"query", "write"} =>
       details = [j \in 1 .. Len(tables) |-> details[j]]
  /\ step = "query" =>
       /\ i = pos
       /\ \A j \in 1 .. Len(tables) :
            IF j < pos THEN details[j] = Expected(j)
            ELSE details[j] = NoLines /\ tables[j] \notin failed \cup lost
  /\ step = "write" =>
       /\ i <= Len(tables) + 1
       /\ \A j \in 1 .. Len(tables) : details[j] = Expected(j)
  /\ FilesMatchTables

\* While an export runs the database is not changed.
LEMMA DatabaseFixed ==
  ASSUME UNCHANGED alignVars
  PROVE  Database' = Database
BY DEF alignVars, Database

\* A table whose query has not failed meanwhile is expected to be the same.
LEMMA ExpectedFixed ==
  ASSUME UNCHANGED <<tables, failed, lost>>, UNCHANGED alignVars, NEW j
  PROVE  Expected(j)' = Expected(j)
BY DatabaseFixed DEF Expected, NoLines, Export!NoLines

\* The property in terms of Expected.
LEMMA FilesMatchExpected ==
  FilesMatchTables <=>
    (step = "write" =>
       \A j \in 1 .. i - 1 : tables[j] \in DOMAIN files /\ files[tables[j]] = Expected(j))
BY DEF FilesMatchTables, Export!FilesMatchTables, Expected, NoLines

LEMMA FilesMatchExpectedNext ==
  FilesMatchTables' <=>
    (step' = "write" =>
       \A j \in 1 .. i' - 1 : tables'[j] \in DOMAIN files' /\ files'[tables'[j]] = Expected(j)')
BY DEF FilesMatchTables, Export!FilesMatchTables, Expected, NoLines

\* The steps of the export, one by one.
LEMMA ShowTablesStep == ExportInv /\ UNCHANGED alignVars /\ Export!ShowTables => ExportInv'
<1> SUFFICES ASSUME ExportInv, UNCHANGED alignVars, Export!ShowTables PROVE ExportInv'
  OBVIOUS
<1>1. /\ step = "show" /\ step' = "query" /\ UNCHANGED <<pos, i, failed, lost>>
      /\ tables' \in Listings \/ tables' = <<>>
      /\ details' = [j \in 1 .. Len(tables') |-> NoLines]
  BY DEF Export!ShowTables, NoLines
<1>2. i = 1 /\ pos = 1 /\ failed = {} /\ lost = {}
  BY <1>1 DEF ExportInv
<1>3. /\ tables' \in Seq(TableNames)
      /\ \A a, b \in 1 .. Len(tables') : tables'[a] = tables'[b] => a = b
  BY <1>1, PipelineAssumption
<1>4. FilesMatchTables'
  BY <1>1, FilesMatchExpectedNext
<1>5. NoLines' = NoLines
  BY DEF NoLines, Export!NoLines
<1> QED
  BY <1>1, <1>2, <1>3, <1>4, <1>5 DEF ExportInv

\* A query moves both counters on and leaves the other tables' entries alone.
LEMMA QueriedStep ==
  ASSUME ExportInv, UNCHANGED alignVars, NEW p, p = pos, step = "query", UNCHANGED <<step, tables>>,
         pos <= Len(tables), pos' = pos + 1, i' = i + 1,
         details' = [j \in 1 .. Len(tables) |-> details'[j]],
         \A j \in 1 .. Len(tables) : j # p => details'[j] = details[j],
         \A x : x # tables[p] => (x \in failed' <=> x \in failed) /\ (x \in lost' <=> x \in lost),
         details'[p] = Expected(p)'
  PROVE  ExportInv'
<1>1. /\ i = pos /\ i \in Nat \ {0} /\ tables \in Seq(TableNames)
      /\ pos \in 1 .. Len(tables)
      /\ \A a, b \in 1 .. Len(tables) : tables[a] = tables[b] => a = b
      /\ \A j \in 1 .. Len(tables) :
            IF j < pos THEN details[j] = Expected(j)
            ELSE details[j] = NoLines /\ tables[j] \notin failed \cup lost
  BY DEF ExportInv
<1>2. Database' = Database /\ NoLines' = NoLines
  BY DatabaseFixed DEF NoLines, Export!NoLines
<1>3. \A j \in 1 .. Len(tables) : j # p =>
        /\ Expected(j)' = Expected(j)
        /\ tables[j] \in failed' \cup lost' <=> tables[j] \in failed \cup lost
  <2> SUFFICES ASSUME NEW j \in 1 .. Len(tables), j # p
               PROVE  /\ Expected(j)' = Expected(j)
                      /\ tables[j] \in failed' \cup lost' <=> tables[j] \in failed \cup lost
    OBVIOUS
  <2>1. tables[j] # tables[p]
    BY <1>1
  <2>2. (tables[j] \in failed' <=> tables[j] \in failed) /\ (tables[j] \in lost' <=> tables[j] \in lost)
    BY <2>1
  <2> QED
    BY <1>2, <2>2 DEF Expected
<1>4. \A j \in 1 .. Len(tables) :
         IF j < pos' THEN details'[j] = Expected(j)'
         ELSE details'[j] = NoLines /\ tables[j] \notin failed' \cup lost'
  <2> SUFFICES ASSUME NEW j \in 1 .. Len(tables)
               PROVE  IF j < pos + 1 THEN details'[j] = Expected(j)'
                      ELSE details'[j] = NoLines /\ tables[j] \notin failed' \cup lost'
    OBVIOUS
  <2>1. CASE j = p
    BY <1>1, <2>1
  <2>2. CASE j < p
    <3>1. details'[j] = details[j] /\ details[j] = Expected(j) /\ Expected(j)' = Expected(j)
      BY <1>1, <1>3, <2>2
    <3> QED
      BY <1>1, <2>2, <3>1
  <2>3. CASE j > p
    BY <1>1, <1>3, <2>3
  <2> QED
    BY <1>1, <2>1, <2>2, <2>3
<1>5. FilesMatchTables'
  BY FilesMatchExpectedNext
<1> QED
  BY <1>1, <1>2, <1>4, <1>5 DEF ExportInv

\* What a query meets.
LEMMA QueryMeets ==
  ASSUME ExportInv, Export!Querying
  PROVE  /\ step = "query" /\ i = pos /\ pos \in 1 .. Len(tables) /\ pos <= Len(tables)
         /\ details = [j \in 1 .. Len(tables) |-> details[j]]
         /\ details[pos] = NoLines /\ tables[pos] \notin failed /\ tables[pos] \notin lost
BY DEF ExportInv, Export!Querying

LEMMA QueryTableStep == ExportInv /\ UNCHANGED alignVars /\ Export!QueryTable => ExportInv'
<1> SUFFICES ASSUME ExportInv, UNCHANGED alignVars, Export!QueryTable PROVE ExportInv'
  OBVIOUS
<1>1. /\ Export!Querying /\ UNCHANGED <<step, tables, failed, lost>>
      /\ details' = [details EXCEPT ![i] = [header |-> tables[pos],
                                            rows |-> Database[tables[pos]]]]
      /\ pos' = pos + 1 /\ i' = i + 1
  BY DEF Export!QueryTable
<1>2. /\ step = "query" /\ i = pos /\ pos \in 1 .. Len(tables) /\ pos <= Len(tables)
      /\ details = [j \in 1 .. Len(tables) |-> details[j]]
      /\ tables[pos] \notin failed /\ tables[pos] \notin lost
  BY <1>1, QueryMeets
<1>3. details'[pos] = Expected(pos)
  BY <1>1, <1>2 DEF Expected
<1>4. PICK p : p = pos
  OBVIOUS
<1>5. details'[p] = Expected(p)'
  BY <1>1, <1>3, <1>4, ExpectedFixed
<1>6. /\ details' = [j \in 1 .. Len(tables) |-> details'[j]]
      /\ \A j \in 1 .. Len(tables) : j # p => details'[j] = details[j]
  BY <1>1, <1>2, <1>4
<1> QED
  BY <1>1, <1>2, <1>4, <1>5, <1>6, QueriedStep

LEMMA LostResultStep == ExportInv /\ UNCHANGED alignVars /\ Export!LostResult => ExportInv'
<1> SUFFICES ASSUME ExportInv, UNCHANGED alignVars, Export!LostResult PROVE ExportInv'
  OBVIOUS
<1>1. /\ Export!Querying /\ UNCHANGED <<step, tables, failed>>
      /\ lost' = lost \cup {tables[pos]}
      /\ details' = [details EXCEPT ![i] = [header |-> tables[pos], rows |-> <<>>]]
      /\ pos' = pos + 1 /\ i' = i + 1
  BY DEF Export!LostResult
<1>2. /\ step = "query" /\ i = pos /\ pos \in 1 .. Len(tables) /\ pos <= Len(tables)
      /\ details = [j \in 1 .. Len(tables) |-> details[j]]
      /\ tables[pos] \notin failed
  BY <1>1, QueryMeets
<1>3. PICK p : p = pos
  OBVIOUS
<1>4. details'[p] = Expected(p)'
  BY <1>1, <1>2, <1>3 DEF Expected
<1>5. /\ details' = [j \in 1 .. Len(tables) |-> details'[j]]
      /\ \A j \in 1 .. Len(tables) : j # p => details'[j] = details[j]
  BY <1>1, <1>2, <1>3
<1>6. \A x : x # tables[p] => (x \in failed' <=> x \in failed) /\ (x \in lost' <=> x \in lost)
  BY <1>1, <1>3
<1> QED
  BY <1>1, <1>2, <1>3, <1>4, <1>5, <1>6, QueriedStep

LEMMA QueryFailsStep == ExportInv /\ UNCHANGED alignVars /\ Export!QueryFails => ExportInv'
<1> SUFFICES ASSUME ExportInv, UNCHANGED alignVars, Export!QueryFails PROVE ExportInv'
  OBVIOUS
<1>1. /\ Export!Querying /\ UNCHANGED <<step, tables, details, lost>>
      /\ failed' = failed \cup {tables[pos]}
      /\ pos' = pos + 1 /\ i' = i + 1
  BY DEF Export!QueryFails, Export!AfterFailure
<1>2. /\ step = "query" /\ pos <= Len(tables) /\ details[pos] = NoLines
      /\ details = [j \in 1 .. Len(tables) |-> details[j]]
  BY <1>1, QueryMeets
<1>3. PICK p : p = pos
  OBVIOUS
<1>4. details'[p] = Expected(p)'
  BY <1>1, <1>2, <1>3 DEF Expected, NoLines, Export!NoLines
<1>5. \A x : x # tables[p] => (x \in failed' <=> x \in failed) /\ (x \in lost' <=> x \in lost)
  BY <1>1, <1>3
<1>6. /\ details' = [j \in 1 .. Len(tables) |-> details'[j]]
      /\ \A j \in 1 .. Len(tables) : j # p => details'[j] = details[j]
  BY <1>1, <1>2
<1> QED
  BY <1>1, <1>2, <1>3, <1>4, <1>5, <1>6, QueriedStep

LEMMA QueriesDoneStep == ExportInv /\ UNCHANGED alignVars /\ Export!QueriesDone => ExportInv'
<1> SUFFICES ASSUME ExportInv, UNCHANGED alignVars, Export!QueriesDone PROVE ExportInv'
  OBVIOUS
<1>1. /\ step = "query" /\ step' = "write" /\ UNCHANGED <<tables, details, failed, lost>>
      /\ pos > Len(tables) /\ i' = 1
  BY DEF Export!QueriesDone
<1>2. \A j : Expected(j)' = Expected(j)
  BY <1>1, ExpectedFixed
<1>3. i = pos /\ i \in Nat /\ Len(tables) \in Nat
  BY <1>1 DEF ExportInv
<1>4. \A j \in 1 .. Len(tables) : details'[j] = Expected(j)'
  BY <1>1, <1>2, <1>3 DEF ExportInv
<1>5. FilesMatchTables'
  BY <1>1, FilesMatchExpectedNext
<1> QED
  BY <1>1, <1>3, <1>4, <1>5 DEF ExportInv

LEMMA WriteFileStep == ExportInv /\ UNCHANGED alignVars /\ Export!WriteFile => ExportInv'
<1> SUFFICES ASSUME ExportInv, UNCHANGED alignVars, Export!WriteFile PROVE ExportInv'
  OBVIOUS
<1>1. /\ step = "write" /\ step' = "write" /\ UNCHANGED <<tables, details, failed, lost>>
      /\ i <= Len(details) /\ i' = i + 1
      /\ files' = [name \in DOMAIN files \cup {tables[i]} |->
                     IF name = tables[i] THEN details[i] ELSE files[name]]
  BY DEF Export!WriteFile
<1>2. \A j : Expected(j)' = Expected(j)
  BY <1>1, ExpectedFixed
<1>3. /\ i \in Nat \ {0} /\ Len(tables) \in Nat
      /\ \A a, b \in 1 .. Len(tables) : tables[a] = tables[b] => a = b
      /\ \A j \in 1 .. Len(tables) : details[j] = Expected(j)
      /\ details = [j \in 1 .. Len(tables) |-> details[j]]
  BY <1>1 DEF ExportInv
<1>4. i \in 1 .. Len(tables)
  <2>1. Len(details) = Len(tables)
    BY <1>3
  <2> QED
    BY <1>1, <1>3, <2>1
<1>5. \A j \in 1 .. i - 1 : tables[j] \in DOMAIN files /\ files[tables[j]] = Expected(j)
  BY <1>1, FilesMatchExpected DEF ExportInv
<1>6. \A j \in 1 .. i : tables[j] \in DOMAIN files' /\ files'[tables[j]] = Expected(j)
  <2> SUFFICES ASSUME NEW j \in 1 .. i
               PROVE  tables[j] \in DOMAIN files' /\ files'[tables[j]] = Expected(j)
    OBVIOUS
  <2>1. CASE j = i
    BY <1>1, <1>3, <1>4, <2>1
  <2>2. CASE j # i
    <3>1. j \in 1 .. i - 1 /\ j \in 1 .. Len(tables)
      BY <1>4, <2>2
    <3>2. tables[j] # tables[i]
      BY <1>3, <1>4, <2>2, <3>1
    <3> QED
      BY <1>1, <1>5, <3>1, <3>2
  <2> QED
    BY <2>1, <2>2
<1>7. FilesMatchTables'
  <2>1. i' - 1 = i
    BY <1>1, <1>3
  <2> QED
    BY <1>1, <1>2, <1>6, <2>1, FilesMatchExpectedNext
<1> QED
  BY <1>1, <1>2, <1>3, <1>4, <1>7 DEF ExportInv

\* Starting and ending an export, a crash, and everything the scripts do, leave the
\* program without a place in its loops.
LEMMA QuietStep ==
  ASSUME ExportInv,
         \/ RunScripts
         \/ UNCHANGED alignVars /\ (Export!Connect \/ Export!Crash \/ Export!EndExport)
         \/ UNCHANGED pipelineVars
  PROVE  ExportInv'
<1>1. CASE UNCHANGED pipelineVars
  <2>1. UNCHANGED alignVars /\ UNCHANGED <<step, tables, details, pos, i, files, failed, lost>>
    BY <1>1 DEF pipelineVars, alignVars
  <2>2. \A j : Expected(j)' = Expected(j)
    BY <2>1, ExpectedFixed
  <2>3. NoLines' = NoLines
    BY DEF NoLines, Export!NoLines
  <2>4. FilesMatchTables'
    BY <2>1, <2>2, FilesMatchExpected, FilesMatchExpectedNext DEF ExportInv
  <2> QED
    BY <2>1, <2>2, <2>3, <2>4 DEF ExportInv
<1>2. CASE RunScripts
  <2>1. step = "idle" /\ UNCHANGED <<step, tables, pos, i, failed, lost>>
    BY <1>2 DEF RunScripts
  <2>2. FilesMatchTables'
    BY <2>1, FilesMatchExpectedNext
  <2> QED
    BY <2>1, <2>2 DEF ExportInv
<1>3. CASE Export!Connect
  <2>1. step = "idle" /\ step' = "show" /\ UNCHANGED <<tables, pos, i, failed, lost>>
    BY <1>3 DEF Export!Connect
  <2>2. FilesMatchTables'
    BY <2>1, FilesMatchExpectedNext
  <2> QED
    BY <2>1, <2>2 DEF ExportInv
<1>4. CASE Export!Crash \/ Export!EndExport
  <2>1. step' = "idle" /\ tables' = <<>> /\ i' = 1 /\ pos' = 1 /\ failed' = {} /\ lost' = {}
    BY <1>4 DEF Export!Crash, Export!EndExport, Export!Gone
  <2>2. FilesMatchTables'
    BY <2>1, FilesMatchExpectedNext
  <2> QED
    BY <2>1, <2>2 DEF ExportInv
<1> QED
  BY <1>1, <1>2, <1>3, <1>4

\* The invariant of an export, with the scripts that run between exports.
LEMMA ExportAlwaysInv == PipelineSpec => []ExportInv
<1>1. PipelineInit => ExportInv
  <2> SUFFICES ASSUME PipelineInit PROVE ExportInv
    OBVIOUS
  <2>1. step = "idle" /\ tables = <<>> /\ i = 1 /\ pos = 1 /\ failed = {} /\ lost = {}
    BY DEF PipelineInit, Export!ExportInit
  <2>2. FilesMatchTables
    BY <2>1, FilesMatchExpected
  <2> QED
    BY <2>1, <2>2 DEF ExportInv
<1>2. ExportInv /\ [PipelineNext]_pipelineVars => ExportInv'
  BY ShowTablesStep, QueryTableStep, LostResultStep, QueryFailsStep, QueriesDoneStep,
     WriteFileStep, QuietStep
     DEF PipelineNext, RunExport, Export!ExportStep
<1> QED
  BY <1>1, <1>2, PTL DEF PipelineSpec

\* Every file the export of get_data.cpp has written is its table's, is empty
\* just when that table's query failed and has its name alone when its result
\* was lost; for any rooms, databases and orders of the tables, any failing
\* queries and any crashes.
THEOREM FilesAlwaysMatch == PipelineSpec => []FilesMatchTables
<1>1. ExportInv => FilesMatchTables
  BY DEF ExportInv
<1> QED
  BY <1>1, ExportAlwaysInv, PTL

-----------------------------------------------------------------------------
(***************************************************************************)
(* The files of a room's devices: whatever wrote them, they are the lines  *)
(* of device tables, and device tables never change once they exist.       *)
(***************************************************************************)

\* The pipeline does with the tables what the scripts alone do.
LEMMA PipelineAligns == PipelineSpec => []TablesInv
<1>1. PipelineInit => AlignInit
  BY DEF PipelineInit
<1>2. [PipelineNext]_pipelineVars => [ScriptStep]_alignVars
  BY DEF PipelineNext, RunScripts, RunExport, pipelineVars, alignVars
<1>3. PipelineSpec => AlignSpec
  BY <1>1, <1>2, PTL DEF PipelineSpec, AlignSpec
<1> QED
  BY <1>3, TablesInvariant, PTL

\* The lines of the device table o.
TableLines(o) == Lines(outputs[o].own, ValueOf(outputs[o].binary), outputs[o].fill)

\* A device file with values is that of the device table of its name.
FromTable(name, file) ==
  name[1] = "device" /\ file.rows # <<>> =>
    \E o \in DOMAIN outputs :
      /\ name[2] = o[1]
      /\ file.header[3] = o[2]
      /\ file.rows = TableLines(o)

\* The names of device tables are pairs; the export lists tables that exist;
\* and its files are from tables.
SourcesInv ==
  /\ \A o \in DOMAIN outputs : o = <<o[1], o[2]>>
  /\ step \in {"query", "write"} =>
       \A j \in 1 .. Len(tables) : tables[j] \in DOMAIN Database
  /\ \A name \in DOMAIN files : FromTable(name, files[name])

\* No statement changes a device table.
LEMMA OutputsKept ==
  ASSUME [ScriptStep]_alignVars, NEW o \in DOMAIN outputs
  PROVE  o \in DOMAIN outputs' /\ outputs'[o] = outputs[o]
BY DEF ScriptStep, alignVars, tableVars, StartScript, UpdateValues, CreateHelper,
       AddValueColumn, CreateOutput, Created, StopScript, SkipStatement, DropHelpers

\* So its lines stay the same.
LEMMA TableLinesKept ==
  ASSUME [ScriptStep]_alignVars, NEW o \in DOMAIN outputs
  PROVE  o \in DOMAIN outputs' /\ TableLines(o)' = TableLines(o)
BY OutputsKept DEF TableLines, Lines, ValueOf

\* What the export expects of a table is from a table.
LEMMA ExpectedFromTable ==
  ASSUME \A o \in DOMAIN outputs : o = <<o[1], o[2]>>,
         NEW j, tables[j] \in DOMAIN Database
  PROVE  FromTable(tables[j], Expected(j))
<1> DEFINE name == tables[j]
<1> SUFFICES ASSUME name[1] = "device", Expected(j).rows # <<>>
             PROVE  \E o \in DOMAIN outputs : /\ name[2] = o[1]
                                              /\ Expected(j).header[3] = o[2]
                                              /\ Expected(j).rows = TableLines(o)
  BY DEF FromTable
<1>1. Expected(j).header = name /\ Expected(j).rows = Database[name]
  BY DEF Expected, NoLines, Export!NoLines
<1>2. name \in {ItemTable(x) : x \in Items} \cup {HelperTable(h) : h \in DOMAIN helpers}
                \cup {DeviceTable(o) : o \in DOMAIN outputs}
  BY DEF Database
<1> HIDE DEF name
<1>3. name \notin {ItemTable(x) : x \in Items} /\ name \notin {HelperTable(h) : h \in DOMAIN helpers}
  BY DEF ItemTable, HelperTable
<1>4. PICK o \in DOMAIN outputs : name = DeviceTable(o)
  BY <1>2, <1>3
<1>5. name[1] = "device" /\ name[2] = o[1] /\ name[3] = o[2]
  BY <1>4 DEF DeviceTable
<1>6. <<name[2], name[3]>> = o
  BY <1>5
<1>7. Database[name] = TableLines(o)
  BY <1>2, <1>5, <1>6 DEF Database, TableLines
<1> QED
  BY <1>1, <1>5, <1>7

\* The files come from tables, whatever is interrupted, fails or is repeated.
LEMMA SourcesAlwaysInv == PipelineSpec => []SourcesInv
<1>1. PipelineInit => SourcesInv
  BY DEF PipelineInit, AlignInit, Export!ExportInit, SourcesInv
<1>2. ExportInv /\ SourcesInv /\ [PipelineNext]_pipelineVars => SourcesInv'
  <2> SUFFICES ASSUME ExportInv, SourcesInv, [PipelineNext]_pipelineVars PROVE SourcesInv'
    OBVIOUS
  <2>1. [ScriptStep]_alignVars
    BY DEF PipelineNext, RunScripts, RunExport, pipelineVars, alignVars
  <2>2. \A o \in DOMAIN outputs' : o = <<o[1], o[2]>>
    BY <2>1 DEF SourcesInv, ScriptStep, alignVars, tableVars, StartScript, UpdateValues,
         CreateHelper, AddValueColumn, CreateOutput, Created, StopScript, SkipStatement, DropHelpers
  <2>3. \A o \in DOMAIN outputs : o \in DOMAIN outputs' /\ TableLines(o)' = TableLines(o)
    BY <2>1, TableLinesKept
  <2>4. ASSUME step' \in {"query", "write"}
        PROVE  \A j \in 1 .. Len(tables') : tables'[j] \in DOMAIN Database'
    <3>1. CASE RunScripts
      BY <2>4, <3>1 DEF RunScripts, ScriptStep, SourcesInv
    <3>2. CASE UNCHANGED pipelineVars
      BY <2>4, <3>2, DatabaseFixed DEF pipelineVars, alignVars, SourcesInv
    <3>3. CASE RunExport
      BY <2>4, <3>3, DatabaseFixed
         DEF RunExport, SourcesInv, Export!ExportStep, Export!Connect, Export!ShowTables,
             Export!QueryTable, Export!LostResult, Export!QueryFails, Export!Querying,
             Export!QueriesDone, Export!WriteFile, Export!Crash, Export!EndExport, Export!Gone
    <3> QED
      BY <3>1, <3>2, <3>3 DEF PipelineNext
  <2>5. \A name \in DOMAIN files' : FromTable(name, files'[name])
    <3>1. CASE Export!WriteFile
      <4>1. /\ step = "write" /\ i <= Len(details)
            /\ files' = [name \in DOMAIN files \cup {tables[i]} |->
                           IF name = tables[i] THEN details[i] ELSE files[name]]
        BY <3>1 DEF Export!WriteFile
      <4>2. i \in 1 .. Len(tables) /\ details[i] = Expected(i)
        <5>1. details = [j \in 1 .. Len(tables) |-> details[j]] /\ Len(tables) \in Nat
              /\ i \in Nat \ {0} /\ \A j \in 1 .. Len(tables) : details[j] = Expected(j)
          BY <4>1 DEF ExportInv
        <5>2. Len(details) = Len(tables)
          BY <5>1
        <5> QED
          BY <4>1, <5>1, <5>2
      <4>3. FromTable(tables[i], details[i])
        BY <4>1, <4>2, ExpectedFromTable DEF SourcesInv
      <4> QED
        BY <4>1, <4>3 DEF SourcesInv
    <3>2. CASE UNCHANGED files
      BY <3>2 DEF SourcesInv
    <3>3. Export!WriteFile \/ UNCHANGED files
      BY DEF PipelineNext, RunScripts, RunExport, pipelineVars, Export!ExportStep, Export!Connect,
             Export!ShowTables, Export!QueryTable, Export!LostResult, Export!QueryFails,
             Export!QueriesDone, Export!Crash, Export!EndExport, Export!Gone
    <3> QED
      BY <3>1, <3>2, <3>3
  <2>6. (\A name \in DOMAIN files : FromTable(name, files[name]))'
    BY <2>3, <2>5 DEF FromTable
  <2> QED
    BY <2>2, <2>4, <2>6 DEF SourcesInv
<1> QED
  BY <1>1, <1>2, ExportAlwaysInv, PTL DEF PipelineSpec

\* Lines with a value v or 0, and pairs of them about the same moment.
Line(v) == [time : Nat, value : {v, "zero"}]
SameMoments(v, w) == {p \in Line(v) \X Line(w) : p[1].time = p[2].time}

\* The lines of two tables that have every time equally often are about the
\* same moments.
LEMMA LinesRelated ==
  ASSUME NEW v, NEW w,
         NEW a \in Counts, NEW b \in Counts, NEW c \in Counts, NEW d \in Counts,
         \A t \in Times : a[t] + b[t] = c[t] + d[t]
  PROVE  RelatedBy(SameMoments(v, w), Lines(a, v, b), Lines(c, w, d))
<1> DEFINE some == [time : Nat, value : {v, w, "zero"}]
           n == Cardinality(Times)
           cell(u, x, t, j) == [time |-> t, value |-> IF j <= x[t] THEN u ELSE "zero"]
           row(u, x, y, t) == [j \in 1 .. x[t] + y[t] |-> cell(u, x, t, j)]
           part(u, x, y) == [t \in 1 .. n |-> row(u, x, y, t)]
<1>1. n \in Nat /\ Times = 1 .. n
  BY PipelineAssumption, FS_CardinalityType
<1> HIDE DEF n
<1>2. ASSUME NEW u \in {v, w}, NEW x \in Counts, NEW y \in Counts, NEW t \in 1 .. n
      PROVE  row(u, x, y, t) \in Seq(some) /\ x[t] + y[t] \in Nat /\ Len(row(u, x, y, t)) = x[t] + y[t]
  <2>1. x[t] \in Nat /\ y[t] \in Nat /\ t \in Nat
    BY <1>1, <1>2 DEF Counts
  <2>2. \A j : cell(u, x, t, j) \in some
    BY <2>1
  <2>3. row(u, x, y, t) \in [1 .. x[t] + y[t] -> some]
    <3> HIDE DEF cell, some
    <3> QED
      BY <2>2
  <2> HIDE DEF row, some
  <2> QED
    BY <2>1, <2>3, FunctionIsSequence
<1>3. ASSUME NEW u \in {v, w}, NEW x \in Counts, NEW y \in Counts
      PROVE  part(u, x, y) \in Seq(Seq(some)) /\ Len(part(u, x, y)) = n
  <2>1. part(u, x, y) \in [1 .. n -> Seq(some)]
    <3> HIDE DEF row, some
    <3>1. \A t \in 1 .. n : row(u, x, y, t) \in Seq(some)
      BY <1>2
    <3> QED
      BY <3>1
  <2> HIDE DEF part, some
  <2> QED
    BY <1>1, <2>1, FunctionIsSequence
<1>4. ASSUME NEW t \in 1 .. n
      PROVE  RelatedBy(SameMoments(v, w), part(v, a, b)[t], part(w, c, d)[t])
  <2>1. part(v, a, b)[t] = row(v, a, b, t) /\ part(w, c, d)[t] = row(w, c, d, t)
    OBVIOUS
  <2>2. a[t] + b[t] = c[t] + d[t] /\ t \in Nat
    BY <1>1
  <2>3. Len(row(v, a, b, t)) = a[t] + b[t] /\ Len(row(w, c, d, t)) = a[t] + b[t]
    <3>1. Len(row(v, a, b, t)) = a[t] + b[t]
      BY <1>2
    <3>2. Len(row(w, c, d, t)) = c[t] + d[t]
      BY <1>2
    <3> QED
      BY <2>2, <3>1, <3>2
  <2>4. ASSUME NEW j \in 1 .. a[t] + b[t]
        PROVE  <<row(v, a, b, t)[j], row(w, c, d, t)[j]>> \in SameMoments(v, w)
    <3>1. row(v, a, b, t)[j] = cell(v, a, t, j) /\ row(w, c, d, t)[j] = cell(w, c, t, j)
      <4> HIDE DEF cell
      <4> QED
        BY <2>2
    <3>2. cell(v, a, t, j) \in Line(v) /\ cell(w, c, t, j) \in Line(w)
      BY <2>2 DEF Line
    <3>3. cell(v, a, t, j).time = cell(w, c, t, j).time
      OBVIOUS
    <3> HIDE DEF cell, row
    <3> QED
      BY <3>1, <3>2, <3>3 DEF SameMoments
  <2> HIDE DEF row, part
  <2> QED
    BY <2>1, <2>3, <2>4 DEF RelatedBy
<1>5. Lines(a, v, b) = FlattenSeq(part(v, a, b)) /\ Lines(c, w, d) = FlattenSeq(part(w, c, d))
  BY DEF Lines, n
<1> HIDE DEF part, some
<1>6. /\ part(v, a, b) \in Seq(Seq(some)) /\ part(w, c, d) \in Seq(Seq(some))
      /\ Len(part(v, a, b)) = n /\ Len(part(w, c, d)) = n
  BY <1>3
<1>7. RelatedBy(SameMoments(v, w), FlattenSeq(part(v, a, b)), FlattenSeq(part(w, c, d)))
  BY <1>4, <1>6, FlattenRelated
<1> QED
  BY <1>5, <1>7

\* What main.cpp takes for granted of a room's files, for any rooms, times and
\* databases: if the items have distinct times and no client went on after an
\* error, the files agree line by line on the moment and, unless the item has
\* a value no UPDATE names, hold 0 and 1 only.
THEOREM FilesOfRoomAligned == PipelineSpec => []DeviceFilesAligned
<1>1. TablesInv /\ SourcesInv => DeviceFilesAligned
  <2> SUFFICES ASSUME TablesInv, SourcesInv, NEW r \in Rooms, skipped = 0, DistinctTimes(r),
                      NEW a \in Traces(r), NEW b \in Traces(r)
               PROVE  /\ Len(a.rows) = Len(b.rows)
                      /\ \A j \in 1 .. Len(a.rows) :
                           /\ a.rows[j].time = b.rows[j].time
                           /\ a.rows[j].value = "raw" => Item(r, a.header[3]) \in Dimmed
                           /\ a.rows[j].value # "wild"
    BY DEF DeviceFilesAligned
  <2>1. ASSUME NEW x \in Traces(r)
        PROVE  \E o \in DOMAIN outputs : r = o[1] /\ x.header[3] = o[2] /\ x.rows = TableLines(o)
    <3>1. PICK name \in DOMAIN files : /\ name[1] = "device" /\ name[2] = r
                                       /\ files[name].rows # <<>> /\ x = files[name]
      BY <2>1 DEF Traces
    <3> QED
      BY <3>1 DEF SourcesInv, FromTable
  <2>2. PICK oa \in DOMAIN outputs : r = oa[1] /\ a.header[3] = oa[2] /\ a.rows = TableLines(oa)
    BY <2>1
  <2>3. PICK ob \in DOMAIN outputs : r = ob[1] /\ b.rows = TableLines(ob)
    BY <2>1
  <2>4. \A o \in DOMAIN outputs :
          /\ outputs[o].own \in Counts /\ outputs[o].fill \in Counts
          /\ o[1] = r =>
               /\ outputs[o].binary \/ Item(o[1], o[2]) \in Dimmed
               /\ Aligned(r, outputs[o])
    <3> SUFFICES ASSUME NEW o \in DOMAIN outputs
                 PROVE  /\ outputs[o].own \in Counts /\ outputs[o].fill \in Counts
                        /\ o[1] = r =>
                             /\ outputs[o].binary \/ Item(o[1], o[2]) \in Dimmed
                             /\ Aligned(r, outputs[o])
      OBVIOUS
    <3>1. outputs[o].own \in Counts /\ outputs[o].fill \in Counts
      BY DEF TablesInv, AlignTypeOK
    <3>2. /\ recorded \in [Items -> Counts] /\ outputs[o].room = o[1]
          /\ outputs[o].binary \/ Item(o[1], o[2]) \in Dimmed
          /\ o[1] \in Rooms /\ o[2] \in Entries(o[1])
          /\ outputs[o].own = recorded[Item(o[1], o[2])]
          /\ outputs[o].fill = [t \in Times |-> Fill(o[1], o[2], t)]
      BY DEF TablesInv, AlignTypeOK, OutputsFilled, NothingSkipped
    <3>3. Aligned(o[1], outputs[o])
      BY <3>2, FillAligns
    <3> QED
      BY <3>1, <3>2, <3>3
  <2>5. PICK v : v = ValueOf(outputs[oa].binary)
    OBVIOUS
  <2>6. PICK w : w = ValueOf(outputs[ob].binary)
    OBVIOUS
  <2>7. ASSUME NEW t \in Times
        PROVE  outputs[oa].own[t] + outputs[oa].fill[t] = outputs[ob].own[t] + outputs[ob].fill[t]
    <3> DEFINE rows == IF RoomHas(r, t) THEN 1 ELSE 0
    <3>1. ASSUME NEW o \in DOMAIN outputs, o[1] = r
          PROVE  outputs[o].own[t] + outputs[o].fill[t] = rows
      <4>1. outputs[o].own[t] \in Nat /\ outputs[o].fill[t] \in Nat
        BY <2>4 DEF Counts
      <4>2. /\ outputs[o].own[t] + outputs[o].fill[t] > 0 <=> RoomHas(r, t)
            /\ outputs[o].own[t] + outputs[o].fill[t] <= 1
        BY <2>4, <3>1 DEF Aligned
      <4> QED
        BY <4>1, <4>2
    <3>2. oa[1] = r /\ ob[1] = r
      BY <2>2, <2>3
    <3> HIDE DEF rows
    <3> QED
      BY <3>1, <3>2
  <2>8. RelatedBy(SameMoments(v, w), a.rows, b.rows)
    BY <2>2, <2>3, <2>4, <2>5, <2>6, <2>7, LinesRelated DEF TableLines
  <2>9. v \in {"binary", "raw"} /\ (v = "raw" => Item(r, a.header[3]) \in Dimmed)
    BY <2>2, <2>4, <2>5 DEF ValueOf
  <2>10. /\ Len(a.rows) = Len(b.rows)
         /\ \A j \in 1 .. Len(a.rows) :
              a.rows[j].time = b.rows[j].time /\ a.rows[j].value \in {v, "zero"}
    BY <2>8 DEF RelatedBy, SameMoments, Line
  <2> QED
    BY <2>9, <2>10
<1> QED
  BY <1>1, PipelineAligns, SourcesAlwaysInv, PTL
=============================================================================
