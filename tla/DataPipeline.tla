---------------------------- MODULE DataPipeline ----------------------------
(***************************************************************************)
(* From the recorded items to the files of src/data: scripts (Alignment)   *)
(* and exports (GetData), one at a time and any of them interrupted, on    *)
(* one database.  show tables lists what is there: items, helper tables    *)
(* and device tables.                                                      *)
(*                                                                         *)
(* A line of a file holds a value only; the model keeps the time of its    *)
(* row, which the files of a room have to agree on line by line.           *)
(***************************************************************************)
EXTENDS Alignment, SequencesExt

CONSTANTS
  Listings,      \* the orders in which show tables lists sets of tables
  MaxExports,    \* bound: exports started
  MaxFailures    \* bound: failing queries and lost results of one export

VARIABLES step, tables, details, pos, i, files, failed, lost, exports

NoRows == [t \in Times |-> 0]

\* Mutant: the device table without its ORDER BY.
LinesUnsorted(own, value, fill) ==
  FlattenSeq([t \in 1 .. Cardinality(Times) |->
                [c \in 1 .. own[t] |-> [time |-> t, value |-> value]]])
  \o FlattenSeq([t \in 1 .. Cardinality(Times) |->
                [c \in 1 .. fill[t] |-> [time |-> t, value |-> "zero"]]])

\* The rows of a table in the order of their times, as ORDER BY Time leaves
\* them: rows of the item, and rows of 0.
Lines(own, value, fill) ==
  FlattenSeq([t \in 1 .. Cardinality(Times) |->
    [c \in 1 .. own[t] + fill[t] |->
       [time |-> t, value |-> IF c <= own[t] THEN value ELSE "zero"]]])

ValueOf(converted) == IF converted THEN "binary" ELSE "raw"

ItemTable(item) == <<"item", item>>
HelperTable(h) == <<"t", h>>
DeviceTable(o) == <<"device", o[1], o[2]>>

\* A helper table between its CREATE and its ALTER has one column; row[1] of
\* get_data.cpp is then past the row, and its text is anything.
Database ==
  [name \in {ItemTable(x) : x \in Items} \cup {HelperTable(h) : h \in DOMAIN helpers}
              \cup {DeviceTable(o) : o \in DOMAIN outputs} |->
     CASE name[1] = "item" ->
            Lines(recorded[name[2]], ValueOf(name[2] \in binary), NoRows)
       [] name[1] = "t" ->
            Lines(helpers[name[2]].rows,
                  IF helpers[name[2]].value THEN "zero" ELSE "wild", NoRows)
       [] OTHER ->
            LET o == outputs[<<name[2], name[3]>>]
            IN  Lines(o.own, ValueOf(o.binary), o.fill)]

TableNames ==
  {ItemTable(x) : x \in Items}
    \cup {DeviceTable(<<r, e>>) : r \in Rooms, e \in UNION {Entries(q) : q \in Rooms}}
    \cup {HelperTable(h) : h \in UNION {Entries(r) : r \in Rooms}}

\* No name twice; no property depends on the order otherwise.
ASSUME PipelineAssumption ==
  /\ MaxExports \in Nat
  /\ MaxFailures \in Nat
  /\ IsFiniteSet(Times)
  /\ Times = 1 .. Cardinality(Times)
  /\ \A l \in Listings :
       /\ l \in Seq(TableNames)
       /\ \A a, b \in 1 .. Len(l) : l[a] = l[b] => a = b

Export == INSTANCE GetData WITH database <- Database

pipelineVars == <<recorded, binary, helpers, outputs, room, stage, k, run, skipped,
                  dropped, step, tables, details, pos, i, files, failed, lost, exports>>

PipelineInit == AlignInit /\ Export!ExportInit

RunScripts ==
  /\ step = "idle"
  /\ ScriptStep
  /\ UNCHANGED <<step, tables, details, pos, i, files, failed, lost, exports>>

RunExport ==
  /\ stage = "idle"
  /\ Export!ExportStep
  /\ UNCHANGED alignVars

PipelineNext == RunScripts \/ RunExport

PipelineSpec == PipelineInit /\ [][PipelineNext]_pipelineVars

-----------------------------------------------------------------------------
\* See GetData.
FilesMatchTables == Export!FilesMatchTables

\* The device files of room r that have a line besides the name.
Traces(r) ==
  {files[name] : name \in {n \in DOMAIN files :
                             /\ n[1] = "device" /\ n[2] = r
                             /\ files[n].rows # <<>>}}

\* What main.cpp takes for granted of the files of a room: line by line they
\* are about the same moments, and the values are 0 and 1.  True of any two
\* files with values, however many exports and scripts wrote them, were
\* interrupted or crashed, if no client went on after an error and the items
\* have distinct times and no value that no UPDATE names.
DeviceFilesAligned ==
  \A r \in Rooms :
    skipped = 0 /\ DistinctTimes(r) =>
      \A a, b \in Traces(r) :
        /\ Len(a.rows) = Len(b.rows)
        /\ \A j \in 1 .. Len(a.rows) :
             /\ a.rows[j].time = b.rows[j].time
             /\ a.rows[j].value = "raw" => Item(r, a.header[3]) \in Dimmed
             /\ a.rows[j].value # "wild"
=============================================================================
