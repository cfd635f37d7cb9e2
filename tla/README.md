# Verification of the decentralized monitors

The repository monitors the lights and switches of a house. Two programs carry
its logic:

* `src/monitor.cpp`: a ring of monitors. Each evaluates one subformula (a chain
  of `and`/`or` over its observations), passes every verdict it knows to its
  successor, and answers for the conjunction of all subformulas.
* `src/main.cpp`: for each room it pairs every switch with every light, lets one
  monitor per pair and one central monitor read the traces, cuts the traces into
  segments, asks Z3 about each segment, and shares the flags among all monitors.

The traces come from a MySQL database. The scripts of `src/SQL_statements` bring
the tables of a room's devices to one set of times, and `src/get_data.cpp`
writes every table to a text file. `src/z3-master` is vendored.

## Inventory

| component | state | operations | interaction |
|---|---|---|---|
| ring monitors (`monitor.cpp` 6-88) | subformula, observations, network, verdicts, verdicts_mod | constructor, push_back, AddNetwork, Evaluate, GetVerdict, ShareVerdict, Evaluate_All | ShareVerdict calls GetVerdict of the successor |
| ring program (`monitor.cpp` 90-158) | loop counters | observe, link, evaluate, share N rounds, ask monitor 0 | calls the class |
| trace reader (`main.cpp` 78-149) | EValueAll, numEventAll, numProcess | setValues, readFile | reads the file the room program wrote |
| segmentation (`main.cpp` 151-185) | EName, numEvent, hbSet, numHbSet | readSegTrace | called once per segment and monitor |
| solver encoding (`main.cpp` 187-290) | none | solveSMT | reads numEvent and hbSet, asks Z3 |
| room program (`main.cpp` 314-457) | files, monitorList, centMon, loop variables | loop over rooms, count files, assemble pairs, segment loops, sharing | calls everything above |
| alignment scripts (`SQL_statements`) | item, helper and device tables | UPDATE, create t<k>, ALTER, CREATE device table | all scripts use one database and one set of helper names |
| data export (`get_data.cpp`) | tables, details, files | connect, show tables, query, write | reads the database, writes what `main.cpp` reads |

All programs are single-threaded. What is hard is not concurrency but order
(verdicts second-hand round a ring, answered before all are known), fixed-size
arrays with unchecked stores, counters used as counts, state that is never reset
between segments, window boundaries, traces of different lengths under one loop
bound, input files that do not open, scripts that
are interrupted and run again among the leftovers of others, and queries that
fail half-way.
`PROJECT.json` lists each hazard at its line with the properties that watch it.

## Modules

| module | models |
|---|---|
| `Subformula` | the chain evaluation of `Evaluate`, and a reference definition of its value (the last observation that decides) |
| `EvaluateLoop` | `Evaluate` as a loop, one action per iteration and one for the final store |
| `VerdictBoard` | abstract specification: a monitor decides once; others hold its decision or nothing |
| `MonitorRing` | the Monitor class of `monitor.cpp`, one action per method, callable in any order its preconditions allow |
| `RingMain` | `main()` of `monitor.cpp` on top of `MonitorRing`, for any N |
| `ReadTrace` | `readFile`: the store into `EValueAll[Rows][Cols]` with the address arithmetic of an index past a row |
| `SegmentOps` | `readSegTrace` as operators: windows, names, the pairs entered, the table and its overflow |
| `SegTrace` | one monitor in the segment loops |
| `SolveSMT` | the constraints of `solveSMT` and when they have a solution; a reference definition of linearizability |
| `SolveSMTInputs` | every small input of `solveSMT`, as a table that grows |
| `RoomFiles` | counting, opening and assembling the device files of a room |
| `RoomMain` | `main()` of `main.cpp`, composed of `RoomFiles`, `SegmentOps` and `SolveSMT` |
| `RoomScripts` | the nine scripts as data: items, helper and device tables in order |
| `Alignment` | what a script of that shape does, one action per kind of statement, with errors, interruption and repetition |
| `GetData` | `main()` of `get_data.cpp` on a given database |
| `DataPipeline` | `Alignment` and an instance of `GetData` on one database |
| `MC...` | constants for TLC |
| `Induction` | lemmas: induction over the natural numbers, definition by recursion, `FlattenSeq` |
| `EvaluateLoopProofs`, `ReadTraceProofs`, `SegTraceProofs`, `RoomMainProofs` | theorems about the module of that name |
| `RingMainProofs` | theorems about `MonitorRing` and `RingMain` |
| `MonitorOpsProofs` | theorems about `SolveSMTInputs`, and lemmas about `SolveSMT` and `SegmentOps` |
| `DataPipelineProofs` | theorems about `Alignment` and `DataPipeline` |

Variables have the names of the C++ members. C++ arrays stay 0-based where the
index matters; vectors become sequences. Operators whose comment starts with
"Mutant" are plausible bugs; with one in place of the definition that follows
it, the property named in `PROJECT.json` fails.

Decisions worth knowing:

* *ShareVerdict and GetVerdict.* The loop over positions is one action: the
  program is sequential, and the sender's array changes only in a ring of one,
  where a monitor sends itself what it has.
* *Device text.* No branch reads a trace value, so a value line is known by its
  origin in `ReadTrace`, and a trace by its length in `SegTrace` and `RoomMain`.
* *Stores outside an array.* `ReadTrace` and `SegmentOps` follow a store past a
  row, or past `hbSet`, to where it lands (`numHbSet` is declared right after
  `hbSet`, and is read again after the call of `stoi` in between). A store that
  leaves the object's neighbouring members sets `wild`; `SegTrace` and `RoomMain`
  take no step after it, so nothing is claimed of what follows.
* *Z3.* A segment of no events makes `bv_sort(0)` throw, which ends the program.
  With quantified constraints (a table with entries) Z3 may answer unknown,
  which the code treats as false; `Answers` allows both. It may also never answer,
  since no timeout is set: see *Fairness*.
* *Trace lengths.* Every device has a trace length of its own, in `SegTrace` as in
  `RoomMain`: `readSegTrace` cuts each window by the trace of its process, while the
  loop is bounded by the first trace of the central monitor (`cenLength`,
  `TraceLength`), whichever monitor reads. `AlignedUnlessSkipped` and
  `DeviceFilesAligned` say when the scripts and the export make the lengths equal. A
  file that the export has emptied is part of `RoomFiles` (`emptied`).
* *Rooms.* Every iteration of the loop over rooms begins with new objects
  (`NextRoom`); a room is what the directory has for it.
* *Tables.* A table is its number of rows for each time, and whether its values
  have been converted. Statements compare times only for equality and order. The
  two UPDATEs of a switch are one step: until both are done the item counts as
  not converted. An item with a value that no UPDATE names (a light's script
  converts only 100) is in `Dimmed`, and is never converted.
* *Clients.* A script is fed to a client that stops at the first error (mysql's
  default) or goes on (`--force`); both are in the model,
  and the properties say what holds in each case. Somebody may drop helper tables
  between scripts, because without that no database gets two rooms, and the data
  directory has all of them.
* *Unchecked results.* `mysql_store_result` may return NULL: the file then has the
  name alone (`LostResult`), or the fetch crashes. A value that is NULL makes
  `string` throw. Either end is `Crash`, which comes before the first file is opened.
* *Scripts and exports take turns* in `DataPipeline`; an interrupted script leaves
  every intermediate state to the next export. `Listings` has the orders in which
  `show tables` can list the tables; TLC is given one, the proof takes any.

## Runs

| run | bounds | shows |
|---|---|---|
| `evaluate` | chains of up to 5 operators, all observations | the loop computes the reference value; the recursive function used elsewhere agrees with it |
| `ring` | 3 monitors, one operator each, all call orders | second-hand verdicts are the owner's; the knowers form an arc; answers are sound; nothing known changes; the ring implements `VerdictBoard`; agreement is reached |
| `ring_main` | 3 monitors, chains of 1 and 2 operators | what each sweep spreads, the printed answer |
| `read_trace` | 3x2 array, up to 4 devices with up to 5 events | files that fit, spill, and leave the array |
| `seg_trace` | up to 2 processes, each with up to 6 events, segments of 2, eps to 3, the code's table and int | window overlap, coverage, what the pairs of the first segment do to all later ones |
| `solve_smt` | up to 6 events, 3 entries, an int of 4 bits | where the encoding is exact, and what it answers without entries |
| `room_main` | 2 rooms of up to 3 files of a kind, one of them empty, each trace of 0, 3 or 6 events, segments of 4, eps to 2, 8 monitors, table of 16 | from counting files to the last eps of the last room |
| `alignment` | the scripts of entrance and toilet, 2 starts, 2 errors passed over, databases of up to 3 values, a dimmed light | which device tables are aligned, and which runs can make any |
| `pipeline` | the entrance script, 2 starts, 2 exports with a failing query or lost result each, crashes, all databases in which both of 2 times occur or none does, a dimmed light | files are their tables'; files of a room agree line by line |
| `read_trace_spill`, `hb_overflow`, `verdicts_recorded` | the code's constants, or the small array | a property that a comment states fails |

Three monitors are the size of `main()` and the smallest ring in which a verdict
is passed on second-hand; the theorems cover every other size. The array of
`read_trace` is small enough that a trace can spill over one and over two rows.
In `seg_trace` eps exceeds the segment length, so a window reaches back over
more than one segment, and lengths include every remainder and every difference;
the shortest traces pass through all eps with room in the table, the longer ones
lose pairs. Six events pass both
sizes where `n^2 = 2^n`, and with 4 bits for an int the names 4, 5 and 6 meet the
conversion that names from 32 on meet in the code. In `room_main` a trace is empty, one short
segment, or two segments of which one is short, so that switches of one room differ
in where they end; windows of 0, 2, 3 and 4 events occur, and segments in which some
monitors are answered true and others false.
There are rooms without a file of one kind, a room with more pairs than
monitors and one whose central monitor leaves the table of 16; there the model
stops, so deadlock is not checked. Two rooms show
that nothing passes from one to the next. Entrance and toilet are the two shapes
of helper: a single select, which keeps duplicates, and a union, which removes
them; two rooms and two starts are the least in which one script meets another's
helpers. Times are interchangeable in `alignment` (symmetry), not in `pipeline`,
where lines are in their order. All programs end, and `CHECK_DEADLOCK FALSE`
says no more than that; `ring` checks deadlock.

**Fairness.** `ring` assumes weak fairness of each monitor's operations:
`main()` calls every one of them for every monitor, and `ShareVerdict` in every
round. `room_main` assumes weak fairness of the next step, except where that step
asks Z3 about quantified constraints (`Quantified`): a sequential program goes on,
but no timeout is set, and nothing promises that such a query returns. The queries
of a pair's monitor have no quantifiers and finitely many candidates. So
`CompleteRoomsFinish` says that a complete room is finished unless a quantified
query is waited for for ever or a store leaves the table.

## What the runs found

* `EValueAll` has 100 columns; the data has traces of up to 532 events. A longer
  trace is overwritten by the next device's (`EntireTraceFile`); `LastWriterWins`
  says what the array holds instead.
* `numProcess` ends one below the number of devices, so the last device of a file
  is never monitored (`LastDeviceLeftOut`). A switch-light monitor therefore has
  one process, an empty happen-before table, and an
  answer that depends on the window size alone (`AnswerIsWindowSize`): true
  unless the window has 1 or 3 events.
* The happen-before table gets every pair in both directions, is never emptied,
  and overflows into its own counter (`TableHoldsSegment` fails in `hb_overflow`).
  With eps = 0, the first pass, `|j - l| >= eps` is true of every two events. So as
  soon as two processes have an event in the first segment, the central monitor has
  no solution for any segment of any eps, until the table overflows
  (`FirstTiesLast`): neither of two tied events can be executed first, and the ties
  stay for whatever events have these names later.
* The last value of the encoding is `n^2 - 1`: exact for 2 and 4 events, without
  a solution for 1 and 3.
* Answers are stored as flags and never as verdicts (`VerdictsRecorded`).
* The program is ended by an empty window in two kinds of room and no other
  (`AbortsJustOnEmptyWindow`): one with a device file without a number or emptied by
  the export, and one where a switch's trace has ended when a segment of the first
  switch begins. A light that ends early, or a switch that ends within its last
  segment, does no harm. The first room of `main()`,
  entrance, has a file without a number, `entranceswitch.txt`, which `entrance.sql`
  names so.
* No script drops its helper tables. With a client that stops at errors one run
  makes all the tables of a database (`OneRunMakesTables`); with one that goes on,
  a second room is filled from the first one's helpers. Only that spoils a table
  (`OwnHelperAligns`).

The ring of `monitor.cpp` does what it promises.

## Proofs

All theorems are for every value of the constants, under the named assumptions
of the modules: N positive, subformulas non-empty sequences of operators, array
bounds positive, bounds natural numbers, an int of at least 4 bits (C++ asks for
more), finitely many times in the database.

**Induction over data.** The loops, tables and sequences of the model need
induction, and the library's induction theorems have an operator as a parameter,
which the provers cannot instantiate. `Induction` therefore states induction for a
set S of numbers (`Induct`, `InductTo`), from the well-foundedness of `<`, and
existence of recursively defined functions for a step given as a function
(`Recursion`). A recursive definition of the model is then shown to satisfy its
own equation (`Pow2Def`, `ReachableDef`, `NamesBeforeDef`, ...). Relations that
lemmas pass around (`Recurs`, `Flattens`, `RelatedBy`, ...) are named and kept
folded, so that citing a lemma is a first-order step.

* `EvaluateLoopProofs`: `ChainStep` says how one operator extends the reference
  value; the inductive invariant `LoopInv` adds to `PrefixesCorrect` that a
  stored verdict belongs to the finished loop. Result: `Evaluate` is correct for
  chains of every length. `ChainInv` adds that every entry is the one the
  recursion of `EvaluateChain` defines; hence `ChainMatchesLoop`.
* `RingMainProofs`, the class: `VerdictsCorrect` with `TypeOK` is inductive, because
  observations are only pushed while nobody can know the verdict. From it follow
  `TrueAnswerSound`, `AnswerComplete`, `KnowledgeStable` and the refinement of
  `VerdictBoard` (`Evaluate` is a `Decide`, `ShareVerdict` a `Learn`, the rest
  stutters). `KnowledgeIsArc` is inductive with ring arithmetic.
* `RingMainProofs`, the program: a step of `main()` is a step of the class.
  `MainInv` adds to `SweepKnowledge` that the evaluation loop leaves each monitor
  with its own verdict, where the sweeps start, and that rounds are counted in the
  sharing loop only. Result: two sweeps suffice for any N, and the printed answer
  is the value of the formula.
* `ReadTraceProofs`: `ReadInv` ties `numProcess` and `numEventAll` to the place
  reached in the file. Result: files that fit are stored in place, for any array;
  the last device is left out, for any file. `CellsInv` says the same of cells: at
  any place in the file a cell holds the line of the last device that has reached
  it. `EventAtCell` inverts the address arithmetic. Result: `LastWriterWins`,
  spilling files included.
* `SegTraceProofs`: a pair of events within eps is old, or its later event is in
  the new segment and its earlier one at most eps before; hence
  `SkewedEventsMeet`, and `PassCoversTrace` from it. `FirstTiesLast` needs `TieInv`: the
  table keeps the first segment's pairs (`HoldsFirst`) as long as none was lost; a
  process that did not fill the first segment never has more events than then
  (`WindowsFit`); and the central monitor's first process always has one. So a later
  segment has at most four times the events of the first, for segments of at least 4
  events and eps up to three segments (the code has 4 and 5), and its values stay
  below what the tied names can be told apart by (`EventsBelowPower`).
* `MonitorOpsProofs`, `solveSMT`: without entries, i
  steps reach every value from i to `2^i - 1`, so n steps reach `n^2 - 1` where that
  fits the bit vector (`SolvableWithoutEntries`), while for 1 and 3 the last value is 0, which no step
  leads back to; hence `AnswerBySizeAlone` for every n. For 2 and 4 a value is a set
  of events (`Ones`), and adding a power of two gains an event or carries and gains
  none (`AddPower`). So n steps reach the full set only if each gains one, and
  `PathsAreOrders` matches such paths with the orders of the reference, level by
  level; hence `ExactWhenSquareIsPower`. If the first m events are tied together, an
  allowed value has all their bits or none, a step is a power of two, and so every value
  reached is a multiple of `2^m`, the i-th at least `i * 2^m`: too large for
  `n^2 - 1` when `n <= 2^m` (`TiedUnsolvable`).
* `MonitorOpsProofs`, `readSegTrace`: names are counted process after process
  (`NamesBeforeDef`), `NewPairsAre` gives the members and a bound on the number of the
  pairs, `EnterAllType` and `EnterAllWithRoom` say what entering them does to the table,
  `AllTied` that without skew they tie all events together when two processes have one.
* `RoomMainProofs`: `FlagInv` says what a flag is at each point of a segment:
  while the monitors ask, the first i flags are their answers; while monitor i
  shares, a flag is the monitor's own answer or one of a monitor before i. Sharing
  only ever sets flags, so without it an old flag could not be excluded. Result:
  `SharedIsDisjunction` for any number of monitors, traces of any lengths, segments,
  skews and rooms.
  `RoomInv` has five parts beside it. `FilesInv` gives the monitors by their place in the
  two assembly loops and the central formula by its length; from it follow
  `EachPairOnce` and `CentralMatchesFormula`. `LoopsInv` has the types and loop bounds
  (`RoomTypeOK`). `TraceInv` records that a segment begins inside the trace and who has
  got past the solver: once all pairs were asked, no trace is missing. `EarlyInv`
  says that the pass without skew asks every switch at the start of every segment of
  the first trace, so that no switch has ended there, and that later passes, whose
  windows only grow, ask for no more. From both
  follows `AbortsJustOnEmptyWindow`. `AnswerIsWindowSize` is inductive with these and
  `SolvableBySize`, since a pair's monitor has one process and an empty table.
* `DataPipelineProofs`, the scripts: `FillAligns` is about one item and its helper.
  `TablesInv` adds that helpers belong to an entry of the room that made them, and
  that a client which stops at errors is past `create t<k>` only with a helper of this
  room and past the UPDATEs only with all items converted that are not dimmed. Result: alignment for
  any rooms, items, times and values. `FromOneRun` says that `t1` exists as soon
  as any table does; hence `OneRunMakesTables`.
* `DataPipelineProofs`, the export: `ExportInv` adds to `FilesMatchTables` that the two
  counters of the query loop agree and that entries it has not reached are empty;
  it needs that no table is listed twice. What a query does to it is in `QueriedStep`,
  whether it succeeds, fails or loses its result. Result: files are their tables' for
  any database, failing queries and crashes. `SourcesInv` says that a device file with
  values is that of the device table of its name, whichever export wrote it: device tables never
  change. Aligned tables have related lines (`LinesRelated`, by induction over the
  times); hence `DeviceFilesAligned`.

Only model-checked: the liveness properties `EventuallyAgreed` and
`CompleteRoomsFinish`, since liveness under fairness is outside what the provers
handle. Every other property of a passing run is a theorem; `FirstTiesLast` for
segments of at least 4 events and eps up to three segments, which includes the
code's (`seg_trace` also checks it for segments of 2).

## Not modelled

* Timing and statistics (`clock()`, `average`, `standardDeviation`): no control
  depends on them. Printing. The copied values `EValue`, which nothing reads.
* Z3's own working: `src/z3-master` is an unmodified third-party solver and by
  far the largest part of the repository's lines. The programs use it through one
  query per segment, and that query is in `SolveSMT`.
* MySQL: what its calls return is in `GetData` and `Alignment`.
* An export killed in the middle of a file, and an export that runs while a
  script does.
* The contents of `src/data`.

Nothing else of the repository's own code changes state.

## Plan

1. Done: ring, ring program, reader, segmentation, encoding, room program, scripts
   and export, with the proofs above.
2. Theorems still worth having: the number of segments after which `hbSet` overflows,
   and the safety part of `CompleteRoomsFinish` (a
   complete room is never stuck before its last eps).
