----------------------------- MODULE Alignment ------------------------------
(***************************************************************************)
(* The SQL scripts that bring the tables of a room's devices to one set of *)
(* times.  For entry k of a room a script collects in t<k> the times that  *)
(* some other item of the room has and item k has not, adds a Value column *)
(* of 0, and creates the device table from item k and t<k>, by time.       *)
(*                                                                         *)
(* The helper tables have the same names in every script and no script     *)
(* drops them.  A statement that meets an existing table fails, as may any *)
(* statement for reasons of its own; the client then stops or, if told to, *)
(* goes on with the next one.  Between scripts somebody may drop helper    *)
(* tables by hand: the data directory has all rooms, which the scripts     *)
(* alone cannot produce in one database.                                   *)
(*                                                                         *)
(* A table is known by its number of rows for each time.  Values matter    *)
(* only in being converted to 0 and 1 or not.                              *)
(***************************************************************************)
EXTENDS Integers, Sequences, FiniteSets

CONSTANTS
  Script,      \* Script[room]: the entries of its script, see RoomScripts
  Times,       \* the times items have values at
  Dimmed,      \* the items with a value that no WHERE names, as a light's 50
  MaxCopies,   \* bound: rows an item has for one time
  MaxRuns,     \* bound: scripts started
  MaxSkips     \* bound: failed statements that a client went on after

Rooms == DOMAIN Script
Entries(r) == 1 .. Len(Script[r])
Item(r, e) == Script[r][e][1]
Items == UNION {{Item(r, e) : e \in Entries(r)} : r \in Rooms}

ASSUME AlignmentAssumption ==
  /\ Rooms # {}
  /\ \A r \in Rooms : Len(Script[r]) \in Nat \ {0}
  /\ Dimmed \subseteq Items
  /\ MaxCopies \in Nat
  /\ MaxRuns \in Nat
  /\ MaxSkips \in Nat

VARIABLES
  recorded,   \* recorded[item][t]: rows of the item table for time t
  binary,     \* the items whose values are all 0 and 1
  helpers,    \* the tables t1, t2, ... that exist
  outputs,    \* the device tables that exist, by room and entry
  room,       \* the room whose script was started last
  stage,      \* the kind of the next statement, or "idle"
  k,          \* the entry that statement is about
  run,        \* how many scripts have been started
  skipped,    \* history: how many statements failed and were gone on after
  dropped     \* history: helper tables were dropped by hand

tableVars == <<recorded, binary, helpers, outputs>>
alignVars == <<recorded, binary, helpers, outputs, room, stage, k, run, skipped, dropped>>

Stages == {"update", "create", "alter", "output", "idle"}

AlignInit ==
  /\ recorded \in [Items -> [Times -> 0 .. MaxCopies]]
  /\ binary = {}
  /\ helpers = <<>>
  /\ outputs = <<>>
  /\ room = CHOOSE r \in Rooms : TRUE
  /\ stage = "idle"
  /\ k = 1
  /\ run = 0
  /\ skipped = 0
  /\ dropped = FALSE

StartScript ==
  /\ stage = "idle"
  /\ run < MaxRuns
  /\ room' \in Rooms
  /\ stage' = "update"
  /\ k' = 1
  /\ run' = run + 1
  /\ UNCHANGED <<tableVars, skipped, dropped>>

\* Mutant: one entry too many.
LastEntryLate == k > Len(Script[room])

LastEntry == k = Len(Script[room])

\* The statement after this one: all UPDATEs, then for each entry CREATE t<k>,
\* ALTER t<k>, CREATE the device table.
Advance ==
  /\ stage' = CASE stage = "update" -> IF LastEntry THEN "create" ELSE "update"
                [] stage = "create" -> "alter"
                [] stage = "alter"  -> "output"
                [] OTHER            -> IF LastEntry THEN "idle" ELSE "create"
  /\ k' = CASE stage = "update" -> IF LastEntry THEN 1 ELSE k + 1
            [] stage = "output" -> IF LastEntry THEN 1 ELSE k + 1
            [] OTHER            -> k
  /\ UNCHANGED <<room, run, dropped>>

\* UPDATE item SET VALUE = 0 where Value = "OFF", ... = 1 where Value = "ON";
\* of a light only ... = 1 where Value = 100, any other value stays as it is.
\* The order of the UPDATEs among each other does not matter.
UpdateValues ==
  /\ stage = "update"
  /\ binary' = binary \cup ({Item(room, k)} \ Dimmed)
  /\ Advance
  /\ UNCHANGED <<recorded, helpers, outputs, skipped>>

\* Mutant: CREATE TABLE IF NOT EXISTS.
MayCreateAnyway(tables, name) == TRUE

\* CREATE TABLE fails if there is a table of that name.
MayCreate(tables, name) == name \notin DOMAIN tables

Created(tables, name, content) ==
  [x \in DOMAIN tables \cup {name} |-> IF x \in DOMAIN tables THEN tables[x] ELSE content]

\* Mutant: without the NOT IN.
FillEveryTime(r, e, t) ==
  IF \E o \in Entries(r) \ {e} : recorded[Item(r, o)][t] > 0 THEN 1 ELSE 0

\* The rows of t<e> for time t: none if item e has the time or no other has.
\* The union of several selects removes duplicates, one select alone does
\* not.
Fill(r, e, t) ==
  LET having == {o \in Entries(r) \ {e} : recorded[Item(r, o)][t] > 0}
  IN  IF recorded[Item(r, e)][t] > 0 \/ having = {} THEN 0
      ELSE IF Len(Script[r]) = 2 THEN recorded[Item(r, CHOOSE o \in having : TRUE)][t]
      ELSE 1

\* create table t<k> select ... NOT IN (...) union ...
CreateHelper ==
  /\ stage = "create"
  /\ MayCreate(helpers, k)
  /\ helpers' = Created(helpers, k, [rows |-> [t \in Times |-> Fill(room, k, t)],
                                     value |-> FALSE, room |-> room, run |-> run])
  /\ Advance
  /\ UNCHANGED <<recorded, binary, outputs, skipped>>

\* ALTER TABLE t<k> ADD Value: fails on a table that has the column.
AddValueColumn ==
  /\ stage = "alter"
  /\ k \in DOMAIN helpers
  /\ ~ helpers[k].value
  /\ helpers' = [helpers EXCEPT ![k].value = TRUE]
  /\ Advance
  /\ UNCHANGED <<recorded, binary, outputs, skipped>>

\* CREATE TABLE <device> SELECT * FROM item UNION ALL SELECT * FROM t<k>: the
\* two need the same number of columns.
CreateOutput ==
  /\ stage = "output"
  /\ MayCreate(outputs, <<room, k>>)
  /\ k \in DOMAIN helpers
  /\ helpers[k].value
  /\ outputs' = Created(outputs, <<room, k>>,
                        [own |-> recorded[Item(room, k)], fill |-> helpers[k].rows,
                         binary |-> Item(room, k) \in binary,
                         room |-> helpers[k].room, run |-> run])
  /\ Advance
  /\ UNCHANGED <<recorded, binary, helpers, skipped>>

\* A statement fails and the client stops, or it is interrupted.
StopScript ==
  /\ stage # "idle"
  /\ stage' = "idle"
  /\ k' = 1
  /\ UNCHANGED <<tableVars, room, run, skipped, dropped>>

\* A statement fails and the client goes on.
SkipStatement ==
  /\ stage # "idle"
  /\ skipped < MaxSkips
  /\ Advance
  /\ skipped' = skipped + 1
  /\ UNCHANGED tableVars

DropHelpers ==
  /\ stage = "idle"
  /\ \E gone \in SUBSET DOMAIN helpers :
       /\ gone # {}
       /\ helpers' = [h \in DOMAIN helpers \ gone |-> helpers[h]]
  /\ dropped' = TRUE
  /\ UNCHANGED <<recorded, binary, outputs, room, stage, k, run, skipped>>

ScriptStep ==
  \/ StartScript
  \/ UpdateValues
  \/ CreateHelper
  \/ AddValueColumn
  \/ CreateOutput
  \/ StopScript
  \/ SkipStatement
  \/ DropHelpers

AlignSpec == AlignInit /\ [][ScriptStep]_alignVars

-----------------------------------------------------------------------------
Counts == [Times -> Nat]

\* Types of the tables and of the place in a script, which always names an
\* entry of the room.
AlignTypeOK ==
  /\ recorded \in [Items -> Counts]
  /\ binary \subseteq Items
  /\ \A h \in DOMAIN helpers :
       helpers[h] \in [rows : Counts, value : BOOLEAN, room : Rooms, run : Nat]
  /\ \A o \in DOMAIN outputs :
       outputs[o] \in [own : Counts, fill : Counts, binary : BOOLEAN, room : Rooms, run : Nat]
  /\ room \in Rooms
  /\ stage \in Stages
  /\ k \in Entries(room)
  /\ run \in Nat
  /\ skipped \in Nat
  /\ dropped \in BOOLEAN

\* Some item of the room has a value at time t.
RoomHas(r, t) == \E e \in Entries(r) : recorded[Item(r, e)][t] > 0

\* No item of the room has two values at one time.
DistinctTimes(r) == \A e \in Entries(r), t \in Times : recorded[Item(r, e)][t] <= 1

\* A device table of room r has exactly the times of the room, each once if
\* the items have distinct times; a row of 0 is added only where the item
\* has none.
Aligned(r, table) ==
  \A t \in Times :
    /\ table.own[t] + table.fill[t] > 0 <=> RoomHas(r, t)
    /\ table.fill[t] = 0 \/ table.own[t] = 0
    /\ DistinctTimes(r) => table.own[t] + table.fill[t] <= 1

\* Only a helper table left by another room can spoil a device table: a
\* script that was interrupted, or goes on after errors, creates right tables
\* from the helpers that earlier runs for the same room have left, although
\* it cannot tell them from those of another room.
OwnHelperAligns ==
  \A o \in DOMAIN outputs : outputs[o].room = o[1] => Aligned(o[1], outputs[o])

\* With a client that stops at errors every device table that exists is
\* aligned and, unless its item has a value no UPDATE names, has values 0 and
\* 1 only, after any number of interrupted and repeated scripts of any rooms
\* and with helpers dropped in between: what the segment loops of main.cpp
\* rely on when they take the length of one device for all.
AlignedUnlessSkipped ==
  skipped = 0 =>
    \A o \in DOMAIN outputs :
      Aligned(o[1], outputs[o]) /\ (outputs[o].binary \/ Item(o[1], o[2]) \in Dimmed)

\* Since helpers are never dropped by a script (entrance.sql 5-14), stopping
\* at errors means that one run makes all the tables of a database: a second
\* room, or a room that was interrupted, gets no table until the helpers are
\* dropped by hand.
OneRunMakesTables ==
  skipped = 0 /\ ~ dropped =>
    LET runs == {helpers[h].run : h \in DOMAIN helpers} \cup {outputs[o].run : o \in DOMAIN outputs}
    IN  Cardinality(runs) <= 1
=============================================================================
