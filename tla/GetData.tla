------------------------------ MODULE GetData -------------------------------
(***************************************************************************)
(* get_data.cpp: connect, list the tables, read the second column of each, *)
(* and write one text file per table, its name first.  All files are       *)
(* written after all queries; a query that fails is reported and the       *)
(* program goes on.  A result that could not be stored and a value that is *)
(* NULL are not checked for.  The database is only read.                   *)
(***************************************************************************)
EXTENDS Integers, Sequences, FiniteSets

CONSTANTS
  Listings,      \* what show tables can list: sequences of distinct names
  MaxExports,    \* bound: exports started
  MaxFailures    \* bound: failing queries and lost results of one export

VARIABLES
  database,      \* the tables that exist: their second columns, row by row
  step,          \* where main() is
  tables,        \* the names show tables gave (table_names gets the same)
  details,       \* per table, the lines of its file
  pos,           \* the place of the loop over tables
  i,             \* the index into details
  files,         \* the files that exist
  failed,        \* history: the tables whose query failed in this export
  lost,          \* history: those whose result was not stored
  exports        \* how many exports have been started

exportVars == <<step, tables, details, pos, i, files, failed, lost, exports>>

Steps == {"idle", "show", "query", "write"}

\* details(row_size): no lines yet.
NoLines == [header |-> <<>>, rows |-> <<>>]

ExportInit ==
  /\ step = "idle"
  /\ tables = <<>>
  /\ details = <<>>
  /\ pos = 1
  /\ i = 1
  /\ files = <<>>
  /\ failed = {}
  /\ lost = {}
  /\ exports = 0

\* mysql_real_connect.  When it fails the program ends and nothing changes.
Connect ==
  /\ step = "idle"
  /\ exports < MaxExports
  /\ step' = "show"
  /\ exports' = exports + 1
  /\ UNCHANGED <<tables, details, pos, i, failed, lost, files>>

\* show tables; when it fails the list stays empty.
ShowTables ==
  /\ step = "show"
  /\ \/ /\ tables' \in Listings
        /\ {tables'[j] : j \in 1 .. Len(tables')} = DOMAIN database
     \/ tables' = <<>>
  /\ details' = [j \in 1 .. Len(tables') |-> NoLines]
  /\ step' = "query"
  /\ UNCHANGED <<pos, i, files, failed, lost, exports>>

Querying == step = "query" /\ pos <= Len(tables)

\* A query with its rows: details[i] is the name and the second column.
QueryTable ==
  /\ Querying
  /\ details' = [details EXCEPT ![i] = [header |-> tables[pos], rows |-> database[tables[pos]]]]
  /\ pos' = pos + 1
  /\ i' = i + 1
  /\ UNCHANGED <<step, tables, files, failed, lost, exports>>

FailureLeft == Cardinality(failed) + Cardinality(lost) < MaxFailures

\* mysql_store_result returns NULL, and mysql_fetch_row of NULL is no row:
\* details[i] is the name alone.  (With another client library it is a crash.)
LostResult ==
  /\ Querying
  /\ FailureLeft
  /\ lost' = lost \cup {tables[pos]}
  /\ details' = [details EXCEPT ![i] = [header |-> tables[pos], rows |-> <<>>]]
  /\ pos' = pos + 1
  /\ i' = i + 1
  /\ UNCHANGED <<step, tables, files, failed, exports>>

\* Mutant: i is incremented only after a query that succeeds.
AfterFailureSame == i

\* i++ is outside the if.
AfterFailure == i + 1

\* A query that fails: details[i] stays without a line, the name too.
QueryFails ==
  /\ Querying
  /\ FailureLeft
  /\ failed' = failed \cup {tables[pos]}
  /\ pos' = pos + 1
  /\ i' = AfterFailure
  /\ UNCHANGED <<step, tables, details, files, lost, exports>>

QueriesDone ==
  /\ step = "query"
  /\ pos > Len(tables)
  /\ step' = "write"
  /\ i' = 1
  /\ UNCHANGED <<tables, details, pos, files, failed, lost, exports>>

\* open truncates the file, then the lines are written.
WriteFile ==
  /\ step = "write"
  /\ i <= Len(details)
  /\ files' = [name \in DOMAIN files \cup {tables[i]} |->
                 IF name = tables[i] THEN details[i] ELSE files[name]]
  /\ i' = i + 1
  /\ UNCHANGED <<step, tables, details, pos, failed, lost, exports>>

\* The program is over; its vectors are gone, the files stay.
Gone ==
  /\ step' = "idle"
  /\ tables' = <<>>
  /\ details' = <<>>
  /\ pos' = 1
  /\ i' = 1
  /\ failed' = {}
  /\ lost' = {}
  /\ UNCHANGED <<files, exports>>

\* Before any file is opened, string(NULL) throws on a value that is NULL, and
\* fetching from a result that is NULL may crash.
Crash ==
  /\ step = "show" \/ Querying
  /\ Gone

EndExport ==
  /\ step = "write"
  /\ i > Len(details)
  /\ Gone

ExportStep ==
  \/ Connect
  \/ ShowTables
  \/ QueryTable
  \/ LostResult
  \/ QueryFails
  \/ QueriesDone
  \/ WriteFile
  \/ Crash
  \/ EndExport

-----------------------------------------------------------------------------
\* Names, contents and files stay together although they are kept in separate
\* vectors with separate counters (get_data.cpp 50-95): a file written in this
\* export has its table's name and rows, has no line at all, the name
\* included, just when that table's query failed, and has the name alone when
\* its result was lost - whatever the file held before.
FilesMatchTables ==
  step = "write" =>
    \A j \in 1 .. i - 1 :
      /\ tables[j] \in DOMAIN files
      /\ files[tables[j]] =
           IF tables[j] \in failed THEN NoLines
           ELSE [header |-> tables[j],
                 rows |-> IF tables[j] \in lost THEN <<>> ELSE database[tables[j]]]
=============================================================================
