\* The entrance script and the export on one database, one at a time: two
\* starts of each, the script interrupted anywhere or going on after one
\* error, one failing query or lost result in each export, crashes of it, and
\* every database of items with at most one value for each of two times, both
\* used or none; the light was dimmed.
CONSTANTS
  Script <- OneRoom
  Listings <- OneOrder
  Times = {1, 2}
  Dimmed = {"item210"}
  MaxCopies = 1
  MaxRuns = 2
  MaxSkips = 1
  MaxExports = 2
  MaxFailures = 1
SPECIFICATION MCPipelineSpec
INVARIANTS FilesMatchTables DeviceFilesAligned
CHECK_DEADLOCK FALSE
