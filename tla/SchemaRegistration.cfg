SPECIFICATION Spec
CONSTANTS
  Columns = {c1, c2}
  Versions = {1}
  Rows = {r1, r2}
  NoTable = NoTable
  NoTriggers = NoTriggers
  NoSchema = NoSchema
  MaxResets = 1
  MaxFaults = 1
INVARIANT TypeOK
INVARIANT TriggersMatchTable
INVARIANT CapturedMeansSynced
INVARIANT RowsAreKnown
INVARIANT ColumnsAreThere
PROPERTY CursorsRestartOnce
CHECK_DEADLOCK FALSE
