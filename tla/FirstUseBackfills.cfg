SPECIFICATION Spec
CONSTANTS
  Columns = {c1, c2}
  Versions = {1}
  Rows = {r1, r2}
  NoTable = NoTable
  NoTriggers = NoTriggers
  NoSchema = NoSchema
  MaxResets = 0
  MaxFaults = 0
PROPERTY FirstUseBackfills
CHECK_DEADLOCK FALSE
