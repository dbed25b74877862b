SPECIFICATION Spec
CONSTANTS
  Tables = {notes, tags}
  Units = {u1, u2}
  Uploads = {up}
  Pages = {pg}
  Nobody = Nobody
  MaxFaults = 2
INVARIANT EveryWriteEnqueued
CHECK_DEADLOCK FALSE
