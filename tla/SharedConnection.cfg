SPECIFICATION FairSpec
CONSTANTS
  Tables = {notes, tags}
  Units = {u1, u2}
  Uploads = {up}
  Pages = {pg}
  Nobody = Nobody
  MaxFaults = 2
INVARIANT TypeOK
INVARIANT TransactionsAreWhole
INVARIANT TriggersComeBack
INVARIANT AppliedIsNeverQueued
PROPERTY StoreSpec
PROPERTY NotifiesWhatCommits
PROPERTY ConnectionIsFreed
CHECK_DEADLOCK FALSE
