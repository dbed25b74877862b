SPECIFICATION Spec
CONSTANTS
  l1 = l1
  l2 = l2
  s1 = s1
  s2 = s2
  s3 = s3
  s4 = s4
  None = None
  LocalIds <- TwoLocalIds
  ServerIds <- FourServerIds
  MaxWrites = 4
  MaxClock = 2
  JsInApplyWindow = FALSE
  PushLimit = 2
  HttpAttempts = 2
  MaxDisturbances = 2
  BlobVersions <- SecondWriteIsABlob
  HasConflictColumn = TRUE
  ApplyMayFail = FALSE
SYMMETRY IdSymmetry
INVARIANT TypeOK
INVARIANT IdentityAgrees
INVARIANT QuietRowsAgree
INVARIANT QuietDeletesAgree
INVARIANT ServerRowsOwned
INVARIANT PendingMeansQueued
PROPERTY NewerEditSurvives
PROPERTY BlockedStays
