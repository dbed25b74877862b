SPECIFICATION FairSpec
CONSTANTS
  None = None
  LocalIds <- NoLocalIds
  ServerIds <- ThreeServerIds
  MaxWrites = 1
  MaxClock = 3
  JsInApplyWindow = FALSE
  Strategies <- AllStrategies
  PageSize = 1
  MaxPages = 2
  EscalationAttempts = 3
  EscalationFactor = 3
  EscalatedLimit = 3
  ServerMaxLimit = 3
  MaxTie = 2
  MaxTick = 4
  MaxFaults = 1
INVARIANT TypeOK
INVARIANT NothingSkipped
INVARIANT SyncedMeansMirrored
PROPERTY EverythingArrives
