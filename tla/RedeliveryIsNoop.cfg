SPECIFICATION Spec
CONSTANTS
  None = None
  LocalIds <- NoLocalIds
  ServerIds <- OneServerId
  MaxWrites = 1
  MaxClock = 3
  JsInApplyWindow = FALSE
  Strategies <- OnlyLastWriteWins
  PageSize = 2
  MaxPages = 2
  EscalationAttempts = 3
  EscalationFactor = 3
  EscalatedLimit = 3
  ServerMaxLimit = 3
  MaxTie = 1
  MaxTick = 2
  MaxFaults = 0
PROPERTY RedeliveryIsNoop
