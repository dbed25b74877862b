SPECIFICATION FairSpec
CONSTANTS
  Configs = {c1, c2}
  Workers = {w1, w2}
  NoConfig = NoConfig
  NoToken = NoToken
  Nobody = Nobody
  MaxOps = 3
  MaxTriggers = 2
  MaxLogins = 2
  MaxCalls = 1
  MaxFaults = 2
INVARIANT TypeOK
INVARIANT SignedOutStaysSignedOut
INVARIANT StoredPairIsCurrent
INVARIANT FirstConfigureIsQuick
INVARIANT FileIsConfiguration
PROPERTY SessionIsUndisturbed
PROPERTY JsReturns
CHECK_DEADLOCK FALSE
