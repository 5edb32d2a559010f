SPECIFICATION MCSpec
CONSTANTS
  Uplink = {u1, u2}
  Invite = {i1, i2}
  Session = {s1}
  NoToken = NoToken
  NoFile = NoFile
  Torn = Torn
  Budget = 2
  Floor = 1
  MaxStarts = 2
  MaxQueue = 2
  Call = {r1, r2}
  Credential = {good, bad}
  Good = {good}
  NoCredential = NoCredential
  AuthMax = 2
  GlobalMax = 2
  Capacity = 3
  Refill = 1
  MaxClock = 5
  MaxBack = 3
INVARIANTS LifeTypesOK UplinkHolds LimitsHold ShutdownTells
PROPERTIES SecretsStay FileIsAtomic SignalEnds
CHECK_DEADLOCK FALSE
