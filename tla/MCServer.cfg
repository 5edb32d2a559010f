SPECIFICATION MCSpec
CONSTANTS
  Token = {t1, t2, t3}
  Redeemer = {r1}
  NoToken = NoToken
  Role = {"admin", "monitor"}
  Uplink = {u1, u2}
  Client = {c1, c2}
  NoUplink = NoUplink
  Version = {v1}
  NoVersion = NoVersion
  Edit = {e1}
  MaxPending = 1
SYMMETRY Symmetry
INVARIANTS ServerTypeOK VerifiedAreLive RedeemedIsSpent UplinkHeld ClientsServed
PROPERTY KeepsRoom
CHECK_DEADLOCK FALSE
