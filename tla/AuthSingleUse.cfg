SPECIFICATION MCSpec
CONSTANTS
  Token = {t1, t2, t3}
  Redeemer = {r1, r2}
  Role = {x, y}
  NoToken = NoToken
  MaxPending = 1
SYMMETRY Symmetry
INVARIANT SingleUse
CHECK_DEADLOCK FALSE
