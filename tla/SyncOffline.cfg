SPECIFICATION MCSpec
CONSTANTS
  Command = {c1, c2}
  Answered = {c2}
  Base = base
  Wipe = wipe
  DeskEdit = {d1}
  PageEdit = {e1, e2}
  Oversized = {e2}
  Refused = {1}
  MaxVersion = 2
  MaxCuts = 2
  MaxEvents = 3

PROPERTY OfflineGridKept
CHECK_DEADLOCK FALSE
