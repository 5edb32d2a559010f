SPECIFICATION PromptSpec
CONSTANTS
  MaxEnqueued = 1
  Link = {l1, l2}
  NoLink = NoLink
  Idx = {1, 2}
  None = None
  MaxCommands = 1
  MaxCloses = 1
  MaxTurns = 4
  MaxVotes = 1
INVARIANT AnnouncedByInterval
CHECK_DEADLOCK FALSE
