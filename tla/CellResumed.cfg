SPECIFICATION CellSpec
CONSTANTS
  RawView = {r1, r2}
  NoView = NoView
  Content = {a, b}
  NoContent = NoContent
  Position = {p, q}
  NoPosition = NoPosition
  Volume = {1}
  DefaultVolume = 1
  NoVolume = NoVolume
  MaxRetries = 1
  PauseParkedViews = TRUE
SYMMETRY Symmetry
INVARIANT ResumedPlays
