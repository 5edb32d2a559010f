SPECIFICATION SessionSpec
CONSTANTS
  NoCell = NoCell
  NoContent = NoContent
  Stream = {s1, s2}
  NoStream = NoStream
  Kind = {video}
  NoKind = NoKind
  MaxCols = 3
  MaxRows = 2
  MaxActors = 8
  MaxPresets = 1
  MaxChanges = 2
  WindowWidth = 5
  WindowHeight = 7
SYMMETRY Symmetry
VIEW ByPlace
INVARIANTS WallOK ShowsOnlyDocument OneListening
PROPERTIES StreamsSurvive TilesKeepStreams
