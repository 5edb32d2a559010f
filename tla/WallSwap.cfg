SPECIFICATION DragSpec
CONSTANTS
  NoCell = NoCell
  NoContent = NoContent
  Stream = {s1, s2}
  NoStream = NoStream
  Kind = {video}
  NoKind = NoKind
  MaxCols = 2
  MaxRows = 1
  MaxActors = 8
  MaxPresets = 0
  MaxChanges = 0
  WindowWidth = 5
  WindowHeight = 7
SYMMETRY Symmetry
VIEW ByPlace
PROPERTIES SameBoxIsNoop
