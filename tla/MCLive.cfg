SPECIFICATION MCSpec
CONSTANTS
  RawView = {r1, r2}
  NoView = NoView
  Content = {a, b}
  NoContent = NoContent
  Position = {p}
  NoPosition = NoPosition
  Volume = {1}
  DefaultVolume = 1
  NoVolume = NoVolume
  MaxRetries = 1
  MaxCommands = 4
  Poll = {"url"}
  File = {"file"}
  Link = {1, 2}
  Kind = {"video"}
  NoKind = NoKind
  Bad = Bad
  DefaultKind = "video"
  Rotation = {90}
  NoRotation = 0
  Prefix <- MCPrefix
  Playlist <- MCPlaylist
INVARIANT ListAgrees
PROPERTIES NothingHangs KeepsStreams SourcesGoOn
CHECK_DEADLOCK FALSE
