SPECIFICATION PartSpec
CONSTANTS
  Background = {b}
  Overlay = {o}
  Private = {o}
  Probe = n
  MaxUrls = 2
  MaxPending = 1
  MaxEdits = 2
  MaxRestarts = 1
  FavUrl = {u}
  MaxChanges = 2
  Idle = Idle
  MaxStarts = 2
  MaxEnqueued = 1
  Link = {l1, l2}
  NoLink = NoLink
  Idx = {1, 2}
  None = None
  MaxCommands = 4
  MaxCloses = 2
  MaxTurns = 4
  MaxVotes = 4
  Platform = {linux, mac}
  Kind = {deb, zip}
  First = 1
  MaxVersion = 2
  Retries = 2
  MaxRelease = 2
  MaxLoads = 2
  Media = {m1, m2}
  NoMedia = NoMedia
  Frame = {f}
  Volume = {1, 2}
  Rotation = {0, 90}
  Unset = Unset
  MaxMoves = 4
  MaxMessages = 1
  MaxFatalErrorRetries = 3
  Site = {app, s1, s2, lo}
  NoSite = NoSite
  AppPage = app
  Loopback = {lo}
  Steady = {app, s1}
INVARIANTS PartsTypeOK RefusedAreNamed PublishedIsComplete
PROPERTIES ChangesAreSaved ServicesKeepOrder PartsProgress OffersHold PagesPlay NavigationHolds
CHECK_DEADLOCK FALSE
