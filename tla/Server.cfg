\* Two requests at a time on two volumes, with one crash and one failed call; two downloads
\* against two changes of the profile; a migration of two faces, sent twice.
SPECIFICATION PartsSpec
CONSTANTS
  Requests = {r1, r2}
  ShareLists <- Lists
  Profiles = {p0, p1}
  NoProfile = p0
  Absent = Absent
  Torn = Torn
  MaxPuts = 2
  MaxRestarts = 1
  MaxErrors = 1
  Names = {"x", "y", "c", "d"}
  Root <- StorageRoot
  FirstTree <- Tree
  FirstBody <- Bodies
  Dir = Dir
  Partial = Partial
  Fresh = "fresh"
  ClientPaths <- Paths
  NewNames = {"x", "y"}
  MaxFiles = 7
  MaxOps = 2
  MaxTogether = 3
  small = small
  mobile = mobile
  det = det
  mbf = mbf
  mfn = mfn
  Setters = {c1, c2}
  ModelProfiles = {small, mobile}
  Pack <- Packs
  Needs <- Models
  Library = lib
  NoProfileYet = none
  MaxSets = 2
  MaxDownloads = 2
  MaxMisses = 1
  MaxKills = 1
  FaceKeys = {k1, k2}
  PersonNames = {Anna}
  NoName = NoName
  Imports = {i1}
  MaxScanned = 3
  MaxEdits = 1
  MaxBreaks = 1
  MaxImports = 2
SYMMETRY Symmetry
INVARIANTS
  PartsTypeOK
  FileIsWhole
  SettingsAgree
  NothingLost
  MovesLeaveOne
  OuterSharesStand
  ListedPathsResolve
  ModelsWhole
  EngineFollowsSettings
  RelationsSurvive
PROPERTIES
  ActsAsRegister
  DownloadMakesAvailable
\* Clients need not come.
CHECK_DEADLOCK FALSE
