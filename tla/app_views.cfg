SPECIFICATION AppSpec
CONSTANTS
  c1 = c1
  c2 = c2
  Unset = Unset
  Categories = {"nature", "city"}
  Titles = {"", "lake", "hill"}
  Emails = {"ann", "bob"}
  Tables <- MCTables
  MaxWallpapers = 3
  Views = {"none", "home", "explore", "favorites", "detail", "admin"}
  Calls = {c1, c2}
  PageSize = 1
  Envs <- MCEnvs
  StdDefault = 1
  StdMax = 2
  Half = 4
  Offsets = {1, 4}
  MaxActs = 3
  Parts = {"none", "config", "playlists", "cache", "log"}
  Urls = {"lake.mp4", "hill.mp4"}
  NoUrl = "none"
  Settings = {"standard", "mine"}
  StdSetting = "standard"
  PlaylistIds = {"p", "q"}
  Contents = {"plain", "shuffled"}
  Absent = Absent
  Undecodable = Undecodable
  VideoIds = {"a", "b", "c"}
  Sizes = {1, 2, 4}
  UnitsPerMB = 2
  LimitMB = 2
  MaxFileCount = 2
  MaxLines = 1
  MaxLocalActs = 6
SYMMETRY CallSymmetry
INVARIANTS
  TypeOK
  ShownCanBeOpened
  HeartTellsTheTruth
  ShownIsPrefix
  ResultsAnswerQuestion
  PageWithinTotal
  LocalTypeOK
  ConfigRemembered
  PlaylistsSurviveRelaunch
  LimitHolds
  LogIsSuffix
CHECK_DEADLOCK FALSE
