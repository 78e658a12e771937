\* Two wallpapers, one request at a time, failures, retries and crashes.
SPECIFICATION Spec
CONSTANTS
  w1 = w1
  w2 = w2
  u1 = u1
  u2 = u2
  r1 = r1
  r2 = r2
  r3 = r3
  fits = fits
  other = other
  above = above
  huge = huge
  NoVideo = NoVideo
  NoWallpaper = NoWallpaper
  Wallpapers = {w1, w2}
  Users = {u1, u2}
  Uploader <- TwoUploaders
  Requests = {r1}
  Videos = {fits, other}
  VideoInfo <- VideoInfoOf
  MaxFileSize = 4
  MaxDuration = 3
  MinHeight = 2
  MaxDownloads = 1
  MaxCrashes = 1
INVARIANTS
  ReasonMeansRejected
  AssetsAgree
PROPERTY FollowsLifecycle
CHECK_DEADLOCK FALSE
