\* FinalizeOnlyFromPending fails.
SPECIFICATION Spec
CONSTANTS
  w1 = w1
  w2 = w2
  u1 = u1
  u2 = u2
  r1 = r1
  r2 = r2
  r3 = r3
  fits = fits
  other = other
  above = above
  huge = huge
  NoVideo = NoVideo
  NoWallpaper = NoWallpaper
  Wallpapers = {w1}
  Users = {u1, u2}
  Uploader <- OneUploader
  Requests = {r1, r2}
  Videos = {fits}
  VideoInfo <- VideoInfoOf
  MaxFileSize = 4
  MaxDuration = 3
  MinHeight = 2
  MaxDownloads = 1
  MaxCrashes = 0
PROPERTY FinalizeOnlyFromPending
CHECK_DEADLOCK FALSE
