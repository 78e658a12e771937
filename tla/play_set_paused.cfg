\* NothingPlaysWhilePaused fails: a wallpaper is set on battery power.
SPECIFICATION Spec
CONSTANTS
  d1 = d1
  d2 = d2
  v1 = v1
  v2 = v2
  t1 = t1
  t2 = t2
  NoUrl = NoUrl
  Displays = {d1}
  Urls = {v1}
  Tasks = {t1}
  Conditions = {"battery"}
  UserActions = {"set"}
  MaxActs = 1
  PauseOnBattery = TRUE
  EqualNotifies = FALSE
INVARIANT NothingPlaysWhilePaused
