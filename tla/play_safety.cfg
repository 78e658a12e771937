\* Overlapping calls, displays that come and go.
SPECIFICATION Spec
CONSTANTS
  d1 = d1
  d2 = d2
  v1 = v1
  v2 = v2
  t1 = t1
  t2 = t2
  NoUrl = NoUrl
  Displays = {d1, d2}
  Urls = {v1, v2}
  Tasks = {t1, t2}
  Conditions = {"lowpower", "locked"}
  UserActions = {"set", "toggle", "relaunch"}
  MaxActs = 2
  PauseOnBattery = TRUE
  EqualNotifies = FALSE
INVARIANTS
  TypeOK
  NoLostWakeup
  WindowsFollowScreens
  OlderChoicesStayGone
SYMMETRY TaskSymmetry
