\* One call at a time: the menu, and what happens in the end.
SPECIFICATION FairSpec
CONSTANTS
  d1 = d1
  d2 = d2
  v1 = v1
  v2 = v2
  t1 = t1
  t2 = t2
  NoUrl = NoUrl
  Displays = {d1}
  Urls = {v1, v2}
  Tasks = {t1}
  Conditions = {"battery", "asleep"}
  UserActions = {"set", "toggle", "relaunch"}
  MaxActs = 2
  PauseOnBattery = TRUE
  EqualNotifies = TRUE
INVARIANT MenuTellsTheTruth
PROPERTIES
  PauseBites
  ResumeFollows
