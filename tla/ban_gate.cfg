\* Two requests in flight, failing calls, restarts.
SPECIFICATION FairSpec
CONSTANTS
  admin = admin
  user = user
  r1 = r1
  r2 = r2
  NoUser = NoUser
  Users = {admin, user}
  Targets = {user}
  Admins = {admin}
  Requests = {r1, r2}
  TTL = 2
  MayFail = TRUE
INVARIANTS
  TypeOK
  AdminOpsByAdmins
PROPERTIES
  NoRenewal
  BanEventuallyBites
  WrongBanExpires
