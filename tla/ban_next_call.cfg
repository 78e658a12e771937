\* NextCallRefused fails, without any failing call.
SPECIFICATION Spec
CONSTANTS
  admin = admin
  user = user
  r1 = r1
  r2 = r2
  NoUser = NoUser
  Users = {admin, user}
  Targets = {user}
  Admins = {admin}
  Requests = {r1, r2}
  TTL = 1
  MayFail = FALSE
PROPERTY NextCallRefused
