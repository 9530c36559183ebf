SPECIFICATION DeploymentSpec
CONSTANTS
  skc = skc
  skcuser = skcuser
  other = other
  nginx = nginx
  admin = admin
  i1 = i1
  i2 = i2
  i3 = i3
  r1 = r1
  r2 = r2
  r3 = r3
  s1 = s1
  s2 = s2
  t1 = t1
  t2 = t2
  Scripts = {i1, i2, i3}
  Users = {skc, skcuser, other}
  Permissions = {nginx, admin}
  SKC_USER <- MCUser
  PERMISSION <- MCPermission
  Begins <- MCBegins
  NoId = NoId
  Runs = {r1, r2, r3}
  Stores = {s1, s2}
  Earlier = Earlier
  Absent = Absent
  Damaged = Damaged
  Threads = {t1, t2}
  Modes = {"SGX", "SW"}
  NoMode = "none"
  Casts <- MCCasts
INVARIANTS
  DeploymentTypeOK
  TokenMeansEntitled
  IssuedPairMatches
  AnswersAgree
  LoadPresentsPair
CHECK_DEADLOCK FALSE
