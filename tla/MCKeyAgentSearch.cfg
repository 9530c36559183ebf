SPECIFICATION Spec
CONSTANTS
  n1 = n1
  n2 = n2
  u1 = u1
  u2 = u2
  Threads = {t1, t2}
  Urls = {u1, u2, bad}
  Malformed = {bad}
  Npms = {n1, n2}
  Supports <- MCSupports
  Stms = {sgx, sw}
  SessionIds = {s1, s2}
  Swks = {k1}
  SwkTypes = {gcm}
  KeyTypes = {aes}
  MaxSessions = 2
  NoThread = NoThread
  NoUrl = NoUrl
INVARIANT UnsupportedMeansNoNpm
