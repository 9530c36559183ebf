SPECIFICATION KmsFairSpec
CONSTANTS
  u1 = u1
  u2 = u2
  Kms = kms_npm
  Threads = {t1, t2}
  Urls = {u1, u2}
  Malformed = {}
  Npms = {kms_npm}
  Supports <- MCSupports
  Stms = {SGX}
  Labels = {SGX, SW}
  SessionIds = {s1, s2}
  Swks = {k1}
  SwkTypes = {gcm}
  KeyTypes = {AES}
  MaxSessions = 2
  NoThread = NoThread
  NoUrl = NoUrl
  NoSid = NoSid
  NoLabel = NoLabel
PROPERTY HolderReturns
