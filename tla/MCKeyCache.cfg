SPECIFICATION CacheSpec
CONSTANTS
  p1 = p1
  p2 = p2
  rsa = rsa
  rsa2 = rsa2
  aes = aes
  Processes = {p1, p2}
  Urls = {rsa, rsa2, aes}
  RsaUrls = {rsa, rsa2}
  SqlMayFail = TRUE
  MaxRows = 5
  NoUrl = NoUrl
INVARIANTS
  CacheTypeOK
PROPERTIES
  StoredMeansWhole
  WholeKeysStay
  LoadRepairs
SYMMETRY MCSymmetry
