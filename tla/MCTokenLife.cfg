SPECIFICATION TokenLifeSpec
CONSTANTS
  p1 = p1
  p2 = p2
  h1 = h1
  h2 = h2
  Processes = {p1, p2}
  rsa = rsa
  aes = aes
  Urls <- MCUrls
  AesUrls <- MCAesUrls
  Handles = {h1, h2}
  Settings <- MCSettings
  PreloadUrl = aes
  NoHandle = NoHandle
  NoUrl = NoUrl
SYMMETRY MCSymmetry
INVARIANTS
  TokenLifeTypeOK
  TableSessionReady
  SuccessIsSeen
  SuccessMeansUsable
  OneTokenEach
CHECK_DEADLOCK FALSE
