SPECIFICATION TokenLifeFairSpec
CONSTANTS
  p1 = p1
  p2 = p2
  h1 = h1
  h2 = h2
  Processes = {p1, p2}
  rsa = rsa
  aes = aes
  Urls <- MCUrls
  AesUrls <- MCAesUrls
  Handles = {h1}
  Settings <- MCAllMayFail
  PreloadUrl = aes
  NoHandle = NoHandle
  NoUrl = NoUrl
PROPERTIES
  LoadsEnd
  ForksReturn
CHECK_DEADLOCK FALSE
