SPECIFICATION ApimoduleSpec
CONSTANTS
  aes = aes
  rsa = rsa
  line = line
  other = other
  aesKey = aesKey
  rsaKey = rsaKey
  pin = pin
  wrong = wrong
  Threads = {t1, t2}
  Urls = {aes, rsa, line}
  Objects = {aesKey, rsaKey}
  ObjectOf <- MCObjectOf
  AesObjects = {aesKey}
  Pins = {pin, wrong}
  PinOf <- MCPinOf
  PreloadFile <- MCPreloadFile
  Handles = {h1, h2}
  TokenMayFail = FALSE
  MaxPairs = 2
  NoPin = NoPin
  NoHandle = NoHandle
  NoThread = NoThread
  NoUrl = NoUrl
INVARIANTS
  SearchesEnd
  LoadedOnce
  TokenKeepsPin
SYMMETRY MCSymmetry
