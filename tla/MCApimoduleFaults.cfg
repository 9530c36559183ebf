SPECIFICATION ApimoduleSpec
CONSTANTS
  aes = aes
  rsa = rsa
  line = line
  other = other
  aesKey = aesKey
  rsaKey = rsaKey
  pin = pin
  wrong = wrong
  Threads = {t1, t2}
  Urls = {aes, other}
  Objects = {aesKey, rsaKey}
  ObjectOf <- MCObjectOf
  AesObjects = {aesKey}
  Pins = {pin, wrong}
  PinOf <- MCPinOf
  PreloadFile <- MCPreloadOther
  Handles = {h1, h2}
  TokenMayFail = TRUE
  MaxPairs = 2
  NoPin = NoPin
  NoHandle = NoHandle
  NoThread = NoThread
  NoUrl = NoUrl
INVARIANTS
  ApimoduleTypeOK
  InitialisedOnce
  OneTokenPerThread
  PreloadedOnce
  CachedTokenUsable
  WrappingKeysAgree
  SuccessHasObject
SYMMETRY MCSymmetry
