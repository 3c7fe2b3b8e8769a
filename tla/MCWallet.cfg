\* One session key and one merchant's pull policy side by side, windows and
\* intervals of 2 seconds, three of which can be opened in the time there is.
SPECIFICATION Spec
CONSTANTS
  Address = {shop, admin, self}
  Admin = admin
  Self = self
  Merchant = {shop, admin, self}
  Agent = {k1}
  Passkey = passkey
  Token = {usdc}
  Amount = {0, 1, 2}
  Seconds = {2}
  Expiry = {0, 4}
  MaxAbsolute = 1
  MAX_CAP_MULTIPLIER = 2
  MAX_WINDOW_MULTIPLIER = 2
  PROVED_WINDOW_MULTIPLIER = 2
  MinSeconds = 2
  MaxTime = 5
  MaxContexts = 2
  None = None
INVARIANTS
  IInv
  WindowBound
  SustainedRate
  PullBound
PROPERTIES
  UnsignedIsAllPulls
  RevokedIsFinal
