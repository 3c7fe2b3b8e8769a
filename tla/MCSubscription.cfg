\* Two subscriptions of one buyer and one merchant.
SPECIFICATION Spec
CONSTANTS
  Id = {s1, s2}
  Buyer = {buyer}
  Merchant = {shop}
  Platform = platform
  Key = {key}
  Domain = here
  OtherDomain = elsewhere
  fee_bps = 1000
  Amount = {0, 10}
  Period = {1, 2}
  MaxPeriods = {0, 2}
  Expiry = {0, 4}
  Approval = {0, 20}
  Funds = 30
  MinPeriod = 2
  MaxTime = 4
  NotAfter = {3}
  None = None
SYMMETRY Symmetry
INVARIANTS
  IInv
  ChargeSpacing
  MandatesArePaid
  AttestationSingleUse
PROPERTIES
  TerminalIsFinal
  ImplementsMandate
