\* A merchant rotates his address while a payment is on its way.
SPECIFICATION Spec
CONSTANTS
  Order = {o1}
  Sub = {}
  Account = {a, b}
  Watcher = {w1}
  Slot = {poll}
  Request = {q1}
  Price = 7
  fee_bp = 98
  Payment = {6}
  Genuine = {TRUE}
  Patch = {}
  MaxPayments = 2
  max_periods = 2
  PAGE_LIMIT = 2
  None = None
INVARIANTS
  PinnedIsSettled
