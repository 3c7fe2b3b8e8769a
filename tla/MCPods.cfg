\* One invoice, two payments, two pods that poll the same account.
SPECIFICATION Spec
CONSTANTS
  Order = {o1}
  Sub = {sub}
  Account = {acc}
  Watcher = {w1, w2}
  Slot = {poll}
  Request = {q1}
  Price = 7
  fee_bp = 98
  Payment = {5, 6}
  Genuine = {TRUE}
  Patch = {"cancelled"}
  MaxPayments = 2
  max_periods = 1
  PAGE_LIMIT = 2
  None = None
SYMMETRY Symmetry
CONSTRAINT NotLapsed
INVARIANTS
  IInv
  CountedAtMostOnce
  EventsAreTrue
PROPERTIES
  ImplementsOrderBook
