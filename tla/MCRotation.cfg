\* One pod whose polls overlap, a merchant who rotates between two accounts, partial
\* payments and payments in the wrong asset, crashes in between.
SPECIFICATION Spec
CONSTANTS
  Order = {o1}
  Sub = {}
  Account = {a, b}
  Watcher = {w1}
  Slot = {s1, s2}
  Request = {q1}
  Price = 7
  fee_bp = 98
  Payment = {5, 6}
  Genuine = {TRUE, FALSE}
  Patch = {}
  MaxPayments = 2
  max_periods = 1
  PAGE_LIMIT = 2
  None = None
SYMMETRY Symmetry
INVARIANTS
  NothingSkipped
  SettledByPayment
