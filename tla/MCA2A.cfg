\* Two runs at once in one process, behind one address.
SPECIFICATION Spec
CONSTANTS
  Visitor = {v1, v2}
  Client = {c}
  From <- OneClient
  MAX_PENDING_PER_CLIENT_RESOURCE = 1
  MAX_PENDING_PER_RESOURCE = 2
  MaxOrders = 4
  MaxFailures = 1
  max_per_window = 1
  window_seconds = 2
  Keep = 2
  max_amount = 1
  Price = 1
  Patience = 1
  MaxPays = 1
  MaxTime = 2
SYMMETRY Symmetry
CONSTRAINT ManyOrders
INVARIANTS
  IInv
  OpenIsBounded
  AttestedInWindow
  ServedWasPaid
PROPERTIES
  PaidStaysOpen
