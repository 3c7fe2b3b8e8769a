\* Two pods and one payment, a crash or a failed write, a URL that comes and goes.
SPECIFICATION Spec
CONSTANTS
  Row = {o1}
  Worker = {w1, w2}
  Retries = 1
  Url = {"ok", "none"}
  MaxLosses = 1
  None = None
  ShopOrder = {x}
  Hook = {h1}
INVARIANTS
  IInv
  SentWasTried
  MarkedWasPaid
  PostsAreBounded
PROPERTIES
  EveryEventEnds
CHECK_DEADLOCK FALSE
