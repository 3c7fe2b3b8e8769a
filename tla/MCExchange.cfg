\* One charge and one sale, an unexpected receiver, payments by others.
SPECIFICATION Spec
CONSTANTS
  Charge = {c1}
  Sale = {s1}
  Status = {"pending", "processing", "paid"}
  Receiver = {pinned, other}
  Pinned = pinned
  MaxWallet = 2
  MaxHooks = 2
  None = None
INVARIANTS
  IInv
  NeverFalseSuccess
  TransfersAreOfOrders
  MirrorIsBehind
PROPERTIES
  SaleIsTracked
