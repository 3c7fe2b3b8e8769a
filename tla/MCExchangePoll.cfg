\* One charge: is it polled until settled?
SPECIFICATION Spec
CONSTANTS
  Charge = {c1}
  Sale = {}
  Status = {"pending", "processing", "paid"}
  Receiver = {pinned, other}
  Pinned = pinned
  MaxWallet = 1
  MaxHooks = 2
  None = None
PROPERTIES
  PollUntilSettled
