\* The headers of the reply arrive, its body does not.
CONSTANTS
  Requests = {r1}
  Payments = {p1}
  None = None
  Version = "w5"
  HasFallback = TRUE
  TTL = 2
  ClockSkews <- InStep
  Margin = 1
  StateLag = 1
  Drift = 1
  RelayHashes = FALSE
  SignUntil = 1
  MaxTime = 4
SPECIFICATION Spec
INVARIANTS OtherErrorsSentNothing
CHECK_DEADLOCK FALSE
