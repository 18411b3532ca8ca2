SPECIFICATION Spec
CONSTANTS
  Tx = {t1}
  NoTx = NoTx
  Unarmed = Unarmed
  Price = 2
  Stock = 2
  Bills = {1, 2}
  MaxCash = 3
  QueueCap = 2
  Actors = {"pickup", "technician", "health", "timeout", "hasty"}
  Faults = {"sensor", "stop", "no_plan", "enable", "validator", "disable", "change", "refund", "motor", "open", "close", "change_partial", "change_error"}
INVARIANT SaleInvariant
PROPERTY MotorIntentDurable
CHECK_DEADLOCK FALSE
