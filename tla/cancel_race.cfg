SPECIFICATION Spec
CONSTANTS
  Tx = {t1}
  NoTx = NoTx
  Unarmed = Unarmed
  Price = 2
  Stock = 1
  Bills = {1, 2}
  MaxCash = 3
  QueueCap = 2
  Actors = {"pickup", "canceller", "orders", "hasty"}
  Faults = {"no_plan", "disable", "change", "refund"}
INVARIANT PaidBeforeVend
PROPERTY ChangeSettledBeforeVend
CHECK_DEADLOCK FALSE
