SPECIFICATION Spec
CONSTANTS
  Tx = {t1}
  NoTx = NoTx
  Unarmed = Unarmed
  Price = 2
  Stock = 1
  Bills = {4}
  MaxCash = 4
  QueueCap = 2
  Actors = {}
  Faults = {"change_partial"}
INVARIANT NeverOverpays
CHECK_DEADLOCK FALSE
