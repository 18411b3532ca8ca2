SPECIFICATION Spec
CONSTANTS
  Tx = {t1}
  NoTx = NoTx
  Unarmed = Unarmed
  Price = 2
  Stock = 1
  Bills = {2}
  MaxCash = 2
  QueueCap = 2
  Actors = {"pickup", "timeout"}
  Faults = {}
PROPERTY CompletedIsFinal
CHECK_DEADLOCK FALSE
