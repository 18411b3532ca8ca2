SPECIFICATION DurableSpec
CONSTANTS
  Tx = {t1}
  NoTx = NoTx
  Unarmed = Unarmed
  Price = 2
  Stock = 2
  Bills = {3}
  MaxCash = 3
  QueueCap = 1
  MaxLosses = 1
  Actors = {"pickup"}
  Faults = {}
PROPERTY CashSurvivesRestart
CHECK_DEADLOCK FALSE
