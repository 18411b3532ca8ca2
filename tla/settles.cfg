SPECIFICATION FairSpec
CONSTANTS
  Tx = {t1}
  NoTx = NoTx
  Unarmed = Unarmed
  Price = 2
  Stock = 2
  Bills = {1, 2}
  MaxCash = 3
  QueueCap = 2
  Actors = {"pickup", "timeout"}
  Faults = {"sensor", "stop", "no_plan", "enable", "validator", "disable", "change", "refund", "motor", "open", "close"}
PROPERTIES PaidSaleSettles WindowCloses
CHECK_DEADLOCK FALSE
