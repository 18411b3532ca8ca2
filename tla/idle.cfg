SPECIFICATION FairSpec
CONSTANTS
  Tx = {t1}
  NoTx = NoTx
  Unarmed = Unarmed
  Price = 2
  Stock = 2
  Bills = {1, 2}
  MaxCash = 3
  QueueCap = 2
  Actors = {"pickup", "idle", "hasty"}
  Faults = {"sensor", "stop", "no_plan", "enable", "validator", "disable", "change", "refund", "motor", "open", "close"}
INVARIANT AtMostOneVend
PROPERTY AbandonedSaleEnds
CHECK_DEADLOCK FALSE
