SPECIFICATION Spec
CONSTANTS
  Tx = {t1, t2}
  NoTx = NoTx
  Unarmed = Unarmed
  Price = 2
  Stock = 2
  Bills = {1, 2}
  MaxCash = 3
  QueueCap = 2
  Actors = {"pickup", "health"}
  Faults = {"sensor", "stop", "no_plan", "enable", "validator", "disable", "change", "refund", "motor", "open", "close"}
INVARIANTS TypeOK MoneyAccounted IntentsResolved AcceptsOnlyForSale
PROPERTIES MeetsContract NoSaleOverUnsettled NoSaleWithOpenWindow
CHECK_DEADLOCK FALSE
