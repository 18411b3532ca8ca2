SPECIFICATION DurableSpec
CONSTANTS
  Tx = {t1, t2}
  NoTx = NoTx
  Unarmed = Unarmed
  Price = 2
  Stock = 2
  Bills = {3}
  MaxCash = 3
  QueueCap = 1
  MaxLosses = 1
  Actors = {"pickup", "technician", "timeout"}
  Faults = {"motor", "open", "close", "change"}
INVARIANT ReleaseIsOnDisk
PROPERTIES NoSaleOverInterruptedRelease PayoutIntentDurable NoReleaseAfterRestart
CHECK_DEADLOCK FALSE
