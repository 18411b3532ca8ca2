SPECIFICATION PartsSpec
CONSTANTS
  Purchases = {s1, s2}
  Nobody = Nobody
  NoPlan = NoPlan
  Denominations = {1, 3, 5}
  Loaded <- MCLoaded
  BillValues = {2, 5}
  Prices = {4, 6}
  Callers = {c1, c2}
  Keys = {k1, k2}
  Retries = 1
  CacheSize = 1
  MaxCalls = 2
  Senders = {c1, c2}
  MaxBills = 2
  MaxRefusals = 1
  MaxCommands = 2
  LineCap = 3
  Clients = {c1, c2}
  MaxAsked = 3
  MaxFaults = 1
  Items = {i1, i2}
  NoItem = NoItem
  Capacity = 2
  SlotNamed = {i1}
  MaxEdits = 2
  MaxSold = 1
  PolledDevices = {"motor", "door", "temperature"}
  Sensors = {"door", "temperature"}
  MaxWorldSteps = 2
  Orders = {o1, o2}
  NoOrder = NoOrder
  Taps = {p1, p2}
  MaxTaps = 2
  MaxTroubles = 1
  Writers = {w1, w2}
  Suspending = {w1, w2}
  NoWriter = NoWriter
  Rows = {r1, r2}
  MaxCuts = 1
  Finished = {s1, s2}
  Flushers = {f1}
  MaxSyncs = 1
  MaxFailures = 8
  MaxEmitted = 4
  BufferSize = 3
  Kiosks = {kiosk}
  Tools = {tool}
  Managed = 2
  CancelOrder <- MCOrder
  MaxSaleSteps = 1
  MaxMishaps = 1
  Nowhere = Nowhere
  Played = {"vend", "enable", "bill"}
  PlayedCodes = {"command_timeout", "motor_fault", "bill_jam"}
  HitsAtOnce = {1, 2}
  SimulatorRetries = 1
  MaxPlans = 2
  MaxPlayed = 2
  Recorded = {s1, s2}
  Nominals = {5}
  Shelf <- MCShelf
  Legacy = "legacy"
  ListLimit = 2
  MaxChanges = 3
  MaxNotes = 4
  MaxOutages = 1
  MaxDrumFaults = 3
INVARIANT PartsTypeOK
INVARIANT ReservesBalance
INVARIANT PlansAreExact
INVARIANT CountsAreTrue
INVARIANT OneMovePerKey
INVARIANT BillsAnnouncedOnce
INVARIANT StoppedMeansOff
INVARIANT OwnAnswers
INVARIANT WindowRemembered
INVARIANT BouquetIsThere
INVARIANT WhatIsSeenIsBlocked
INVARIANT BlocksAreAtomic
INVARIANT JournalRowsKept
INVARIANT NothingForgotten
INVARIANT OrderlyEnd
INVARIANT HitsAreSpent
INVARIANT RowsComeBack
PROPERTY SupportedSaleFindsChange
PROPERTY FaultsAreNoticed
PROPERTY DrumStops
PROPERTY PurchaseKeptWhileCollecting
CHECK_DEADLOCK FALSE
