\* The five L4S queue discs, two bands of up to three packets.
SPECIFICATION DiscsSafety
CONSTANTS
  QueueLimit = 3
  Capacity <- MCCapacity
  MaxArrivals = 4
  MaxTime = 3
  ProbOne = 4
  AlphaU = 1
  BetaU = 1
  QDelayRef = 1
  TUpdate = 2
  K = 2
  DropProbL4SMax = 3
  L4SThreshTime = 1
  L4SThreshLen = 0
  NLF = 4
  NCF = 2
  CounterMod = 8
  PriorityTime = 2
  RoundRobinTime = 1
  MarkGain = 2
  DropGain = 1
  Smoothing = 2
  AvgUnit = 2
  ByteThreshold = 1
  A = 2
  B = 2
  FewPackets = 1
  MyPieTUpdate = 1
  MaxBurst = 3
  QDelayRefs <- MCQDelayRefs
  TUpdates <- MCTUpdates
  MaxBursts <- MCMaxBursts
  MinTh <- MCMinTh
  MaxTh <- MCMaxTh
  MaxProb <- MCMaxProb
INVARIANTS
  DiscsTypeOK
  Lockstep
  Accounting
  RoundRobinBound
  CountedDrops
PROPERTIES
  KeepsPromise
  Pi2Order
  Pi2MarkBeforeDrop
  CredPurges
  BurstsProtected
  TurnsWhole
\* Arrivals and time are bounded: the model stops where the system would go on.
CHECK_DEADLOCK FALSE
