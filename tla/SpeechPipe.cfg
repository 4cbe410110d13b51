SPECIFICATION FairSpec
CONSTANTS
  MaxPhrases = 3
  QueueCap = 2
  Blocks = 2
  RingCap = 2
  FirstGate = 1
  NextGate = 2
  SegMax = 2
  Limit = 5
  Hazards = {"text", "model", "refuse", "synthesis", "device", "join", "late", "cancel"}
INVARIANTS IInv Lifetime NoCircularWait SuccessHeardAll
PROPERTIES EveryStepCounts TurnEnds TurnIsText
