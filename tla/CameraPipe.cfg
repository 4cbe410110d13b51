SPECIFICATION FairSpec
CONSTANTS
  Modes = {TRUE, FALSE}
  MaxFrames = 6
  Hazards = {"io", "display", "npu", "thread", "join", "slow"}
INVARIANTS EndInv SlotOwner ChecksNeverFire NoCircularWait Lifetime SuccessShowsAll FailureReported
PROPERTIES EveryStepCounts PipeIsPlayer JobEnds
CHECK_DEADLOCK FALSE
