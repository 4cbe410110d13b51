SPECIFICATION Spec
CONSTANTS
  Commands = {move}
  NoCommand = NoCommand
  MaxAsks = 2
  MaxTurns = 2
  Hazards = {}
INVARIANTS ReportTruth
