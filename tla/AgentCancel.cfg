SPECIFICATION Spec
CONSTANTS
  Commands = {move}
  NoCommand = NoCommand
  MaxAsks = 2
  MaxTurns = 1
  Hazards = {"cancel"}
INVARIANTS CancelIsolates
