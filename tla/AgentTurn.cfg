SPECIFICATION FairSpec
CONSTANTS
  Commands = {move}
  NoCommand = NoCommand
  MaxAsks = 2
  MaxTurns = 2
  Hazards = {"cancel", "interrupt", "bus", "bad", "shutdown"}
INVARIANTS ShownInv OwnReply ToolOnce ActionShown
PROPERTIES BridgeIsMailbox AskEnds
