SPECIFICATION FairSpec
CONSTANTS
  Callers = {c1}
  Ops = {"move","stop"}
  Console = {"start","session","disconnect"}
  Hazards = {"ioerror"}
  UpCap = 1
  DownCap = 1
  FreshTicks = 0
  PingTicks = 1
  JobTicks = 1
  CallTicks = 2
  ArmTicks = 1
  MaxUptime = 0
PROPERTIES StopIsSent CallReturns DisconnectEnds
