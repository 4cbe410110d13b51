SPECIFICATION Spec
CONSTANTS
  Callers = {c1,c2,c3}
  Ops = {"move","stop"}
  Console = {"start","desktop_on"}
  Hazards = {}
  UpCap = 1
  DownCap = 1
  FreshTicks = 0
  PingTicks = 0
  JobTicks = 1
  CallTicks = 2
  ArmTicks = 1
  MaxUptime = 0
PROPERTY StopOverrulesQueuedMotion
