SPECIFICATION Spec
CONSTANTS
  Callers = {c1}
  Ops = {"move"}
  Console = {"start","desktop_on"}
  Hazards = {"fault"}
  UpCap = 1
  DownCap = 1
  FreshTicks = 0
  PingTicks = 0
  JobTicks = 1
  CallTicks = 2
  ArmTicks = 1
  MaxUptime = 0
PROPERTY FaultLocksSession
