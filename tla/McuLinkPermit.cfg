SPECIFICATION Spec
CONSTANTS
  Callers = {c1}
  Ops = {"move", "stop", "clear", "stat", "ping"}
  Console = {"start", "arm", "disarm"}
  Hazards = {"fault", "reboot"}
  UpCap = 1
  DownCap = 1
  FreshTicks = 0
  PingTicks = 0
  JobTicks = 1
  CallTicks = 2
  ArmTicks = 1
  MaxUptime = 1
SYMMETRY Symmetry
INVARIANTS PermitSound
PROPERTIES MotionOnlyWhenPermitted PermitKeptOrStopped
