SPECIFICATION Spec
CONSTANTS
  Callers = {c1, c2}
  Ops = {"servo", "config"}
  Console = {"start", "desktop_on"}
  Hazards = {"lose", "trip", "reconfig"}
  UpCap = 1
  DownCap = 1
  FreshTicks = 0
  PingTicks = 1
  JobTicks = 1
  CallTicks = 2
  ArmTicks = 1
  MaxUptime = 0
SYMMETRY Symmetry
INVARIANTS IInv
PROPERTIES LossNeedsConsent RequestIsOneShot
