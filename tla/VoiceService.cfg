SPECIFICATION FairSpec
CONSTANTS
  Consoles = {"a", "b"}
  Ops = {"run", "stop", "mode", "ask", "camera", "live-stop", "speak"}
  Modes = {"local", "cloud", "auto"}
  MaxToken = 2
  Hazards = {"retain", "stuck", "cleanup", "cloud", "error", "spawn"}
INVARIANTS IInv Exclusive OwnFrame CloudOnly
PROPERTIES DevicesAreLeased DoubtEndsTurn StopEnds LeaseEnds
