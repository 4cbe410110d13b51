SPECIFICATION Spec
CONSTANTS
  Consoles = {"a", "b"}
  Ops = {"run", "stop", "speak"}
  Modes = {"local"}
  MaxToken = 2
  Hazards = {"retain"}
PROPERTIES NeverReuse
