SPECIFICATION Spec
CONSTANTS
  Hosts = {"server", "proxy"}
  ListenHost = "server"
  Branches = {"b1", "b2"}
  MaxVias = 2
  MaxLines = 2
CHECK_DEADLOCK FALSE
INVARIANT ReadAsMeant
