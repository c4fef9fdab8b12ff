SPECIFICATION Spec
CONSTANTS
  Fds <- MCFds
  MaxFds = 4
  MaxInputs = 2
  MaxClients = 1
  MaxPorts = 1
CHECK_DEADLOCK FALSE
INVARIANTS SignalWakesSelect
