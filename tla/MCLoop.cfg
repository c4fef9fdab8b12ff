SPECIFICATION FairSpec
CONSTANTS
  Fds <- MCFds
  MaxFds = 4
  MaxInputs = 2
  MaxClients = 3
  MaxPorts = 2
CHECK_DEADLOCK FALSE
INVARIANTS WatchedIsOpen
PROPERTIES StaleWakeHarmless ReloadServed StopServed ConnectionServed
