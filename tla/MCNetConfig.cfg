SPECIFICATION FairSpec
CONSTANTS
  Users = {u1}
  Home = home
  WebAddrs = {tried, lost}
  SettAddrs = {sett, far}
  Reachable = {home, tried, sett}
  Careless = FALSE
  MaxApplies = 2
  MaxSetts = 1
  MaxCuts = 2
  MaxFails = 2
CHECK_DEADLOCK FALSE
INVARIANTS UnconfirmedIsUndone
PROPERTIES BootEnds PendingEnds ComesBack
