SPECIFICATION FairSpec
CONSTANTS
  Users = {u1, u2}
  Home = home
  WebAddrs = {tried, lost}
  SettAddrs = {sett}
  Reachable = {home, tried, sett}
  Careless = FALSE
  MaxApplies = 2
  MaxSetts = 0
  MaxCuts = 0
  MaxFails = 0
CHECK_DEADLOCK FALSE
INVARIANTS UnconfirmedIsUndone
