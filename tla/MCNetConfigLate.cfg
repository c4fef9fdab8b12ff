SPECIFICATION FairSpec
CONSTANTS
  Users = {u1}
  Home = home
  WebAddrs = {tried, lost}
  SettAddrs = {sett}
  Reachable = {home, tried, sett}
  Careless = TRUE
  MaxApplies = 1
  MaxSetts = 0
  MaxCuts = 0
  MaxFails = 0
CHECK_DEADLOCK FALSE
PROPERTIES ConfirmedStays
