SPECIFICATION FairSpec
CONSTANTS
  Users = {u1}
  Home = home
  WebAddrs = {tried, lost}
  SettAddrs = {sett}
  Reachable = {home, tried, sett}
  Careless = FALSE
  MaxApplies = 1
  MaxSetts = 1
  MaxCuts = 0
  MaxFails = 0
CHECK_DEADLOCK FALSE
PROPERTIES SettSurvives
