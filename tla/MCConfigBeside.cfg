SPECIFICATION FairSpec
CONSTANTS
  db1 = db1
  db2 = db2
  pw0 = pw0
  pw1 = pw1
  own = own
  absent = absent
  Editors = {e1}
  Dbs <- Dbs1
  BadDb = db2
  Passwords = {pw0, pw1}
  Ports = {1, 2, 3}
  BadPort = 3
  OwnPath = own
  Absent = absent
  DefaultDb = db1
  DefaultPassword = pw0
  DefaultPort = 1
  FirstFile <- First
  NewFiles <- Installed
  Entries <- Entered
  MaxSaves = 2
  MaxInstalls = 1
  MaxStops = 1
CHECK_DEADLOCK FALSE
PROPERTIES ReloadLikeStart
