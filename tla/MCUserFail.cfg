SPECIFICATION Spec
CONSTANTS
  Users = {u1, u2}
  Cards = {c1}
  u1 = u1
  u2 = u2
  c1 = c1
  NoUser = NoUser
  NoCard = NoCard
  SeedUser = u1
  SeedCard = c1
  Lists <- MCBadLists
  CommitEvery = 2
  RecLen = 2
  ChunkLen = 3
  IndexMod = 3
  FirstIndex = 2
  MaxFaults = 0
  MaxCommands = 0
  MaxPowerCuts = 0
INVARIANTS FailKeepsRoster
