SPECIFICATION Spec
CONSTANTS
  c1 = c1
  c2 = c2
  shared = shared
  Clients <- TwoIds
  Dirs <- DirsOfIds
  DirOf <- DirOfId
  Disks = {"cpm63k", "blank"}
  Values = {0, 1}
  Template <- Templates
  MaxSessions = 2
  MaxPending = 1
  MaxRestarts = 1
  Missing = Missing
  Short = Short
  NoClient = NoClient
CHECK_DEADLOCK FALSE
INVARIANTS
  Durable
  ReadBack
PROPERTIES
  InitEnds
