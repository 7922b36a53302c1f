SPECIFICATION EnvSpec
CONSTANTS
  MaxWorld = 1
  TextLength = 2
INVARIANTS
  PublishedComplete
PROPERTIES
  NeverBack
  Refreshes
  Reconnects
