SPECIFICATION FairSpec
CONSTANTS
  Node = {1, 2, 3}
  MaxDeps = 2
  MaxEdges = 4
  Configs <- AllConfigs
INVARIANTS CyclesAreReal StartupOrder
PROPERTIES Settles
CHECK_DEADLOCK FALSE
