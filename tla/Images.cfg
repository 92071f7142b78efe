INIT Init
NEXT Next
CONSTANTS
  TAR_BLOCK_SIZE = 2
  NameField = 12
  PrefixField = 3
  OctalMax = 511
  LongOctalMax = 4095
  Second = 10
  HostTree <- MCHostTree
  IgnoreFiles <- MCIgnore
  Instructions <- MCInstructions
  Records <- MCRecords
  LowerPaths <- MCLower
  Jobs <- MCJobs
  Builders = {p1, p2}
  Images <- MCImageSet
  Index <- MCIndex
  Platform <- MCPlatform
  Operations = {"build", "push", "docker", "pull"}
  MaxAttempts = 3
  MaxFaults = 1

INVARIANTS
    PlanFollowsInstructions
    LayersReadBack
    TextsAreReadRight
    ImagesTravelWhole
    LayoutRecovers

CHECK_DEADLOCK FALSE
