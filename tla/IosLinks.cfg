SPECIFICATION Spec
CONSTANTS
  Targets <- IosTargets
  CiTarget <- Aarch64
  Nobody = Nobody
  MaxBuilds = 2
INVARIANTS LinkReady
CHECK_DEADLOCK FALSE
