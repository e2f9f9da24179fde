SPECIFICATION Spec
CONSTANTS
  Targets <- HostTargets
  CiTarget <- Aarch64
  Nobody = Nobody
  MaxBuilds = 3
INVARIANTS TypeOK LinkReady CiUploadsOwn
CHECK_DEADLOCK FALSE
