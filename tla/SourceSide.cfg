SPECIFICATION SideSpec
CONSTANTS
  Configured = {"a", "/b"}
  Normalized <- MCNormalized
  DockerAfter = 3
  DetachedAfter = 1
  Zero = Zero
  MaxTime = 7
  MaxChunk = 3
  MaxBytes = 6
INVARIANTS
  DockerVerdict
  ContainersVerdict
  LinesExact
CHECK_DEADLOCK FALSE
