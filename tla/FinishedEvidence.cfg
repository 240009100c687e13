SPECIFICATION MCSpec
CONSTANTS
  p1 = p1
  p2 = p2
  Proc <- MCProc
  Config <- MCConfig
  Bytes <- MCConfig
  Body <- MCBody
  OtherPath = {"config", "agent-run", "controls", "docker-audit"}
  Probes = 1
  Readers = 1
  MaxSecond = 1
  MaxFaults = 1
PROPERTIES
  FinishedEvidenceIsStable
CHECK_DEADLOCK FALSE
