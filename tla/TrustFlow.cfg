SPECIFICATION BesideSpec
CONSTANTS
  f1 = f1
  f2 = f2
  Flow <- MCFlow
  Suite = {s1}
  Edited = {f1}
INVARIANTS
  TypeOK
  ExitZeroIsEarned
  SignedDecisionIsReported
  PackedRegistryIsTheIncidents
  LineageNamesTheWorkspace
CHECK_DEADLOCK FALSE
