SPECIFICATION LinkSpec
CONSTANTS
  d1 = d1
  d2 = d2
  Drill <- MCDrill
  Linker = {l1}
  NoLink = NoLink
  OutputPath = {"abl-demo-stop.json"}
  MaxSecond = 1
  MaxLate = 0
  MaxRestarts = 0
  UniqueSecond = TRUE
INVARIANT
  LinkDescribesWhatItBinds
CHECK_DEADLOCK FALSE
