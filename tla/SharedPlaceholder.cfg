SPECIFICATION FairSpec
CONSTANTS
  d1 = d1
  d2 = d2
  Drill <- MCDrill
  OutputPath = {"abl-demo-stop.json"}
  MaxSecond = 0
  MaxLate = 2
  MaxRestarts = 1
  UniqueSecond = FALSE
PROPERTY
  RemovesOnlyItsOwn
CHECK_DEADLOCK FALSE
