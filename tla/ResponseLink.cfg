SPECIFICATION FairLinkSpec
CONSTANTS
  d1 = d1
  d2 = d2
  Drill <- MCDrill
  Linker = {l1}
  NoLink = NoLink
  OutputPath = {"abl-demo-stop.json"}
  MaxSecond = 1
  MaxLate = 2
  MaxRestarts = 1
  UniqueSecond = TRUE
INVARIANTS
  LinkTypeOK
  VerifiedLinkIsTrue
  EvidenceStaysTrue
PROPERTIES
  RemovesOnlyItsOwn
  DrillEnds
CHECK_DEADLOCK FALSE
