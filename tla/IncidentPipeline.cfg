SPECIFICATION FairSpec
CONSTANTS
  d1 = d1
  d2 = d2
  Demo <- MCDemo
  Adder = {a1}
  MaxSecond = 0
  MaxDamage = 1
INVARIANTS
  TypeOK
  SummaryIsTrue
  ExitZeroMeansContained
  DecisionsHaveEvidence
  IncidentPreservesHistory
PROPERTY
  DemoEnds
CHECK_DEADLOCK FALSE
