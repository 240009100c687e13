SPECIFICATION FairSpec
CONSTANTS
  d1 = d1
  d2 = d2
  Demo <- MCDemo
  Adder = {}
  MaxSecond = 0
  MaxDamage = 0
INVARIANT
  IncidentStaysVerified
CHECK_DEADLOCK FALSE
