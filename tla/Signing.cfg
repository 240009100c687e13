SPECIFICATION Spec
CONSTANTS
  k1 = k1  k2 = k2
  pathA = pathA  pathB = pathB  pathC = pathC
  Keygen <- MCKeygen
  Signer = {s1}
  Verifier = {v1}
  KeyPath <- MCKeyPath
  SubjectPath = {"report"}
  OutputPath = {"report.sig"}
  Data = {d1, d2}
  NoPath = NoPath
INVARIANTS
  TypeOK
  VerifiedWasSigned
  ReturnedPairStays
  FailedKeygenLeavesNothing
SYMMETRY Symmetry
CHECK_DEADLOCK FALSE
