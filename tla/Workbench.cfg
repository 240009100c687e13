CONSTANTS
  a1 = a1  a2 = a2  here = here  there = there  b1 = b1  b2 = b2  m1 = m1
  s1 = s1  s2 = s2  live1 = live1  d1 = d1  d2 = d2  app = app  test = test
  Acceptor = {a1, a2}
  Handoff <- MCHandoff
  Profile <- MCProfile
  Builtin <- MCObserve
  MaxEdits = 1
  Field <- MCField
  Integrity <- MCIntegrity
  NotPresent = "NOT_PRESENT"
  NoArtifact = NoArtifact
  Mover = {m1}
  Builder = {b1, b2}
  Place = {here, there}
  Order <- MCOrder
  Job <- MCJob
  Earlier <- MCEarlier
  Layout <- MCLayout
  Scout <- MCScout
  MaxEntries = 1
  Content <- MCContent
  NoDigest = "none"
  Spdx = "spdx"
  Slsa = {"slsa"}
  NotMeasured = "none"
  Student = {s1, s2}
  Task <- MCTask
  Session = {live1}
  Daemon = {d1, d2}
  Agent = {"codex", "claude"}
  SessionAgent = {"codex"}
  Other = "other"
  Second = 2
  MaxTime = 2
  MaxEvents = 2
  MaxRecords = 2
  File = {app, test}
  Text = {"v1", "v2"}
  Absent = "absent"
SPECIFICATION WorkbenchSpec
CHECK_DEADLOCK FALSE
INVARIANTS
  WorkbenchTypeOK
  SettledOutputsVerify
  AcceptedMeetsItsPolicy
  TransitionTellsTheTruth
  AcceptedStudyIsTrue
  CorrelationIsEarned
  ValidCapsuleIsTheRun
