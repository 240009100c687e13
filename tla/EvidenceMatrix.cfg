SPECIFICATION Spec
CONSTANTS
  Body = {"b1", "b2"}
  Bytes = {"x", "y"}
  OtherPath = {"config"}
  MaxEdits = 4
  MaxEvents = 3
INVARIANTS
  TypeOK
  ManifestAnchorPinsFiles
  HeadAnchorPinsLedger
  OnlyCoordinatedRewritePasses
  MatrixAsExpected
