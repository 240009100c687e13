SPECIFICATION Spec
CONSTANTS
  Flow = {f1}
  Suite = {}
  Edited = {}
INVARIANT
  ObserveDoesNotBlock
CHECK_DEADLOCK FALSE
