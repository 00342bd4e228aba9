SPECIFICATION Spec
CONSTANTS
  r1 = r1
  r2 = r2
  r3 = r3
  r4 = r4
  Release = {r1, r2, r3, r4}
  Legacy = legacy
  None = none
  Mixed = mixed
  Config <- ConfigIn
  Images <- ImagesIn
INVARIANTS RecordsAreTrue RollbackTargetIsKept
PROPERTY UnaskedKeepsRecordedConfig
