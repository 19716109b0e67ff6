\* The live demo with any of its adapters local, missing, failing, hanging or
\* answering anything they may.
SPECIFICATION Spec
CONSTANTS
  MaxRows = 2
  Signatures = {"required"}
CHECK_DEADLOCK FALSE
INVARIANTS
  TypeOK
  SuccessIsHonest
  FallbackIsNoted
  FailStands
  FailsClosed
  CutOffIsNoAnswer
  DoctorWarns
PROPERTIES
  ImplementsLifecycle
  DemoEnds
