SPECIFICATION Spec
CONSTANTS
  Invocations = {i1, i2}
  Pixels = {p, q}
  MaxLookups = 2
  MaxPublications = 2
  MaxLost = 1
  MaxDamage = 1
  MaxFaults = 1
  MaxKills = 1
INVARIANTS
  AnswersHold
  OwnedUploadsAreReleased
PROPERTIES
  SoundObjectsStay
  EveryInvocationEnds
CHECK_DEADLOCK FALSE
