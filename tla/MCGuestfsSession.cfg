SPECIFICATION Spec
CONSTANTS
  MaxListeners = 3
  MaxCrashes = 2
INVARIANTS
  AckedOnAllMounts
  ReplayedOnlyAfterDeath
  ReleaseEndsOwnListeners
PROPERTIES
  SharedListenerLeftAlone
  OperationReturns
