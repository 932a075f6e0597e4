SPECIFICATION Spec
CONSTANTS
  edit = edit
  checkpoint = checkpoint
  manual = manual
  Calls <- MCCalls
  Kind <- MCKind
  OwnRunning <- MCOwnRunning
  OwnExpensive <- MCOwnExpensive
  Capacities <- MCCapacities
  MaxCrashes = 1
  MaxTimeouts = 1
CHECK_DEADLOCK FALSE
INVARIANTS
  WorkBounded
  BlockedForCause
PROPERTIES
  AgedNotOvertaken
