SPECIFICATION FairSpec
CONSTANTS
  None = None
  MaxAttempts = 3
  MaxCalls = 4
  MaxStep = 2
  BackupCodes = {1, 2}
INVARIANTS OneAccount NotLockedOut UsedOnce PageAgrees
PROPERTY PagesComeBack
CHECK_DEADLOCK FALSE
