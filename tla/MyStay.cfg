SPECIFICATION FairSpec
CONSTANTS
  None = None
  StartAt = 0
  ExpiresAt = 1
  QrTtl = 1
  Hour = 1
  MaxTime = 2
  MaxCalls = 2
  MaxAsked = 2
  MaxEvents = 2
INVARIANTS ShowsWhatItSaid PaidTwiceForAReason
PROPERTIES ParkedDriverLeaves
CHECK_DEADLOCK FALSE
