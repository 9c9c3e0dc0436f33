SPECIFICATION FairSpec
CONSTANTS
  None = None
  MaxChanges = 3
  Events = {e1, e2}
  MaxSendAttempts = 2
  MaxCrashes = 1
INVARIANTS
  FreshWhenQuiet CommittedIsHandled MailedTwiceForAReason
PROPERTIES Converges AuditComplete MailMovesOn
CHECK_DEADLOCK FALSE
