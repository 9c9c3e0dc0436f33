SPECIFICATION FairSpec
CONSTANTS
  None = None
  Branches = {a, b}
  Requests = {1, 2}
  Deaths = {1}
INVARIANTS WaitIsTimed PatientDriver HonestAnswer RejectedOnRedelivery
PROPERTY WaitEnds
CHECK_DEADLOCK FALSE
