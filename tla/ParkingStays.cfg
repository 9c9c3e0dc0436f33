SPECIFICATION FairSpec
CONSTANTS
  None = None
  Users = {u1}
  Slots = {s1}
  Branches = {b1}
  Resvs = {r1}
  Workers = {w1}
  Calls = {c1, c2}
  Sweeps = {k1}
  BranchOf <- OneBranch
  Scheduled <- OneScheduled
  Tolerance = 0
  Hour = 1
  MaxTime = 3
  LastCreate = 1
INVARIANTS CompletedStaysArePaid NeverExpiredEarly
PROPERTIES OneStayPerReservation ReservedSlotsAreFreed
