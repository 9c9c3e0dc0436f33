SPECIFICATION ReplicasSpec
CONSTANTS
  None = None
  Users = {u1}
  Slots = {s1, s2}
  Branches = {b1}
  Resvs = {r1, r2}
  Workers = {w1, w2}
  Calls = {c1}
  Sweeps = {k1}
  BranchOf <- OneBranch
  Scheduled <- NobodySchedules
  Tolerance = 0
  Hour = 1
  MaxTime = 1
  LastCreate = 1
SYMMETRY Symmetry
INVARIANTS ReservedSlotsAreAccountedFor TwoPendingOnlyByOverlap
