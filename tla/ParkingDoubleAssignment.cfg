SPECIFICATION SpecNoFailure
CONSTANTS
  None = None
  Users = {u1, u2}
  Slots = {s1}
  Branches = {b1}
  Resvs = {r1, r2}
  Workers = {w1}
  Calls = {c1, c2}
  Sweeps = {k1}
  BranchOf <- OneBranch
  Scheduled <- NobodySchedules
  Tolerance = 0
  Hour = 1
  MaxTime = 1
  LastCreate = 0
INVARIANT NoDoubleAssignment
