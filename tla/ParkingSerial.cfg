SPECIFICATION SerialSpec
CONSTANTS
  None = None
  Users = {u1, u2}
  Slots = {s1, s2}
  Branches = {b1}
  Resvs = {r1, r2, r3}
  Workers = {w1}
  Calls = {c1}
  Sweeps = {k1}
  BranchOf <- OneBranch
  Scheduled <- NobodySchedules
  Tolerance = 0
  Hour = 1
  MaxTime = 2
  LastCreate = 1
SYMMETRY Symmetry
INVARIANT ParkedSlotsAreNotOffered
PROPERTY ImplementsLot
