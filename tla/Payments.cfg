SPECIFICATION Spec
CONSTANTS
  None = None
  Calls = {c1, c2, c3, c4}
  MaxDue = 5
SYMMETRY Symmetry
INVARIANTS RowAddsUp NeverOvercharged
PROPERTY ImplementsLedger
CHECK_DEADLOCK FALSE
