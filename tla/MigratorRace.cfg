SPECIFICATION MigratorSpec
CONSTANTS
  Procs = {p, q}
  NFiles = 2
  Total <- MCTotal
  Reversible <- MCReversible
  MaxStarts = 2
  MaxFaults = 0
INVARIANTS
  StatusAccurate
SYMMETRY ProcessSymmetry
CHECK_DEADLOCK FALSE
