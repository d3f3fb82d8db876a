SPECIFICATION MigratorSpec
CONSTANTS
  Procs = {p, q}
  NFiles = 2
  Total <- MCTotal
  Reversible <- MCReversible
  MaxStarts = 3
  MaxFaults = 2
INVARIANTS
  RowsBacked
  FileOrder
  OneStatementGap
  WholeFiles
PROPERTIES
  BootMeansCurrent
SYMMETRY ProcessSymmetry
CHECK_DEADLOCK FALSE
