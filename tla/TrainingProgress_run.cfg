SPECIFICATION ProgressSpec
CONSTANTS
  r1 = r1
  r2 = r2
  Readers <- TwoReaders
  MaxChunk = 3
  Initial = 2
  Replaced <- Stdout
  MaxWrites = 2
  MaxMishaps = 1
INVARIANTS LinesNotJoined NothingSkipped NeverAhead ValidIsWhole
SYMMETRY Symmetry
CHECK_DEADLOCK FALSE
