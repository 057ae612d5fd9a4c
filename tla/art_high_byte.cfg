SPECIFICATION Spec
CONSTANTS
  Null = Null
  SIZE4 = 2
  SIZE16 = 3
  SIZE48 = 5
  Entries <- HighEntries
  Fuel = 12
INVARIANT IterationSorted
