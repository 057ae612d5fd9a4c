SPECIFICATION Spec
CONSTANTS
  Null = Null
  SIZE4 = 2
  SIZE16 = 3
  SIZE48 = 5
  Entries <- MCEntries
  Fuel = 12
INVARIANTS
  TypeOK
  Compressed
  OperationsExact
  LookupsAgree
  IterationSorted
