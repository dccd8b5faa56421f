CONSTANTS
  f1 = f1
  f2 = f2
  f3 = f3
  NONE = NONE
  Entries <- MCEntries
  Defaults <- MCDefaults
  Args <- MCArgs
  MaxEntries = 3
  MaxDefaults = 1
  MaxArgs = 2
  SimArgs <- MCSimArgs
  USE_ZLIB = TRUE
SPECIFICATION Spec
INVARIANT TypeOK
INVARIANT StrategiesAsSelected
INVARIANT AbortOnlyOnBadArguments
\* Start-up either aborts or ends in the getLBAllocFn loop; an abort stops
\* the process.
CHECK_DEADLOCK FALSE
