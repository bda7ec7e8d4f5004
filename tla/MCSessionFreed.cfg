SPECIFICATION Spec
CONSTANTS
  MaxReads = 2
  MaxConnects = 1
  MaxUtterances = 1
  MaxChunks = 1
INVARIANTS
  ClientOutlivesThread
