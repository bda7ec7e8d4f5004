SPECIFICATION FairSpec
CONSTANTS
  MaxReads = 2
  MaxConnects = 2
  MaxUtterances = 2
  MaxChunks = 2
INVARIANTS
  TypeOK
  ContextsWellFormed
  GateClosed
  AudioUnbroken
  AudioKept
  ReportedOnce
PROPERTIES
  OwnFinishStops
  ImplementsDictation
  ErrorReported
  BufferingEnds
