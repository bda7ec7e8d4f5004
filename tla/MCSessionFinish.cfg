SPECIFICATION Spec
CONSTANTS
  MaxReads = 2
  MaxConnects = 1
  MaxUtterances = 2
  MaxChunks = 1
PROPERTIES
  OnlyActiveFinishStops
