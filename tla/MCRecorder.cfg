SPECIFICATION Spec
CONSTANTS
  SampleRate = 160
  Rates = {80, 160, 240, 441}
  Taps = 23
  CaptureSizes = {8, 24, 25, 41}
  FullScale = 4
  Levels <- MCLevels
  MaxFrames = 98
  MaxRecordings = 2
INVARIANTS
  TypeOK
  FreshAudio
  EvenSteps
  DriftBounded
  OutputPassed
PROPERTIES
  ReadsInBuffer
