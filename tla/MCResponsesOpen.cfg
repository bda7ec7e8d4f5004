SPECIFICATION Spec
CONSTANTS
  Contexts = {c1, c2}
  Segments = {s1, s2}
  EntityTypes = {date}
  MaxReads = 2
  MaxMessages = 2
INVARIANTS
  OpenSegmentsDiscarded
