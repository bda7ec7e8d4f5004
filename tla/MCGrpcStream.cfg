SPECIFICATION Spec
CONSTANTS
    MaxCalls = 5
    MaxMessages = 2
INVARIANTS TypeOK NeverAborts SentOnce OpSetsLive
PROPERTIES ReadsInOrder ImplementsContract QueueDrains
CHECK_DEADLOCK FALSE
