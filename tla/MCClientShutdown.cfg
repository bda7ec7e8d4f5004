SPECIFICATION Spec
CONSTANTS
  Callers = {game, audio}
  Owner = game
  MaxRequests = 1
  MaxMessages = 1
  MaxFakes = 0
INVARIANTS
  ShutdownWhenDrained
