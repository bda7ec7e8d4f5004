SPECIFICATION LiveSpec
CONSTANTS
  Callers = {game, audio}
  Owner = game
  MaxRequests = 2
  MaxMessages = 1
  MaxFakes = 0
PROPERTIES
  ExitReturns
  KillReturns
  RequestsFlow
  CancelledExitEnds
