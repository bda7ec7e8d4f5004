SPECIFICATION Spec
CONSTANTS
  Callers = {game, audio}
  Owner = game
  MaxRequests = 2
  MaxMessages = 2
  MaxFakes = 1
INVARIANTS
  TypeOK
  PermissionsExact
  RequestsInOrder
  ResponsesInOrder
  NoMessageLost
  NoSilentDeath
PROPERTIES
  ImplementsRelay
  UsesStream
