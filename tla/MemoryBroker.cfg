SPECIFICATION Spec
CONSTANTS
  Ttl = 1
  MaxTime = 3
  MaxCommands = 3
  MaxBeats = 2
  MaxSetbacks = 1
  MaxRestarts = 1
PROPERTY ExpiryHolds
PROPERTY PhoneMovesForward
PROPERTY ImplementsChannel
