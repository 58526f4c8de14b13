SPECIFICATION Spec
CONSTANTS
  Clients = {1}
  QueueSize = 2
  MaxEvents = 4
  Streams = {1, 2}
  MaxSessions = 2
  MaxCommands = 3
INVARIANTS
  
  StreamHasNoGap
  
  NoCommandToTheGone
