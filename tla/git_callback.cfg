SPECIFICATION Spec
CONSTANTS
  MaxRequests = 2
  MaxCommits = 0
  MaxCommands = 2
PROPERTIES
  CallbackSetBeforeStart
