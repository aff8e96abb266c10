CONSTANTS
  MaxAsked = 2
  MaxChanges = 2
  MaxTurns = 1
  MaxFailures = 1
SPECIFICATION Spec
INVARIANTS OwnWritesShown ChosenIsShown
PROPERTY PolledCatchUp
CHECK_DEADLOCK FALSE
