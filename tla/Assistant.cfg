\* Two turns of three decisions and two calls each; one task with two commitments
\* and a delegation.
SPECIFICATION AssistantSpec
CONSTANTS
  MaxDecisions = 3
  MaxCalls = 2
  MaxTurns = 2
  SemanticKeys = {"k1"}
  MaxTasks = 1
  MaxDelegations = 1
  MaxCommitments = 2
  SweepLimit = 2
 
PROPERTIES
  EveryTurnEnds
  
CHECK_DEADLOCK FALSE
