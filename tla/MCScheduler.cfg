SPECIFICATION FairSpec
CONSTANTS
  MAX_PROCS = 5
INVARIANTS
  TypeOK
  OneRunning
  ContextIntegrity
  NoProcessLost
  BoundedWait
PROPERTIES
  Progress
  ImplementsRoundRobin
