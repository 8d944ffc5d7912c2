SPECIFICATION FairSpec
CONSTANTS
  MaxVersion = 2
  MaxFailures = 2
INVARIANTS RegisteredIsStored 
PROPERTIES  SubmissionsAreRegistered
CHECK_DEADLOCK FALSE
