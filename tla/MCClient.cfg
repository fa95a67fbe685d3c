SPECIFICATION FairSpec
CONSTANTS
  MaxFailures = 3
  MaxForms = 2
INVARIANTS OneReader
PROPERTIES SessionHeldWhileTrying LoginAnswered 
CHECK_DEADLOCK FALSE
