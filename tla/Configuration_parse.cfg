\* The parser stops when it is done, has failed or has panicked.
SPECIFICATION Spec
CONSTANTS
  Programs <- All
  Nesting = 4
INVARIANTS TypeOK LastSourceWins FirstFaultReported PanicsExplained
CHECK_DEADLOCK FALSE
