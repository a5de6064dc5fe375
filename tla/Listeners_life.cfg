\* Every life of a server: failures and the end of both contexts at any time.
SPECIFICATION FairSpec
CONSTANTS
  Failures = {"bind", "starting", "serving"}
  Expiring = {"start", "stop"}
INVARIANTS TypeOK StoppedIsQuiet FailedStartIsQuiet StopErrorExplained
PROPERTIES StopReturns EndTogether
