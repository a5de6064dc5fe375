\* Everything at once; panics and waits for ever end some behaviours.
SPECIFICATION Spec
CONSTANTS
  c1 = c1  c2 = c2  z1 = z1  v1 = v1  v2 = v2
  Callers = {c1, c2}  Names = {z1}  Values = {v1}  Blank = Blank  NoObject = NoObject
  SerialModulus = 100
  Calls <- LifeCalls  MaxCalls = 2  CallsFrom = {"watch", "open", "running"}
  OtherWriters <- Anything  MaxOther = 2  Timeouts = TRUE  MaxRelists = 1
  DeletesKnown = FALSE  InitialObjects <- EitherWay
INVARIANT AcknowledgedCached
PROPERTIES PatchesAtomic ClosedIsQuiet
CHECK_DEADLOCK FALSE
