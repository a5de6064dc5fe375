\* One caller; it stops when its calls are answered.
SPECIFICATION FairSpec
CONSTANTS
  c1 = c1  c2 = c2  z1 = z1  v1 = v1  v2 = v2
  Callers = {c1}  Names = {z1}  Values = {v1, v2}  Blank = Blank  NoObject = NoObject
  SerialModulus = 100
  Calls <- LifeCalls  MaxCalls = 5  CallsFrom = {"running"}
  OtherWriters <- Nobody  MaxOther = 0  Timeouts = FALSE  MaxRelists = 0
  DeletesKnown = TRUE  InitialObjects <- EitherWay
INVARIANTS TypeOK CallsSynchronous
PROPERTIES CallsReturn CacheConverges
CHECK_DEADLOCK FALSE
