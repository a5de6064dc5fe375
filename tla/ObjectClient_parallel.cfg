\* Two zone updates at a time.
SPECIFICATION FairSpec
CONSTANTS
  c1 = c1  c2 = c2  z1 = z1  v1 = v1  v2 = v2
  Callers = {c1, c2}  Names = {z1}  Values = {v1, v2}  Blank = Blank  NoObject = NoObject
  SerialModulus = 100
  Calls <- OneSet  MaxCalls = 2  CallsFrom = {"running"}
  OtherWriters <- Nobody  MaxOther = 0  Timeouts = FALSE  MaxRelists = 0
  DeletesKnown = FALSE  InitialObjects <- Existing
PROPERTY CallsReturn
CHECK_DEADLOCK FALSE
