\* A binding made by BindKey is removed again; the contexts end.
SPECIFICATION FairSpec
CONSTANTS
  c1 = c1  c2 = c2  k1 = k1  k2 = k2  z1 = z1  z2 = z2
  Callers = {c1}  Keys = {k1}  Zones = {z1}  NoBinding = NoBinding
  MaxBindings = 1  Calls <- OneKey  MaxCalls = 2  Timeouts = TRUE
  OtherWriters = {}  MaxOther = 0  MaxRestarts = 0
PROPERTY UnbindReturns
CHECK_DEADLOCK FALSE
