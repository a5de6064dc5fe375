\* A binding is deleted on the API server.
SPECIFICATION Spec
CONSTANTS
  c1 = c1  c2 = c2  k1 = k1  k2 = k2  z1 = z1  z2 = z2
  Callers = {c1}  Keys = {k1}  Zones = {z1}  NoBinding = NoBinding
  MaxBindings = 1  Calls <- BindOnly  MaxCalls = 1  Timeouts = FALSE
  OtherWriters = {"delete"}  MaxOther = 1  MaxRestarts = 0
INVARIANT OnlyPresentBindings
CHECK_DEADLOCK FALSE
