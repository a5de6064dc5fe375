\* Everything at once, for two keys and two zones; panics and waits for ever
\* end some behaviours.
SPECIFICATION FairSpec
CONSTANTS
  c1 = c1  c2 = c2  k1 = k1  k2 = k2  z1 = z1  z2 = z2
  Callers = {c1, c2}  Keys = {k1, k2}  Zones = {z1, z2}  NoBinding = NoBinding
  MaxBindings = 2  Calls <- OneKey  MaxCalls = 2  Timeouts = TRUE
  OtherWriters <- Anything  MaxOther = 2  MaxRestarts = 1
INVARIANTS TypeOK AcknowledgedBinds OnlyBoundZones CachedBindingsIndexed
PROPERTY LookupsReturn
CHECK_DEADLOCK FALSE
