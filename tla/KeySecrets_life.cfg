\* Everything at once; panics and waits that never end stop some behaviours.
SPECIFICATION Spec
CONSTANTS
  c1 = c1  c2 = c2  k1 = k1  v1 = v1  v2 = v2
  Callers = {c1, c2}  Keys = {k1}  Values = {v1, v2}  NoValue = NoValue  Absent = Absent
  MaxSecrets = 2  Calls <- LifeCalls  MaxCalls = 2  Timeouts = TRUE  Failures = TRUE
  OtherWriters <- Anything  MaxOther = 2  MaxRestarts = 1
INVARIANTS TypeOK CachedKeysReadable SecretsAccounted AcknowledgedSecretCached
PROPERTY KeyIsOneObject
SYMMETRY SameCallers
CHECK_DEADLOCK FALSE
