\* Two messages at a time and an administrator who may do anything.
SPECIFICATION Spec
CONSTANTS
  k1 = k1  s1 = s1  s2 = s2  z1 = z1  z2 = z2  v1 = v1  v2 = v2  v3 = v3
  h1 = h1  h2 = h2  h3 = h3
  KeyNames = {k1}  Secrets = {s1, s2}  ZoneNames = {z1, z2}  Values = {v1, v2, v3}
  Blank = Blank  NoKey = NoKey  NoZone = NoZone  NilArray = NilArray
  Arrays = {1, 2, 3, 4, 5}
  MaxLen = 4  SerialModulus = 2
  InitialKeys <- FullKey  InitialZones <- OneListed  InitialArrays <- SpareArray  AdminOps <- AllAdmin
  Handlers = {h1, h2}  Requests <- SharedRequests  Serves <- SharedServes
  MaxRequests = 2
  NoRequest = NoRequest  NoTsig = NoTsig  NoName = NoName
INVARIANTS TypeOK ZoneIsolation AnswersSubmitted
PROPERTY AuthorisedWrites
