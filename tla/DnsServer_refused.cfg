\* A refused update changes the list without a new serial.
SPECIFICATION FairSpec
CONSTANTS
  k1 = k1  s1 = s1  s2 = s2  z1 = z1  z2 = z2  v1 = v1  v2 = v2  v3 = v3
  h1 = h1  h2 = h2  h3 = h3
  KeyNames = {k1}  Secrets = {s1, s2}  ZoneNames = {z1}  Values = {v1, v2, v3}
  Blank = Blank  NoKey = NoKey  NoZone = NoZone  NilArray = NilArray
  Arrays = {1, 2}
  MaxLen = 4  SerialModulus = 3
  InitialKeys <- FullKey  InitialZones <- AllZones  InitialArrays <- NoArrays  AdminOps <- NoAdmin
  Handlers = {h1}  Requests <- RefusedRequests  Serves <- RefusedServes
  MaxRequests = 2
  NoRequest = NoRequest  NoTsig = NoTsig  NoName = NoName
PROPERTY SerialTracksAnswers
