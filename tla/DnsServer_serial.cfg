\* Every kind of message, one update at a time: the handlers implement ChallengeZones.
SPECIFICATION FairSpec
CONSTANTS
  k1 = k1  s1 = s1  s2 = s2  z1 = z1  z2 = z2  v1 = v1  v2 = v2  v3 = v3
  h1 = h1  h2 = h2  h3 = h3
  KeyNames = {k1}  Secrets = {s1, s2}  ZoneNames = {z1}  Values = {v1, v2, v3}
  Blank = Blank  NoKey = NoKey  NoZone = NoZone  NilArray = NilArray
  Arrays = {1, 2, 3, 4}
  MaxLen = 8  SerialModulus = 3
  InitialKeys <- FullKey  InitialZones <- TwoListed  InitialArrays <- RoomyArray  AdminOps <- SerialAdmin
  Handlers = {h1, h2}  Requests <- SerialRequests  Serves <- SerialServes
  MaxRequests = 3
  NoRequest = NoRequest  NoTsig = NoTsig  NoName = NoName
INVARIANTS AnswersSubmitted AcknowledgedAppendsVisible SnapshotReads
PROPERTIES ImplementsZones RequestsFinish
