---------------------------- MODULE MCDnsServer -----------------------------
(* Instances of DnsServer for TLC: the messages, initial configurations     *)
(* and management operations of each run.                                   *)
EXTENDS DnsServer, FiniteSets, TLC

CONSTANTS k1, s1, s2, z1, z2, v1, v2, v3, h1, h2, h3

\* Update messages.
Record(op, v) == [op |-> op, value |-> v]
Signature(s)  == [key |-> k1, secret |-> s, supported |-> TRUE]
Message(kind, z, tsig, records) ==
  [kind |-> kind, single |-> TRUE, qtype |-> "TXT", lookup |-> z, exact |-> z,
   tsig |-> tsig, records |-> records]
Update(z, records) == Message("update", z, Signature(s1), records)
Query(z)           == Message("query", z, NoTsig, <<>>)

Clear     == Record("clear", v1)
Add(v)    == Record("append", v)
Remove(v) == Record("remove", v)
BadType   == Record("notTxt", v1)
BadName   == Record("outOfZone", v1)

\* Keys and zones at the start.
BoundKey(zs) == [secret |-> s1, zones |-> zs]
AllZones     == {[z \in ZoneNames |-> NewZone]}
NoArrays     == [a \in Arrays |-> <<>>]

\* z1 is configured with len answers in array 1, which has room for more.
ListedZone(len) == [NewZone EXCEPT !.answers = [arr |-> 1, len |-> len]]
OneListed    == {[z \in ZoneNames |-> IF z = z1 THEN ListedZone(1) ELSE NewZone]}
SpareArray   == [a \in Arrays |-> IF a = 1 THEN <<v1, v2>> ELSE <<>>]
TwoListed    == {[z \in ZoneNames |-> IF z = z1 THEN ListedZone(2) ELSE NewZone]}
RoomyArray   == [a \in Arrays |-> IF a = 1 THEN <<v1, v2, v3, v3>> ELSE <<>>]
FullKey      == {[k \in KeyNames |-> BoundKey(ZoneNames)]}

\* The handlers against each other and the administrator.
SharedUpdates == {Update(z1, <<Clear, Add(v1)>>), Update(z1, <<Add(v2)>>), Update(z1, <<Add(v3)>>),
                  Update(z1, <<Clear, Remove(v2), BadType>>), Update(z2, <<Add(v3)>>)}
SharedRequests == SharedUpdates \cup {Query(z1)}
SharedServes == (h1 :> SharedUpdates) @@ (h2 :> SharedRequests)
AllAdmin == {"CreateKey", "DeleteKey", "SetKeySecret", "BindKey", "UnbindKey",
             "CreateZone", "DeleteZone"}

\* Every kind of message, the malformed and unsigned ones included.
Malformed(m)  == [m EXCEPT !.single = FALSE]
Unprefixed(m) == [m EXCEPT !.lookup = NoName, !.exact = NoName]
MixedCase(m)  == [m EXCEPT !.exact = NoName]
BadAlgorithm  == [Signature(s1) EXCEPT !.supported = FALSE]
OddRequests ==
  LET add   == Update(z1, <<Add(v1)>>)
      query == Query(z1)
  IN  {add, Update(z1, <<Add(v1), BadName>>),
       Malformed(add), Unprefixed(add), MixedCase(add), Update(z1, <<BadType>>),
       [add EXCEPT !.tsig = NoTsig], [add EXCEPT !.tsig = Signature(s2)],
       [add EXCEPT !.tsig = BadAlgorithm],
       query, Malformed(query), Unprefixed(query), [query EXCEPT !.qtype = "other"],
       [query EXCEPT !.tsig = Signature(s1)], [query EXCEPT !.tsig = BadAlgorithm],
       Message("other", z1, NoTsig, <<>>), Message("other", z1, Signature(s2), <<>>)}

\* One update at a time, next to a reader.
SerialUpdates == {Update(z1, <<Clear>>), Update(z1, <<Add(v1), Add(v2)>>),
                  Update(z1, <<Add(v3), BadType>>), Update(z1, <<Add(v2), BadName>>),
                  Update(z1, <<Clear, Add(v3)>>),
                  Update(z1, <<Clear, Add(v2), Add(v3), BadType>>)}
SerialRequests == SerialUpdates \cup OddRequests
SerialServes == (h1 :> SerialRequests) @@ (h2 :> {Query(z1)})
SerialAdmin == {"DeleteKey", "SetZoneDebug"}

\* The smallest workload for the run that refutes a documented statement.
RefusedRequests == {Update(z1, <<Add(v1)>>), Update(z1, <<Clear, Add(v2), BadType>>)}
RefusedServes   == (h1 :> RefusedRequests)
NoAdmin == {}

\* The list after the records of an update is what applying them one after the
\* other gives.
Seqs == INSTANCE SequencesExt
OneRecord(answers, record) ==
  IF record.op = "clear" THEN <<>> ELSE Append(answers, record.value)
ASSUME RecordsInTurn ==
  \A n \in 0..4 : \A records \in [1..n -> {Clear, Add(v1), Add(v2)}] :
    Zones!ApplyRecords(<<v3>>, records) = Seqs!FoldLeft(OneRecord, <<v3>>, records)
=============================================================================
