--------------------------- MODULE MCObjectClient ---------------------------
(* Instances of ObjectClient for TLC: the calls, the writes of others and  *)
(* the initial objects of each run.                                        *)
EXTENDS ObjectClient, TLC

CONSTANTS c1, c2, z1, v1, v2

ACall(op, v) == [op |-> op, name |-> z1, value |-> v]
Close  == ACall("close", Blank)
Create == ACall("create", Blank)
Delete == ACall("delete", Blank)
SetAnswers == {ACall("answers", v) : v \in Values}
SetDebug   == {ACall("debug", v) : v \in Values}

\* The zone exists, or does not.
AZone      == [uid |-> 1, serial |-> 0, answers |-> Blank, debug |-> Blank]
Existing   == {[n \in Names |-> AZone]}
EitherWay  == Existing \cup {Nothing}

\* A zone is created and updated again and again.
UpdateCalls == {Create} \cup SetAnswers \cup SetDebug
\* A zone is created, updated and deleted, and the client closed.
LifeCalls   == UpdateCalls \cup {Delete, Close}
OneSet      == {ACall("answers", v1)}
Anything    == OtherOps
Nobody      == {}
=============================================================================
