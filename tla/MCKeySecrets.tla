---------------------------- MODULE MCKeySecrets ----------------------------
(* Instances of KeySecrets for TLC: the calls of each run.                 *)
EXTENDS KeySecrets

CONSTANTS c1, c2, k1, v1, v2

ACall(op, v) == [op |-> op, key |-> k1, value |-> v]

\* A key is created, its secret replaced, and deleted.
LifeCalls == {ACall("CreateKey", v1), ACall("SetKeySecret", v1), ACall("SetKeySecret", v2), ACall("DeleteKey", v1)}
Anything  == OtherOps
SameCallers == Permutations(Callers)
=============================================================================
