--------------------------- MODULE MCKeyBindings ---------------------------
(* Instances of KeyBindings for TLC: the calls of each run.                *)
EXTENDS KeyBindings

CONSTANTS c1, c2, k1, k2, z1, z2

Bind(z) == [op |-> "BindKey", key |-> k1, zone |-> z]
Unbind  == [op |-> "UnbindKey", key |-> k1, zone |-> z1]
Lookup  == [op |-> "GetKey", key |-> k1, zone |-> z1]

\* One key is bound, unbound and looked up; others bind and edit any.
OneKey    == {Bind(z1), Unbind, Lookup}
BindOnly  == {Bind(z1)}
Anything  == OtherOps
=============================================================================
