------------------------------ MODULE KeyBook ------------------------------
(***************************************************************************)
(* What the management of update keys promises (backend/provider.go): a    *)
(* key and its secret are one object, which a call that is under way       *)
(* creates, changes or deletes at most in one step.  KeySecrets, where     *)
(* they are two objects on the API server, implements it.                  *)
(***************************************************************************)
EXTENDS Naturals

CONSTANTS
  Callers, Keys, Values,
  NoKey,     \* there is no such key
  NoSecret,  \* the key is there but its secret is not
  Lossy      \* whether the answer to a request may be lost

VARIABLES
  book,   \* for each key its secret
  asked,  \* the call each caller has under way
  meddled \* how often others have written keys or secrets

vars == <<book, asked, meddled>>

NoCall == [op |-> "none"]

Init ==
  /\ book = [k \in Keys |-> NoKey]
  /\ asked = [c \in Callers |-> NoCall]
  /\ meddled = 0

Begin(c) ==
  /\ asked[c] = NoCall
  /\ \E op \in {"CreateKey", "SetKeySecret", "DeleteKey"}, k \in Keys, v \in Values :
       asked' = [asked EXCEPT ![c] = [op |-> op, key |-> k, value |-> v]]
  /\ UNCHANGED <<book, meddled>>

End(c) == asked' = [asked EXCEPT ![c] = NoCall] /\ UNCHANGED <<book, meddled>>

Put(k, v) == book' = [book EXCEPT ![k] = v] /\ UNCHANGED <<asked, meddled>>

\* CreateKey (backend/provider.go:10-11).
Create(c) ==
  /\ asked[c].op = "CreateKey" /\ book[asked[c].key] = NoKey
  /\ \/ Put(asked[c].key, asked[c].value)
     \/ meddled > 0 /\ Put(asked[c].key, NoSecret)

\* A CreateKey that never heard that the key exists takes the secret back.
TakeBack(c) == Lossy /\ asked[c].op = "CreateKey" /\ Put(asked[c].key, NoSecret)

\* SetKeySecret (backend/provider.go:14-15).
Rotate(c) ==
  /\ asked[c].op = "SetKeySecret" /\ book[asked[c].key] # NoKey
  /\ Put(asked[c].key, asked[c].value)

\* DeleteKey (backend/provider.go:12-13).
Delete(c) == asked[c].op = "DeleteKey" /\ Put(asked[c].key, NoKey)

\* What others do to one key or its secret.
Meddle ==
  /\ meddled' = meddled + 1
  /\ UNCHANGED book \/ \E k \in Keys, v \in Values \cup {NoKey, NoSecret} : book' = [book EXCEPT ![k] = v]
  /\ UNCHANGED asked

Restart == asked' = [c \in Callers |-> NoCall] /\ UNCHANGED <<book, meddled>>

Next ==
  \/ \E c \in Callers : Begin(c) \/ End(c) \/ Create(c) \/ TakeBack(c) \/ Rotate(c) \/ Delete(c)
  \/ Meddle \/ Restart

Spec == Init /\ [][Next]_vars
=============================================================================
