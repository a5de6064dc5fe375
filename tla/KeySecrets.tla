----------------------------- MODULE KeySecrets -----------------------------
(***************************************************************************)
(* Update keys and their secrets in the Kubernetes backend (provider.go,   *)
(* crd_key.go, crd_secret.go).                                             *)
(*                                                                         *)
(* A key is an object of its own that refers to a secret by name.  Both    *)
(* are written to the API server by one object client each, and read from  *)
(* the caches of these clients, which lag behind independently.  CreateKey *)
(* creates the secret, then the key, and deletes the secret again if that  *)
(* failed; requests fail, answers are lost, contexts end and the process   *)
(* restarts in between.                                                    *)
(*                                                                         *)
(* Every object is the log of its versions on the server, and the cache is *)
(* a position in that log.  How a caller waits for the cache is in         *)
(* ObjectClient; here a wait ends when its condition holds, when its       *)
(* context ends or when it finds an error, or it never ends.               *)
(***************************************************************************)
EXTENDS Naturals, FiniteSets, SequencesExt

CONSTANTS
  Callers,      \* goroutines that manage keys
  Keys,
  Values,       \* the data of secrets
  NoValue,      \* of a secret without the field that the key refers to
  Absent,       \* of an object that does not exist
  MaxSecrets,   \* bound: names of secrets ever used
  Calls,        \* bound: the calls a caller may make, a set of Call
  MaxCalls,     \* bound: calls made in a behaviour
  Timeouts,     \* bound: whether contexts end
  Failures,     \* bound: whether requests fail or their answers are lost
  OtherWriters, \* bound: what others do on the API server, a subset of OtherOps
  MaxOther,     \* bound: how often
  MaxRestarts   \* bound: restarts of the process

VARIABLES
  keyLog,       \* the versions of each key: the secret it refers to, or Absent
  secretLog,    \* the versions of each secret: its data, or Absent
  made,         \* number of names of secrets in use so far, which are 1..made
  keySeen, secretSeen,  \* the version of each object that is in the cache
  pc, call,     \* where each caller is in which call
  secret,       \* the secret it works on
  started,      \* the version of the secret that an attempt of a set has read
  version,      \* the version that a set has written
  tries,        \* attempts of a set
  expired,      \* callers whose context has ended
  called, others, restarts,  \* counters of the bounds
  crashed,      \* a goroutine has panicked
  acked,        \* history: the last acknowledged version of each secret
  excused,      \* history: secrets that were left behind for a known reason
  cut,          \* history: secrets that were deleted although a key may refer to them
  foreign       \* history: secrets that others have named

serverVars == <<keyLog, secretLog, made>>
cacheVars  == <<keySeen, secretSeen>>
workVars   == <<call, secret, started, version, tries, expired>>
boundVars  == <<called, others, restarts>>
historyVars == <<excused, cut, foreign>>
vars == <<serverVars, cacheVars, pc, workVars, boundVars, crashed, acked, historyVars>>

Secrets  == 1..MaxSecrets
NoName   == 0
Attempts == 3
Data     == Values \cup {NoValue, Absent}
Call     == [op : {"CreateKey", "SetKeySecret", "DeleteKey"}, key : Keys, value : Values]
OtherOps == {"deleteKey", "deleteSecret", "putKey", "putSecret"}
NoCall   == [op |-> "none"]

ASSUME SecretAssumption ==
  /\ MaxSecrets \in Nat /\ MaxCalls \in Nat /\ MaxOther \in Nat /\ MaxRestarts \in Nat
  /\ Timeouts \in BOOLEAN /\ Failures \in BOOLEAN
  /\ Calls \subseteq Call /\ OtherWriters \subseteq OtherOps
  /\ Absent \notin Values \cup {NoValue, NoName} \cup Secrets

ServerKey(k)    == Last(keyLog[k])
ServerSecret(s) == Last(secretLog[s])
CachedKey(k)    == keyLog[k][keySeen[k]]
CachedSecret(s) == secretLog[s][secretSeen[s]]
\* The data that the attempt of c has read.
Original(c)     == secretLog[secret[c]][started[c]]

Init ==
  /\ keyLog = [k \in Keys |-> <<Absent>>] /\ keySeen = [k \in Keys |-> 1]
  /\ secretLog = [s \in Secrets |-> <<Absent>>] /\ secretSeen = [s \in Secrets |-> 1]
  /\ made = 0
  /\ pc = [c \in Callers |-> "idle"] /\ call = [c \in Callers |-> NoCall]
  /\ secret = [c \in Callers |-> NoName] /\ started = [c \in Callers |-> 0]
  /\ version = [c \in Callers |-> 0] /\ tries = [c \in Callers |-> 0]
  /\ expired = {}
  /\ called = 0 /\ others = 0 /\ restarts = 0
  /\ crashed = FALSE
  /\ acked = [s \in Secrets |-> 0]
  /\ excused = {} /\ cut = {} /\ foreign = {}

-----------------------------------------------------------------------------
(* Requests to the API server (external) and the ends of calls.            *)

WriteKey(k, s)    == keyLog' = [keyLog EXCEPT ![k] = Append(@, s)]
WriteSecret(s, d) == secretLog' = [secretLog EXCEPT ![s] = Append(@, d)]

Goto(c, step) == pc' = [pc EXCEPT ![c] = step]

\* Without an effect on the server.
RequestFails(c) == Failures \/ c \in expired
RequestArrives(c) == c \notin expired
\* The caller hears of the effect of its request, or does not.
Answered(c, step) == Goto(c, step) \/ (Failures /\ Goto(c, "failed"))

Excuse(S)    == excused' = excused \cup S /\ UNCHANGED <<cut, foreign>>

Return(c) ==
  /\ Goto(c, "idle")
  /\ call' = [call EXCEPT ![c] = NoCall]
  /\ secret' = [secret EXCEPT ![c] = NoName] /\ started' = [started EXCEPT ![c] = 0]
  /\ version' = [version EXCEPT ![c] = 0] /\ tries' = [tries EXCEPT ![c] = 0]
  /\ expired' = expired \ {c}

Begin(c, k) ==
  /\ pc[c] = "idle" /\ called < MaxCalls
  /\ called' = called + 1
  /\ call' = [call EXCEPT ![c] = k]
  /\ Goto(c, k.op)
  /\ UNCHANGED <<serverVars, cacheVars, secret, started, version, tries, expired, others, restarts,
                 crashed, acked, historyVars>>

\* A call whose last request was not answered returns an error.
ReturnError(c) ==
  /\ pc[c] = "failed"
  /\ Return(c)
  /\ UNCHANGED <<serverVars, cacheVars, boundVars, crashed, acked, historyVars>>

\* (The end of a context that the rest of the call does not look at is left out.)
Expire(c) ==
  /\ Timeouts /\ pc[c] \notin {"idle", "own", "failed"}
  /\ expired' = expired \cup {c}
  /\ UNCHANGED <<serverVars, cacheVars, pc, call, secret, started, version, tries, boundVars, crashed,
                 acked, historyVars>>

-----------------------------------------------------------------------------
(* CreateKey.                                                              *)

\* Mutant of CreateSecret: the key is created before the secret is cached.
CreateSecret_NoWait(c) ==
  /\ pc[c] = "CreateKey"
  /\ \/ RequestFails(c) /\ Return(c) /\ UNCHANGED <<serverVars, historyVars>>
     \/ /\ RequestArrives(c) /\ made < MaxSecrets
        /\ made' = made + 1 /\ WriteSecret(made + 1, call[c].value) /\ UNCHANGED keyLog
        /\ secret' = [secret EXCEPT ![c] = made + 1]
        /\ Goto(c, "createKey") /\ UNCHANGED historyVars
        /\ UNCHANGED <<call, started, version, tries, expired>>
  /\ UNCHANGED <<cacheVars, boundVars, crashed, acked>>

\* A name that was never used is generated for the secret.
CreateSecret(c) ==
  /\ pc[c] = "CreateKey"
  /\ \/ RequestFails(c) /\ Return(c) /\ UNCHANGED <<serverVars, historyVars>>
     \/ /\ RequestArrives(c) /\ made < MaxSecrets
        /\ made' = made + 1 /\ WriteSecret(made + 1, call[c].value) /\ UNCHANGED keyLog
        /\ secret' = [secret EXCEPT ![c] = made + 1]
        /\ \/ Goto(c, "awaitSecret") /\ UNCHANGED historyVars
           \/ Failures /\ Goto(c, "failed") /\ Excuse({made + 1})
        /\ UNCHANGED <<call, started, version, tries, expired>>
  /\ UNCHANGED <<cacheVars, boundVars, crashed, acked>>

\* A secret that is not seen in time is not deleted again.
AwaitSecret(c) ==
  /\ pc[c] = "awaitSecret"
  /\ \/ CachedSecret(secret[c]) # Absent /\ Goto(c, "createKey") /\ UNCHANGED <<workVars, historyVars>>
     \/ c \in expired /\ Return(c) /\ Excuse({secret[c]})
  /\ UNCHANGED <<serverVars, cacheVars, boundVars, crashed, acked>>

\* Mutant of CreateKeyObject: a key that exists is overwritten.
CreateKeyObject_Overwrite(c) ==
  LET k == call[c].key IN
  /\ pc[c] = "createKey"
  /\ WriteKey(k, secret[c]) /\ UNCHANGED <<secretLog, made>>
  /\ Goto(c, "awaitKey") /\ UNCHANGED historyVars
  /\ UNCHANGED <<cacheVars, workVars, boundVars, crashed, acked>>

\* A key of that name is a conflict; if the answer is lost the key exists.
CreateKeyObject(c) ==
  LET k == call[c].key IN
  /\ pc[c] = "createKey"
  /\ \/ RequestFails(c) /\ Goto(c, "cleanup") /\ UNCHANGED <<serverVars, historyVars>>
     \/ /\ RequestArrives(c) /\ ServerKey(k) # Absent
        /\ Goto(c, "cleanup") /\ UNCHANGED <<serverVars, historyVars>>
     \/ /\ RequestArrives(c) /\ ServerKey(k) = Absent
        /\ WriteKey(k, secret[c]) /\ UNCHANGED <<secretLog, made>>
        /\ \/ Goto(c, "awaitKey") /\ UNCHANGED historyVars
           \/ /\ Failures /\ Goto(c, "cleanup")
              /\ cut' = cut \cup {secret[c]} /\ UNCHANGED <<excused, foreign>>
  /\ UNCHANGED <<cacheVars, workVars, boundVars, crashed, acked>>

\* Any key of that name in the cache will do.
AwaitKey(c) ==
  /\ pc[c] = "awaitKey"
  /\ \/ CachedKey(call[c].key) # Absent /\ Goto(c, "own")
     \/ c \in expired /\ Goto(c, "cleanup")
  /\ UNCHANGED <<serverVars, cacheVars, workVars, boundVars, crashed, acked, historyVars>>

\* Mutant of Cleanup: there is none.
Cleanup_None(c) ==
  /\ pc[c] = "cleanup" /\ Return(c)
  /\ UNCHANGED <<serverVars, historyVars, cacheVars, boundVars, crashed, acked>>

\* The secret is deleted, with the context of the call.  Like every deletion
\* of an object that is not in the cache it panics.
Cleanup(c) ==
  LET s == secret[c] IN
  /\ pc[c] = "cleanup"
  /\ \/ CachedSecret(s) = Absent /\ crashed' = TRUE /\ UNCHANGED <<serverVars, pc, workVars, historyVars>>
     \/ /\ CachedSecret(s) # Absent
        /\ \/ RequestFails(c) /\ Return(c) /\ Excuse({s}) /\ UNCHANGED serverVars
           \/ RequestArrives(c) /\ ServerSecret(s) = Absent /\ Return(c) /\ UNCHANGED <<serverVars, historyVars>>
           \/ /\ RequestArrives(c) /\ ServerSecret(s) # Absent
              /\ WriteSecret(s, Absent) /\ Answered(c, "awaitCleanup")
              /\ UNCHANGED <<keyLog, made, workVars, historyVars>>
        /\ UNCHANGED crashed
  /\ UNCHANGED <<cacheVars, boundVars, acked>>

AwaitCleanup(c) ==
  /\ pc[c] = "awaitCleanup" /\ (CachedSecret(secret[c]) = Absent \/ c \in expired)
  /\ Return(c)
  /\ UNCHANGED <<serverVars, cacheVars, boundVars, crashed, acked, historyVars>>

\* secrets.set with the owner reference.  The patch of a secret has only its
\* data, which stays the same: the server notices nothing, and whatever goes
\* wrong is only logged.
SetOwner(c) ==
  /\ pc[c] = "own"
  /\ Return(c)
  /\ UNCHANGED <<serverVars, cacheVars, boundVars, crashed, acked, historyVars>>

-----------------------------------------------------------------------------
(* DeleteKey.                                                              *)

\* The secret stays, since no reference to its owner was ever stored.
DeleteKey(c) ==
  LET k == call[c].key IN
  /\ pc[c] = "DeleteKey"
  /\ \/ CachedKey(k) = Absent /\ crashed' = TRUE /\ UNCHANGED <<serverVars, pc, workVars, historyVars>>
     \/ /\ CachedKey(k) # Absent
        /\ \/ /\ RequestFails(c) \/ (RequestArrives(c) /\ ServerKey(k) = Absent)
              /\ Return(c) /\ UNCHANGED <<serverVars, historyVars>>
           \/ /\ RequestArrives(c) /\ ServerKey(k) # Absent
              /\ WriteKey(k, Absent) /\ Excuse({ServerKey(k)}) /\ Answered(c, "awaitDelete")
              /\ UNCHANGED <<secretLog, made, workVars>>
        /\ UNCHANGED crashed
  /\ UNCHANGED <<cacheVars, boundVars, acked>>

AwaitDelete(c) ==
  /\ pc[c] = "awaitDelete" /\ (CachedKey(call[c].key) = Absent \/ c \in expired)
  /\ Return(c)
  /\ UNCHANGED <<serverVars, cacheVars, boundVars, crashed, acked, historyVars>>

-----------------------------------------------------------------------------
(* SetKeySecret.                                                           *)

\* The key is read once, the secret at every attempt.
SetKeySecret(c) ==
  LET s == CachedKey(call[c].key) IN
  /\ pc[c] = "SetKeySecret"
  /\ \/ s = Absent /\ Return(c)
     \/ /\ s # Absent /\ secret' = [secret EXCEPT ![c] = s]
        /\ Goto(c, "get") /\ UNCHANGED <<call, started, version, tries, expired>>
  /\ UNCHANGED <<serverVars, cacheVars, boundVars, crashed, acked, historyVars>>

GetSecret(c) ==
  LET d == CachedSecret(secret[c]) IN
  /\ pc[c] = "get"
  /\ \/ d = Absent /\ Return(c)
     \/ /\ d # Absent /\ started' = [started EXCEPT ![c] = secretSeen[secret[c]]]
        /\ Goto(c, "patch") /\ UNCHANGED <<call, secret, version, tries, expired>>
  /\ UNCHANGED <<serverVars, cacheVars, boundVars, crashed, acked, historyVars>>

\* Mutant of PatchSecret: the patch does not test the data.
PatchSecret_NoTest(c) ==
  LET s == secret[c]
      d == call[c].value
  IN
  /\ pc[c] = "patch"
  /\ \/ /\ RequestFails(c) \/ ServerSecret(s) = Absent
        /\ Return(c) /\ UNCHANGED serverVars
     \/ /\ RequestArrives(c) /\ ServerSecret(s) # Absent
        /\ IF d = ServerSecret(s) THEN UNCHANGED secretLog ELSE WriteSecret(s, d)
        /\ version' = [version EXCEPT ![c] = Len(secretLog'[s])]
        /\ Answered(c, "awaitSet")
        /\ UNCHANGED <<keyLog, made, call, secret, started, tries, expired>>
  /\ UNCHANGED <<cacheVars, boundVars, crashed, acked, historyVars>>

\* The patch tests the data the attempt started from.  Data that stays the
\* same makes no version.
PatchSecret(c) ==
  LET s == secret[c]
      d == call[c].value
  IN
  /\ pc[c] = "patch"
  /\ \/ /\ RequestFails(c) \/ (RequestArrives(c) /\ ServerSecret(s) = Absent)
        /\ Return(c) /\ UNCHANGED serverVars
     \/ /\ RequestArrives(c) /\ ServerSecret(s) \notin {Absent, Original(c)}
        /\ Goto(c, "awaitRetry") /\ UNCHANGED <<serverVars, workVars>>
     \/ /\ RequestArrives(c) /\ ServerSecret(s) = Original(c)
        /\ IF d = Original(c) THEN UNCHANGED secretLog ELSE WriteSecret(s, d)
        /\ version' = [version EXCEPT ![c] = Len(secretLog'[s])]
        /\ Answered(c, "awaitSet")
        /\ UNCHANGED <<keyLog, made, call, secret, started, tries, expired>>
  /\ UNCHANGED <<cacheVars, boundVars, crashed, acked, historyVars>>

\* The data has changed and changed back since the attempt has read it.
ChangedBack(c) ==
  LET data == secretLog[secret[c]]
  IN  \E v, w \in (started[c] + 1)..version[c] : v < w /\ data[v] # Original(c) /\ data[w] = Original(c)

Acknowledge(c) ==
  IF ChangedBack(c) THEN UNCHANGED acked
                    ELSE acked' = [acked EXCEPT ![secret[c]] = Max({@, version[c]})]

\* waitForUpdate: the cache must have exactly the data that was written; a
\* secret that is gone is an error.
AwaitSet(c) ==
  LET d == CachedSecret(secret[c]) IN
  /\ pc[c] = "awaitSet"
  /\ \/ d = call[c].value /\ Acknowledge(c)
     \/ d = Absent /\ UNCHANGED acked
     \/ c \in expired /\ UNCHANGED acked
  /\ Return(c)
  /\ UNCHANGED <<serverVars, cacheVars, boundVars, crashed, historyVars>>

\* Mutant of AwaitRetry: attempts without limit.
AwaitRetry_NoLimit(c) ==
  LET d == CachedSecret(secret[c]) IN
  /\ pc[c] = "awaitRetry"
  /\ \/ /\ d = Original(c)
        /\ tries' = [tries EXCEPT ![c] = @ + 1]
        /\ Goto(c, "get") /\ UNCHANGED <<call, secret, started, version, expired>>
     \/ d = Absent /\ Return(c)
     \/ c \in expired /\ Return(c)
  /\ UNCHANGED <<serverVars, cacheVars, boundVars, crashed, acked, historyVars>>

\* After a refused patch the wait is for the data the attempt started from.
AwaitRetry(c) ==
  LET d == CachedSecret(secret[c]) IN
  /\ pc[c] = "awaitRetry"
  /\ \/ /\ d = Original(c) /\ tries[c] + 1 < Attempts
        /\ tries' = [tries EXCEPT ![c] = @ + 1]
        /\ Goto(c, "get") /\ UNCHANGED <<call, secret, started, version, expired>>
     \/ d = Original(c) /\ tries[c] + 1 = Attempts /\ Return(c)
     \/ d = Absent /\ Return(c)
     \/ c \in expired /\ Return(c)
  /\ UNCHANGED <<serverVars, cacheVars, boundVars, crashed, acked, historyVars>>

-----------------------------------------------------------------------------
(* The informers, others, and restarts (BuildFull).                        *)

SeeKey(k) ==
  /\ keySeen[k] < Len(keyLog[k]) /\ keySeen' = [keySeen EXCEPT ![k] = @ + 1]
  /\ UNCHANGED <<serverVars, secretSeen, pc, workVars, boundVars, crashed, acked, historyVars>>

SeeSecret(s) ==
  /\ secretSeen[s] < Len(secretLog[s]) /\ secretSeen' = [secretSeen EXCEPT ![s] = @ + 1]
  /\ UNCHANGED <<serverVars, keySeen, pc, workVars, boundVars, crashed, acked, historyVars>>

\* A secret that others may write: one of theirs, a new one, or that of a key.
\* (The secret that a CreateKey is at work on has a generated name, which
\* nobody knows before its key is there.)
OthersSecrets == Secrets \cap (foreign \cup {made + 1} \cup {ServerKey(k) : k \in Keys})

\* A secret that others may refer to in the key k: one of theirs, a new one that
\* they have not yet created, or one that k had before, but no other key: that
\* keys share a secret, each with a field of its own (backend/kubernetes/manifests/
\* 02_crd.yml:85), is not modelled.
OthersReferences(k) ==
  LET Has(j) == ToSet(keyLog[j])
  IN  (Secrets \cap (foreign \cup {made + 1} \cup Has(k))) \ UNION {Has(j) : j \in Keys \ {k}}

\* Others have written to s or referred to it.
Name(s) == made' = Max({made, s}) /\ foreign' = foreign \cup ({s} \ 1..made)

\* Administrators, who apply and delete manifests of keys and of secrets in any
\* order (backend/kubernetes/manifests/06_domain.yml), and other replicas.
OtherWrite(op) ==
  /\ op \in OtherWriters /\ others < MaxOther
  /\ others' = others + 1
  /\ \/ /\ op = "deleteKey"
        /\ \E k \in Keys : ServerKey(k) # Absent /\ WriteKey(k, Absent) /\ Excuse({ServerKey(k)})
        /\ UNCHANGED <<secretLog, made>>
     \/ /\ op = "deleteSecret"
        /\ \E s \in Secrets :
             /\ ServerSecret(s) # Absent /\ WriteSecret(s, Absent)
             /\ cut' = cut \cup {s} /\ UNCHANGED <<excused, foreign>>
        /\ UNCHANGED <<keyLog, made>>
     \/ /\ op = "putKey"
        /\ \E k \in Keys : \E s \in OthersReferences(k) \ {ServerKey(k)} :
             WriteKey(k, s) /\ Name(s) /\ excused' = excused \cup ({ServerKey(k)} \ {Absent})
        /\ UNCHANGED <<secretLog, cut>>
     \/ /\ op = "putSecret"
        /\ \E s \in OthersSecrets : \E d \in Data \ {Absent, ServerSecret(s)} :
             WriteSecret(s, d) /\ Name(s)
        /\ UNCHANGED <<keyLog, excused, cut>>
  /\ UNCHANGED <<cacheVars, pc, workVars, called, restarts, crashed, acked>>

\* Both caches are listed again; the calls are gone.
Restart ==
  /\ restarts < MaxRestarts /\ restarts' = restarts + 1
  /\ keySeen' = [k \in Keys |-> Len(keyLog[k])]
  /\ secretSeen' = [s \in Secrets |-> Len(secretLog[s])]
  /\ pc' = [c \in Callers |-> "idle"] /\ call' = [c \in Callers |-> NoCall]
  /\ secret' = [c \in Callers |-> NoName] /\ started' = [c \in Callers |-> 0]
  /\ version' = [c \in Callers |-> 0] /\ tries' = [c \in Callers |-> 0]
  /\ expired' = {} /\ crashed' = FALSE
  /\ Excuse({secret[c] : c \in Callers} \ {NoName})
  /\ UNCHANGED <<serverVars, called, others, acked>>

-----------------------------------------------------------------------------
CallStep(c) ==
  \/ CreateSecret(c) \/ AwaitSecret(c) \/ CreateKeyObject(c) \/ AwaitKey(c)
  \/ Cleanup(c) \/ AwaitCleanup(c) \/ SetOwner(c)
  \/ DeleteKey(c) \/ AwaitDelete(c)
  \/ SetKeySecret(c) \/ GetSecret(c) \/ PatchSecret(c) \/ AwaitSet(c) \/ AwaitRetry(c)
  \/ ReturnError(c)

Informers == (\E k \in Keys : SeeKey(k)) \/ (\E s \in Secrets : SeeSecret(s))

Next ==
  \/ ~crashed /\ \E c \in Callers : (\E k \in Calls : Begin(c, k)) \/ CallStep(c) \/ Expire(c)
  \/ ~crashed /\ Informers
  \/ \E op \in OtherOps : OtherWrite(op)
  \/ Restart

Spec == Init /\ [][Next]_vars

-----------------------------------------------------------------------------
(* Properties.                                                             *)

TypeOK ==
  /\ keyLog \in [Keys -> Seq(Secrets \cup {Absent})] /\ secretLog \in [Secrets -> Seq(Data)]
  /\ \A k \in Keys : keySeen[k] \in DOMAIN keyLog[k] /\ ServerKey(k) \in 1..made \cup {Absent}
  /\ \A s \in Secrets : secretSeen[s] \in DOMAIN secretLog[s] /\ acked[s] \in 0..Len(secretLog[s])
  /\ call \in [Callers -> Call \cup {NoCall}] /\ \A c \in Callers : (pc[c] = "idle") = (call[c] = NoCall)
  /\ secret \in [Callers -> 1..made \cup {NoName}] /\ started \in [Callers -> Nat]
  /\ version \in [Callers -> Nat] /\ tries \in [Callers -> 0..(Attempts - 1)]
  /\ expired \subseteq {c \in Callers : pc[c] # "idle"}
  /\ excused \cup cut \cup foreign \subseteq 1..made
  /\ crashed \in BOOLEAN

\* The key k of GetKey has its secret in the other cache.
Readable(k) == CachedSecret(CachedKey(k)) # Absent

\* GetKey finds the secret of every key in the cache of keys whose secret was
\* created by CreateKey here, across restarts and whatever others write, unless
\* somebody has deleted the secret, or CreateKey has because it never heard that
\* the key exists: the two caches change independently, but CreateKey waits for
\* the secret before it creates the key (provider.go:32-51,117-146).  Of a key
\* that refers to a secret which others have named, by a manifest or as another
\* replica, nothing is said: it may be in the cache before its secret.
CachedKeysReadable ==
  \A k \in Keys : CachedKey(k) # Absent /\ CachedKey(k) \notin cut \cup foreign => Readable(k)

\* A secret without a key was named by others, is in the hands of a CreateKey, or
\* was left behind for a known reason: its creation or its deletion was not
\* answered or failed, the process ended, or its key was deleted or given another
\* secret (provider.go:52-91,188-191).
SecretsAccounted ==
  \A s \in Secrets :
    ServerSecret(s) # Absent /\ (\A k \in Keys : ServerKey(k) # s) =>
      s \in excused \cup foreign \/ \E c \in Callers : call[c].op = "CreateKey" /\ secret[c] = s

\* When SetKeySecret has returned, an older secret of the key is not read any
\* more, whatever calls run and others write at the same time, unless its data
\* was changed and changed back between the read and the patch: the test and the
\* wait compare data, not versions (crd_secret.go:34-48, provider.go:223-226).
AcknowledgedSecretCached == \A s \in Secrets : secretSeen[s] >= acked[s]

\* What the server has of each key: the data of its secret.
Stored == [k \in Keys |-> IF ServerKey(k) = Absent THEN Absent
                          ELSE IF ServerSecret(ServerKey(k)) = Absent THEN NoName
                          ELSE ServerSecret(ServerKey(k))]

Book == INSTANCE KeyBook WITH
  Values <- Values \cup {NoValue}, NoKey <- Absent, NoSecret <- NoName,
  Lossy <- Failures, asked <- call, meddled <- others, book <- Stored

\* A key and its secret on the API server are one object that only a call that
\* is under way changes, in one step and to what it was called with; only a
\* lost answer lets CreateKey take the secret of a key away (provider.go:31-241).
KeyIsOneObject == Book!Spec
=============================================================================
