-------------------------- MODULE KeySecretsProofs --------------------------
(***************************************************************************)
(* Proofs about KeySecrets, for every set of callers, keys and values, and *)
(* every bound.                                                            *)
(***************************************************************************)
EXTENDS KeySecrets, TLAPS

CreateSteps == {"CreateKey", "awaitSecret", "createKey", "awaitKey", "cleanup", "awaitCleanup", "own"}
SetSteps    == {"SetKeySecret", "get", "patch", "awaitSet", "awaitRetry"}
DeleteSteps == {"DeleteKey", "awaitDelete"}
Steps       == CreateSteps \cup SetSteps \cup DeleteSteps \cup {"idle", "failed"}

\* The steps at which a caller works on a secret.
SecretSteps == {"awaitSecret", "createKey", "awaitKey", "cleanup", "awaitCleanup", "own",
                "get", "patch", "awaitSet", "awaitRetry"}
\* The steps of a set that have read the secret.
ReadSteps   == {"patch", "awaitSet", "awaitRetry"}

\* A log starts before its object exists, and every version differs from the
\* one before it.
LogOK(log) ==
  /\ log[1] = Absent
  /\ \A i \in 1..(Len(log) - 1) : log[i] # log[i + 1]

LogsOK ==
  /\ made \in 0..MaxSecrets
  /\ keyLog \in [Keys -> Seq(Secrets \cup {Absent})]
  /\ secretLog \in [Secrets -> Seq(Data)]
  /\ \A k \in Keys : \A i \in 1..Len(keyLog[k]) : keyLog[k][i] \in 1..made \cup {Absent}
  /\ \A s \in Secrets : LogOK(secretLog[s]) /\ (s > made => Len(secretLog[s]) = 1)

CachesOK ==
  /\ keySeen \in [Keys -> Nat] /\ secretSeen \in [Secrets -> Nat] /\ acked \in [Secrets -> Nat]
  /\ \A k \in Keys : keySeen[k] \in 1..Len(keyLog[k])
  /\ \A s \in Secrets : secretSeen[s] \in 1..Len(secretLog[s]) /\ acked[s] <= secretSeen[s]

\* What a set has read it has read from the cache, and what it has written
\* follows what it has read.
ReadOK(c) ==
  LET log == secretLog[secret[c]] IN
  /\ pc[c] \in ReadSteps => started[c] \in 1..secretSeen[secret[c]] /\ log[started[c]] # Absent
  /\ pc[c] = "awaitSet" =>
       /\ version[c] \in started[c]..Len(log) /\ log[version[c]] = call[c].value
       /\ call[c].value # Original(c) =>
            version[c] - 1 >= started[c] /\ log[version[c] - 1] = Original(c)

CallerOK(c) ==
  /\ pc[c] = "idle" <=> call[c] = NoCall
  /\ c \in expired => pc[c] # "idle"
  /\ pc[c] \in CreateSteps => call[c].op = "CreateKey"
  /\ pc[c] \in SetSteps => call[c].op = "SetKeySecret"
  /\ pc[c] \in DeleteSteps => call[c].op = "DeleteKey"
  /\ secret[c] \in 0..made
  /\ pc[c] \in SecretSteps => secret[c] # NoName
  /\ ReadOK(c)

WorkOK ==
  /\ pc \in [Callers -> Steps] /\ call \in [Callers -> Call \cup {NoCall}]
  /\ secret \in [Callers -> Nat] /\ started \in [Callers -> Nat] /\ version \in [Callers -> Nat]
  /\ tries \in [Callers -> 0..(Attempts - 1)]
  /\ expired \subseteq Callers

NotesOK ==
  /\ crashed \in BOOLEAN
  /\ excused \subseteq 1..made /\ cut \subseteq 1..made /\ foreign \subseteq 1..made

TypeInv == LogsOK /\ CachesOK /\ WorkOK /\ NotesOK /\ \A c \in Callers : CallerOK(c)

-----------------------------------------------------------------------------
(* Logs and calls.                                                         *)

\* The larger of two numbers is one of them.
LEMMA MaxOfTwo ==
  ASSUME NEW a \in Nat, NEW b \in Nat
  PROVE  Max({a, b}) \in {a, b} /\ Max({a, b}) >= a /\ Max({a, b}) >= b
  <1>1. \E x \in {a, b} : \A y \in {a, b} : x >= y
    OBVIOUS
  <1> QED
    BY <1>1 DEF Max

LEMMA CallRecords == NoCall \notin Call /\ \A k \in Call : k.key \in Keys /\ k.value \in Values
  BY DEF Call, NoCall

\* Appending a version to one log.
LEMMA LogAppend ==
  ASSUME NEW S, NEW T, NEW log \in [S -> Seq(T)], NEW s \in S, NEW e \in T,
         NEW new, new = [log EXCEPT ![s] = Append(@, e)]
  PROVE  /\ new \in [S -> Seq(T)]
         /\ \A t \in S \ {s} : new[t] = log[t]
         /\ Len(log[s]) \in Nat /\ Len(new[s]) = Len(log[s]) + 1
         /\ \A i \in 1..Len(log[s]) : new[s][i] = log[s][i]
         /\ new[s][Len(log[s]) + 1] = e
  <1>1. new[s] = Append(log[s], e) /\ Append(log[s], e) \in Seq(T)
    OBVIOUS
  <1> QED
    BY <1>1

\* Whatever is done to an empty log that LogOK allows.
LEMMA LogExtends ==
  ASSUME NEW log \in Seq(Data), NEW d \in Data, NEW new \in Seq(Data),
         LogOK(log), Len(log) >= 1, d # Last(log),
         Len(new) = Len(log) + 1, \A i \in 1..Len(log) : new[i] = log[i], new[Len(log) + 1] = d
  PROVE  LogOK(new)
  <1>1. Len(log) \in Nat
    OBVIOUS
  <1>2. ASSUME NEW i \in 1..(Len(new) - 1)
        PROVE  new[i] # new[i + 1]
    <2>1. CASE i = Len(log)
      BY <1>1, <2>1 DEF Last
    <2>2. CASE i \in 1..(Len(log) - 1)
      <3>1. new[i] = log[i] /\ new[i + 1] = log[i + 1]
        BY <1>1, <2>2
      <3> QED
        BY <2>2, <3>1 DEF LogOK
    <2> QED
      BY <1>1, <1>2, <2>1, <2>2
  <1> QED
    BY <1>1, <1>2 DEF LogOK

\* What a step may do to the server.
WritesKey(k, r) ==
  k \in Keys /\ r \in 1..made \cup {Absent} /\ WriteKey(k, r) /\ UNCHANGED <<secretLog, made>>

WritesSecret(s, d) ==
  s \in 1..made /\ d \in Data /\ d # ServerSecret(s) /\ WriteSecret(s, d) /\ UNCHANGED <<keyLog, made>>

NamesKey(k, s) ==
  /\ k \in Keys /\ made' \in {made, made + 1} /\ made' <= MaxSecrets /\ s \in 1..made'
  /\ WriteKey(k, s) /\ UNCHANGED secretLog

MakesSecret(d) ==
  made < MaxSecrets /\ d \in Data \ {Absent} /\ made' = made + 1 /\ WriteSecret(made + 1, d) /\ UNCHANGED keyLog

ServerStep ==
  \/ UNCHANGED serverVars
  \/ \E k, r : WritesKey(k, r)
  \/ \E k, s : NamesKey(k, s)
  \/ \E s, d : WritesSecret(s, d)
  \/ \E d : MakesSecret(d)

\* Versions are added and never change.
Grows(log, new) == Len(new) >= Len(log) /\ \A i \in 1..Len(log) : new[i] = log[i]

LogsGrow ==
  /\ made' >= made
  /\ \A k \in Keys : Grows(keyLog[k], keyLog'[k])
  /\ \A s \in Secrets : Grows(secretLog[s], secretLog'[s])

LEMMA KeyWritten ==
  ASSUME TypeInv, NEW k, NEW r, WritesKey(k, r) \/ NamesKey(k, r)
  PROVE  LogsOK' /\ LogsGrow
  <1>0. /\ k \in Keys /\ r \in 1..made' \cup {Absent} /\ made' \in 0..MaxSecrets /\ made' >= made
        /\ WriteKey(k, r) /\ UNCHANGED secretLog
    BY SecretAssumption DEF WritesKey, NamesKey, TypeInv, LogsOK
  <1> USE <1>0, SecretAssumption DEF TypeInv, LogsOK, WriteKey
  <1>1. /\ keyLog' \in [Keys -> Seq(Secrets \cup {Absent})]
        /\ \A j \in Keys \ {k} : keyLog'[j] = keyLog[j]
        /\ Len(keyLog[k]) \in Nat /\ Len(keyLog'[k]) = Len(keyLog[k]) + 1
        /\ \A i \in 1..Len(keyLog[k]) : keyLog'[k][i] = keyLog[k][i]
        /\ keyLog'[k][Len(keyLog[k]) + 1] = r
    <2>1. r \in Secrets \cup {Absent}
      BY DEF Secrets
    <2> QED
      BY <2>1, LogAppend
  <1>2. \A j \in Keys : \A i \in 1..Len(keyLog'[j]) : keyLog'[j][i] \in 1..made' \cup {Absent}
    <2> TAKE j \in Keys
    <2> TAKE i \in 1..Len(keyLog'[j])
    <2>1. CASE j = k
      BY <1>1, <2>1
    <2>2. CASE j # k
      BY <1>1, <2>2
    <2> QED
      BY <2>1, <2>2
  <1>3. LogsGrow
    <2>1. \A j \in Keys : Grows(keyLog[j], keyLog'[j])
      BY <1>1 DEF Grows
    <2>2. \A s \in Secrets : Len(secretLog[s]) \in Nat
      OBVIOUS
    <2> QED
      BY <2>1, <2>2 DEF LogsGrow, Grows
  <1>4. \A s \in Secrets : s > made' => s > made
    BY DEF Secrets
  <1> QED
    BY <1>1, <1>2, <1>3, <1>4

LEMMA SecretWritten ==
  ASSUME TypeInv, NEW s, NEW d, WritesSecret(s, d) \/ (MakesSecret(d) /\ s = made + 1)
  PROVE  LogsOK' /\ LogsGrow /\ Len(secretLog'[s]) = Len(secretLog[s]) + 1 /\ secretLog'[s][Len(secretLog'[s])] = d
         /\ s \in Secrets /\ \A t \in Secrets \ {s} : secretLog'[t] = secretLog[t]
  <1> USE SecretAssumption DEF TypeInv, LogsOK, WritesSecret, MakesSecret, WriteSecret
  <1>1. s \in Secrets /\ d \in Data /\ made' \in 0..MaxSecrets /\ made' >= made
    BY DEF Secrets, Data
  <1>2. /\ secretLog' \in [Secrets -> Seq(Data)]
        /\ \A t \in Secrets \ {s} : secretLog'[t] = secretLog[t]
        /\ Len(secretLog[s]) \in Nat /\ Len(secretLog'[s]) = Len(secretLog[s]) + 1
        /\ \A i \in 1..Len(secretLog[s]) : secretLog'[s][i] = secretLog[s][i]
        /\ secretLog'[s][Len(secretLog[s]) + 1] = d
    BY <1>1, LogAppend
  <1>3. Len(secretLog[s]) >= 1
    BY <1>1 DEF CachesOK
  <1>4. d # Last(secretLog[s])
    <2>1. CASE WritesSecret(s, d)
      BY <2>1 DEF ServerSecret
    <2>2. CASE MakesSecret(d) /\ s = made + 1
      <3>1. Len(secretLog[s]) = 1
        BY <1>1, <2>2
      <3>2. d # Absent
        BY <2>2 DEF MakesSecret
      <3> QED
        BY <1>1, <3>1, <3>2 DEF Last, LogOK
    <2> QED
      BY <2>1, <2>2
  <1>5. LogOK(secretLog'[s])
    BY <1>1, <1>2, <1>3, <1>4, LogExtends
  <1>6. \A t \in Secrets : LogOK(secretLog'[t]) /\ (t > made' => Len(secretLog'[t]) = 1)
    <2> TAKE t \in Secrets
    <2>1. CASE t = s
      BY <1>1, <1>5, <2>1 DEF Secrets
    <2>2. CASE t # s
      BY <1>1, <1>2, <2>2 DEF Secrets
    <2> QED
      BY <2>1, <2>2
  <1>7. \A k \in Keys : \A i \in 1..Len(keyLog'[k]) : keyLog'[k][i] \in 1..made' \cup {Absent}
    BY <1>1
  <1>8. LogsGrow
    <2>1. \A t \in Secrets : Grows(secretLog[t], secretLog'[t])
      <3> TAKE t \in Secrets
      <3>1. CASE t = s
        BY <1>2, <3>1 DEF Grows
      <3>2. CASE t # s
        BY <1>2, <3>2 DEF Grows
      <3> QED
        BY <3>1, <3>2
    <2>2. \A k \in Keys : Len(keyLog[k]) \in Nat
      OBVIOUS
    <2> QED
      BY <1>1, <2>1, <2>2 DEF LogsGrow, Grows
  <1> QED
    BY <1>1, <1>2, <1>6, <1>7, <1>8

LEMMA ServerEffect ==
  ASSUME TypeInv, ServerStep
  PROVE  LogsOK' /\ LogsGrow
  <1>1. CASE UNCHANGED serverVars
    <2>1. made \in Nat /\ (\A k \in Keys : Len(keyLog[k]) \in Nat) /\ \A s \in Secrets : Len(secretLog[s]) \in Nat
      BY SecretAssumption DEF TypeInv, LogsOK
    <2> QED
      BY <1>1, <2>1 DEF TypeInv, LogsOK, LogsGrow, Grows, serverVars
  <1> QED
    BY <1>1, KeyWritten, SecretWritten DEF ServerStep

-----------------------------------------------------------------------------
(* Steps of callers.                                                       *)

\* A caller that does not take part.
Waits(d) ==
  /\ pc'[d] = pc[d] /\ call'[d] = call[d] /\ secret'[d] = secret[d] /\ started'[d] = started[d]
  /\ version'[d] = version[d] /\ (d \in expired' => d \in expired)

CachesGrow ==
  /\ UNCHANGED acked
  /\ \A k \in Keys : keySeen'[k] >= keySeen[k]
  /\ \A s \in Secrets : secretSeen'[s] >= secretSeen[s]

\* What a set has read stays in the log and in the cache.
LEMMA ReadStays ==
  ASSUME TypeInv, LogsOK', LogsGrow, NEW c \in Callers, secret[c] \in Secrets,
         secretSeen \in [Secrets -> Nat], secretSeen' \in [Secrets -> Nat],
         secretSeen'[secret[c]] >= secretSeen[secret[c]], Waits(c)
  PROVE  ReadOK(c)'
  <1> DEFINE s == secret[c]
  <1>1. /\ secret'[c] = s /\ pc'[c] = pc[c] /\ call'[c] = call[c]
        /\ started'[c] = started[c] /\ version'[c] = version[c]
    BY DEF Waits
  <1>2. /\ Len(secretLog[s]) \in Nat /\ Len(secretLog'[s]) \in Nat
        /\ Len(secretLog'[s]) >= Len(secretLog[s])
        /\ \A i \in 1..Len(secretLog[s]) : secretLog'[s][i] = secretLog[s][i]
    BY DEF TypeInv, LogsOK, LogsGrow, Grows
  <1>3. secretSeen[s] \in 1..Len(secretLog[s]) /\ secretSeen'[s] \in Nat /\ ReadOK(c)
        /\ started[c] \in Nat /\ version[c] \in Nat
    BY DEF TypeInv, CachesOK, WorkOK, CallerOK
  <1> HIDE DEF s
  <1>4. ASSUME pc[c] \in ReadSteps
        PROVE  /\ started[c] \in 1..secretSeen'[s]
               /\ secretLog'[s][started[c]] = secretLog[s][started[c]]
               /\ secretLog[s][started[c]] # Absent
    <2>1. started[c] \in 1..secretSeen[s] /\ secretLog[s][started[c]] # Absent
      BY <1>3, <1>4 DEF ReadOK, s
    <2>2. secretSeen'[s] >= secretSeen[s]
      BY DEF s
    <2> QED
      BY <1>2, <1>3, <2>1, <2>2
  <1>5. ASSUME pc[c] = "awaitSet"
        PROVE  /\ version[c] \in started[c]..Len(secretLog'[s])
               /\ secretLog'[s][version[c]] = call[c].value
               /\ call[c].value # secretLog'[s][started[c]] =>
                    version[c] - 1 >= started[c] /\ secretLog'[s][version[c] - 1] = secretLog'[s][started[c]]
    <2>1. started[c] \in 1..secretSeen[s] /\ version[c] \in started[c]..Len(secretLog[s])
      BY <1>5, <1>3 DEF ReadOK, ReadSteps, s
    <2>2. /\ secretLog'[s][version[c]] = secretLog[s][version[c]]
          /\ secretLog'[s][started[c]] = secretLog[s][started[c]]
      BY <2>1, <1>2, <1>3
    <2>3. version[c] - 1 >= started[c] => secretLog'[s][version[c] - 1] = secretLog[s][version[c] - 1]
      <3>1. version[c] - 1 >= started[c] => version[c] - 1 \in 1..Len(secretLog[s])
        BY <2>1, <1>2, <1>3
      <3> QED
        BY <3>1, <1>2
    <2>4. /\ secretLog[s][version[c]] = call[c].value
          /\ call[c].value # secretLog[s][started[c]] =>
               version[c] - 1 >= started[c] /\ secretLog[s][version[c] - 1] = secretLog[s][started[c]]
      BY <1>3, <1>5 DEF ReadOK, Original, s
    <2> QED
      BY <2>1, <2>2, <2>3, <2>4, <1>2
  <1> QED
    BY <1>1, <1>4, <1>5 DEF ReadOK, Original, ReadSteps

LEMMA Bystander ==
  ASSUME TypeInv, LogsOK', LogsGrow, secretSeen' \in [Secrets -> Nat],
         \A s \in Secrets : secretSeen'[s] >= secretSeen[s],
         NEW c \in Callers, Waits(c)
  PROVE  CallerOK(c)'
  <1>1. CallerOK(c) /\ secretSeen \in [Secrets -> Nat] /\ made \in 0..MaxSecrets
        /\ made' \in 0..MaxSecrets /\ made' >= made /\ secret \in [Callers -> Nat]
    BY DEF TypeInv, CachesOK, LogsOK, LogsGrow, WorkOK
  <1>2. ReadOK(c)'
    <2>1. CASE pc[c] \in SecretSteps
      <3>1. secret[c] \in Secrets
        BY <1>1, <2>1, SecretAssumption DEF CallerOK, Secrets, NoName
      <3> QED
        BY <1>1, <3>1, ReadStays
    <2>2. CASE pc[c] \notin SecretSteps
      BY <2>2 DEF ReadOK, Waits, SecretSteps, ReadSteps
    <2> QED
      BY <2>1, <2>2
  <1>3. secret'[c] \in 0..made'
    BY <1>1, SecretAssumption DEF CallerOK, Waits
  <1> QED
    BY <1>1, <1>2, <1>3 DEF CallerOK, Waits

\* A step of one caller, which leaves the caches alone.
LEMMA CallerMoves ==
  ASSUME TypeInv, ServerStep, UNCHANGED <<cacheVars, acked>>, WorkOK', NotesOK',
         NEW c \in Callers, CallerOK(c)', \A d \in Callers \ {c} : Waits(d)
  PROVE  TypeInv'
  <1>1. LogsOK' /\ LogsGrow
    BY ServerEffect
  <1>2. /\ secretSeen' \in [Secrets -> Nat] /\ \A s \in Secrets : secretSeen'[s] >= secretSeen[s]
        /\ \A s \in Secrets : secretSeen[s] \in Nat
    BY DEF TypeInv, CachesOK, cacheVars
  <1>3. CachesOK'
    <2>1. /\ \A k \in Keys : Len(keyLog[k]) \in Nat /\ Len(keyLog'[k]) \in Nat
          /\ \A s \in Secrets : Len(secretLog[s]) \in Nat /\ Len(secretLog'[s]) \in Nat
      BY <1>1 DEF TypeInv, LogsOK
    <2>2. /\ \A k \in Keys : Len(keyLog'[k]) >= Len(keyLog[k])
          /\ \A s \in Secrets : Len(secretLog'[s]) >= Len(secretLog[s])
      BY <1>1 DEF LogsGrow, Grows
    <2> QED
      BY <2>1, <2>2 DEF TypeInv, CachesOK, cacheVars
  <1>4. \A d \in Callers : CallerOK(d)'
    BY <1>1, <1>2, Bystander
  <1> QED
    BY <1>1, <1>3, <1>4 DEF TypeInv

\* The end of a call.
LEMMA Returns ==
  ASSUME TypeInv, NEW c \in Callers, Return(c), made' \in Nat
  PROVE  WorkOK' /\ CallerOK(c)' /\ \A d \in Callers \ {c} : Waits(d)
  <1> USE DEF TypeInv, WorkOK, Return, Goto
  <1>1. WorkOK'
    BY DEF Steps, Attempts, NoName
  <1>2. CallerOK(c)'
    BY DEF CallerOK, ReadOK, CreateSteps, SetSteps, DeleteSteps, SecretSteps, ReadSteps, NoName
  <1> QED
    BY <1>1, <1>2 DEF Waits

\* A call goes on to its next step.
LEMMA Proceeds ==
  ASSUME TypeInv, NEW c \in Callers, NEW step \in Steps \ {"idle"}, Goto(c, step), pc[c] # "idle",
         UNCHANGED workVars
  PROVE  WorkOK' /\ \A d \in Callers \ {c} : Waits(d)
  BY DEF TypeInv, WorkOK, Goto, workVars, Waits

\* The next step of a call on the same secret.
LEMMA SameSecret ==
  ASSUME TypeInv, NEW c \in Callers, NEW step \in Steps \ {"idle"}, Goto(c, step), pc[c] # "idle",
         UNCHANGED workVars, made' \in Nat, made' >= made, step \notin ReadSteps,
         step \in CreateSteps => call[c].op = "CreateKey",
         step \in SetSteps => call[c].op = "SetKeySecret",
         step \in DeleteSteps => call[c].op = "DeleteKey",
         step \in SecretSteps => secret[c] # NoName
  PROVE  WorkOK' /\ CallerOK(c)' /\ \A d \in Callers \ {c} : Waits(d)
  <1>1. WorkOK' /\ \A d \in Callers \ {c} : Waits(d)
    BY Proceeds
  <1>2. pc'[c] = step /\ call'[c] = call[c] /\ secret'[c] = secret[c] /\ expired' = expired
    BY DEF TypeInv, WorkOK, Goto, workVars
  <1>3. secret'[c] \in 0..made' /\ (pc'[c] = "idle" <=> call'[c] = NoCall)
    <2>1. made \in Nat /\ secret[c] \in 0..made /\ (pc[c] = "idle" <=> call[c] = NoCall)
      BY SecretAssumption DEF TypeInv, LogsOK, CallerOK
    <2> QED
      BY <1>2, <2>1
  <1>4. ReadOK(c)'
    BY <1>2 DEF ReadOK, ReadSteps
  <1> QED
    BY <1>1, <1>2, <1>3, <1>4 DEF CallerOK

\* The secret a caller works on, and the call it is in.
LEMMA AtWork ==
  ASSUME TypeInv, NEW c \in Callers
  PROVE  /\ made \in Nat /\ secret[c] \in Nat
         /\ pc[c] \in SecretSteps => secret[c] \in 1..made /\ secret[c] \in Secrets
         /\ pc[c] # "idle" => call[c] \in Call /\ call[c].key \in Keys /\ call[c].value \in Values
  BY CallRecords, SecretAssumption DEF TypeInv, LogsOK, WorkOK, CallerOK, SecretSteps, NoName, Secrets

LEMMA CreateSecretType ==
  ASSUME TypeInv, NEW c \in Callers, CreateSecret(c)
  PROVE  TypeInv'
  <1>1. UNCHANGED <<cacheVars, boundVars, crashed, acked>> /\ pc[c] = "CreateKey" /\ call[c].value \in Values
        /\ made \in Nat /\ call[c].op = "CreateKey"
    BY AtWork DEF CreateSecret, TypeInv, CallerOK, CreateSteps
  <1>2. CASE Return(c) /\ UNCHANGED <<serverVars, historyVars>>
    <2>1. ServerStep /\ NotesOK' /\ made' \in Nat
      BY <1>1, <1>2 DEF ServerStep, serverVars, historyVars, TypeInv, NotesOK
    <2> QED
      BY <1>1, <1>2, <2>1, Returns, CallerMoves
  <1>3. CASE /\ made < MaxSecrets /\ made' = made + 1 /\ WriteSecret(made + 1, call[c].value) /\ UNCHANGED keyLog
             /\ secret' = [secret EXCEPT ![c] = made + 1]
             /\ \/ Goto(c, "awaitSecret") /\ UNCHANGED historyVars
                \/ Goto(c, "failed") /\ Excuse({made + 1})
             /\ UNCHANGED <<call, started, version, tries, expired>>
    <2>1. ServerStep
      BY <1>1, <1>3, SecretAssumption DEF ServerStep, MakesSecret, Data
    <2>2. NotesOK'
      <3>1. cut' = cut /\ foreign' = foreign /\ excused' \subseteq excused \cup {made + 1} /\ crashed' = crashed
        BY <1>1, <1>3 DEF historyVars, Excuse
      <3>2. 1..made \subseteq 1..made' /\ made + 1 \in 1..made'
        BY <1>1, <1>3
      <3> QED
        BY <3>1, <3>2 DEF TypeInv, NotesOK
    <2>3. WorkOK' /\ \A d \in Callers \ {c} : Waits(d)
      BY <1>1, <1>3 DEF TypeInv, WorkOK, Goto, Waits, Steps, CreateSteps
    <2>4. pc'[c] \in {"awaitSecret", "failed"} /\ secret'[c] = made + 1 /\ call'[c] = call[c] /\ call[c] # NoCall
      BY <1>1, <1>3 DEF TypeInv, WorkOK, Goto, CallerOK
    <2>5. CallerOK(c)'
      <3>1. ReadOK(c)'
        BY <2>4 DEF ReadOK, ReadSteps
      <3>2. secret'[c] \in 0..made' /\ secret'[c] # NoName
        BY <1>1, <1>3, <2>4 DEF NoName
      <3> QED
        BY <1>1, <2>4, <3>1, <3>2 DEF CallerOK, CreateSteps, SetSteps, DeleteSteps
    <2> QED
      BY <1>1, <2>1, <2>2, <2>3, <2>5, CallerMoves
  <1> QED
    BY <1>2, <1>3 DEF CreateSecret

\* A call that only goes on or returns, and excuses at most its own secret.
LEMMA QuietMove ==
  ASSUME TypeInv, NEW c \in Callers, UNCHANGED <<cacheVars, acked>>, ServerStep, NotesOK', pc[c] # "idle",
         NEW step \in Steps \ {"idle"},
         Return(c) \/ (Goto(c, step) /\ UNCHANGED workVars), step \notin ReadSteps,
         step \in CreateSteps => call[c].op = "CreateKey",
         step \in SetSteps => call[c].op = "SetKeySecret",
         step \in DeleteSteps => call[c].op = "DeleteKey",
         step \in SecretSteps => secret[c] # NoName
  PROVE  TypeInv'
  <1>1. made' \in Nat /\ made' >= made
    BY ServerEffect, SecretAssumption DEF LogsOK, LogsGrow
  <1>2. CASE Return(c)
    BY <1>1, <1>2, Returns, CallerMoves
  <1>3. CASE Goto(c, step) /\ UNCHANGED workVars
    BY <1>1, <1>3, SameSecret, CallerMoves
  <1> QED
    BY <1>2, <1>3

\* A panic stops the process where it is.
LEMMA PanicType ==
  ASSUME TypeInv, crashed' \in BOOLEAN, UNCHANGED <<serverVars, cacheVars, pc, workVars, acked, historyVars>>
  PROVE  TypeInv'
  BY DEF TypeInv, LogsOK, CachesOK, WorkOK, NotesOK, CallerOK, ReadOK, Original,
         serverVars, cacheVars, workVars, historyVars

LEMMA CreateTypes ==
  ASSUME TypeInv, NEW c \in Callers,
         AwaitSecret(c) \/ CreateKeyObject(c) \/ AwaitKey(c) \/ Cleanup(c) \/ AwaitCleanup(c) \/ SetOwner(c)
  PROVE  TypeInv'
  <1> USE DEF serverVars, historyVars, ServerStep, TypeInv, NotesOK, Excuse
  <1>1. pc[c] \in {"awaitSecret", "createKey", "awaitKey", "cleanup", "awaitCleanup", "own"}
    BY DEF AwaitSecret, CreateKeyObject, AwaitKey, Cleanup, AwaitCleanup, SetOwner
  <1>2. call[c].op = "CreateKey" /\ secret[c] \in 1..made /\ secret[c] # NoName /\ call[c].key \in Keys
        /\ made \in Nat
    BY <1>1, AtWork DEF CallerOK, CreateSteps, SecretSteps, NoName
  <1>3. UNCHANGED <<cacheVars, acked>>
    BY DEF AwaitSecret, CreateKeyObject, AwaitKey, Cleanup, AwaitCleanup, SetOwner
  <1> DEFINE Next6 == {"createKey", "cleanup", "awaitKey", "own", "awaitCleanup", "failed"}
  <1>4. \A step \in Next6 : step \in Steps \ {"idle"} /\ step \notin ReadSteps
                            /\ step \notin SetSteps /\ step \notin DeleteSteps
    BY DEF Steps, CreateSteps, SetSteps, DeleteSteps, ReadSteps
  <1>5. \/ Return(c) \/ \E step \in Next6 : Goto(c, step) /\ UNCHANGED workVars
        \/ (crashed' = TRUE /\ UNCHANGED <<serverVars, pc, workVars, historyVars>>)
    BY DEF AwaitSecret, CreateKeyObject, AwaitKey, Cleanup, AwaitCleanup, SetOwner, Answered
  <1>6. ServerStep /\ NotesOK'
    <2>1. CASE CreateKeyObject(c)
      <3>1. UNCHANGED serverVars \/ WritesKey(call[c].key, secret[c])
        BY <1>2, <2>1 DEF CreateKeyObject, WritesKey
      <3>2. made' = made
        BY <2>1 DEF CreateKeyObject
      <3> QED
        BY <1>2, <2>1, <3>1, <3>2 DEF CreateKeyObject
    <2>2. CASE Cleanup(c)
      <3>1. UNCHANGED serverVars \/ WritesSecret(secret[c], Absent)
        BY <1>2, <2>2 DEF Cleanup, WritesSecret, Data
      <3>2. made' = made
        BY <2>2 DEF Cleanup
      <3> QED
        BY <1>2, <2>2, <3>1, <3>2 DEF Cleanup
    <2>3. CASE AwaitSecret(c) \/ AwaitKey(c) \/ AwaitCleanup(c) \/ SetOwner(c)
      BY <1>2, <2>3 DEF AwaitSecret, AwaitKey, AwaitCleanup, SetOwner, workVars
    <2> QED
      BY <2>1, <2>2, <2>3
  <1>7. CASE Return(c) \/ \E step \in Next6 : Goto(c, step) /\ UNCHANGED workVars
    <2> HIDE DEF Next6, TypeInv, ServerStep, NotesOK
    <2>1. Next6 # {} /\ pc[c] # "idle"
      BY <1>1 DEF Next6
    <2>2. PICK step \in Next6 : Return(c) \/ (Goto(c, step) /\ UNCHANGED workVars)
      BY <1>7, <2>1
    <2> QED
      BY <1>2, <1>3, <1>4, <1>6, <2>1, <2>2, QuietMove
  <1>8. CASE crashed' = TRUE /\ UNCHANGED <<serverVars, pc, workVars, historyVars>>
    <2> HIDE DEF TypeInv
    <2> QED
      BY <1>3, <1>8, PanicType
  <1> QED
    BY <1>5, <1>7, <1>8

\* What a key refers to on the server and in the cache.
LEMMA KeyVersions ==
  ASSUME TypeInv, NEW k \in Keys
  PROVE  ServerKey(k) \in 1..made \cup {Absent} /\ CachedKey(k) \in 1..made \cup {Absent}
  <1>1. Len(keyLog[k]) \in Nat /\ keySeen[k] \in 1..Len(keyLog[k])
    BY DEF TypeInv, LogsOK, CachesOK
  <1> QED
    BY <1>1 DEF TypeInv, LogsOK, ServerKey, CachedKey, Last

\* The version of a secret in the cache, and the last one.
LEMMA SecretVersions ==
  ASSUME TypeInv, NEW s \in Secrets
  PROVE  /\ Len(secretLog[s]) \in Nat \ {0} /\ secretSeen[s] \in 1..Len(secretLog[s])
         /\ ServerSecret(s) = secretLog[s][Len(secretLog[s])]
         /\ ServerSecret(s) \in Data /\ CachedSecret(s) \in Data
         /\ s > made => ServerSecret(s) = Absent
  <1>1. Len(secretLog[s]) \in Nat /\ secretSeen[s] \in 1..Len(secretLog[s])
    BY DEF TypeInv, LogsOK, CachesOK
  <1> QED
    BY <1>1 DEF TypeInv, LogsOK, LogOK, ServerSecret, CachedSecret, Last

LEMMA DeleteTypes ==
  ASSUME TypeInv, NEW c \in Callers, DeleteKey(c) \/ AwaitDelete(c) \/ ReturnError(c)
  PROVE  TypeInv'
  <1>1. pc[c] \in {"DeleteKey", "awaitDelete", "failed"} /\ UNCHANGED <<cacheVars, acked>>
    BY DEF DeleteKey, AwaitDelete, ReturnError
  <1>2. \/ Return(c) \/ \E step \in {"awaitDelete", "failed"} : Goto(c, step) /\ UNCHANGED workVars
        \/ (crashed' = TRUE /\ UNCHANGED <<serverVars, pc, workVars, historyVars>>)
    BY DEF DeleteKey, AwaitDelete, ReturnError, Answered
  <1>3. ServerStep /\ NotesOK'
    <2>1. CASE DeleteKey(c)
      <3>1. call[c].key \in Keys
        BY <1>1, <2>1, AtWork DEF DeleteKey
      <3>2. UNCHANGED serverVars \/ WritesKey(call[c].key, Absent)
        BY <2>1, <3>1 DEF DeleteKey, WritesKey
      <3>3. UNCHANGED historyVars
            \/ (ServerKey(call[c].key) # Absent /\ Excuse({ServerKey(call[c].key)}))
        BY <2>1 DEF DeleteKey
      <3>4. made' = made /\ crashed' \in BOOLEAN
        BY <2>1 DEF DeleteKey, serverVars, TypeInv, NotesOK
      <3> QED
        BY <3>1, <3>2, <3>3, <3>4, KeyVersions DEF ServerStep, TypeInv, NotesOK, historyVars, Excuse
    <2>2. CASE AwaitDelete(c) \/ ReturnError(c)
      BY <2>2 DEF AwaitDelete, ReturnError, ServerStep, TypeInv, NotesOK, serverVars, historyVars
    <2> QED
      BY <2>1, <2>2
  <1>4. CASE Return(c) \/ \E step \in {"awaitDelete", "failed"} : Goto(c, step) /\ UNCHANGED workVars
    <2>1. PICK step \in {"awaitDelete", "failed"} : Return(c) \/ (Goto(c, step) /\ UNCHANGED workVars)
      BY <1>4
    <2>2. step \in Steps \ {"idle"} /\ step \notin ReadSteps /\ step \notin CreateSteps
          /\ step \notin SetSteps /\ step \notin SecretSteps /\ pc[c] # "idle"
      BY <1>1 DEF Steps, CreateSteps, SetSteps, DeleteSteps, ReadSteps, SecretSteps
    <2>3. step = "awaitDelete" /\ Goto(c, step) /\ UNCHANGED workVars => call[c].op = "DeleteKey"
      <3>1. CASE AwaitDelete(c) \/ ReturnError(c)
        BY <1>1, <3>1 DEF AwaitDelete, ReturnError, Return, Goto, TypeInv, WorkOK
      <3>2. CASE DeleteKey(c)
        BY <3>2 DEF DeleteKey, TypeInv, CallerOK, DeleteSteps
      <3> QED
        BY <3>1, <3>2
    <2>4. Return(c) \/ (Goto(c, step) /\ UNCHANGED workVars /\ (step \in DeleteSteps => call[c].op = "DeleteKey"))
      BY <2>1, <2>3 DEF DeleteSteps
    <2>5. CASE Return(c)
      BY <1>1, <1>3, <2>2, <2>5, Returns, CallerMoves, ServerEffect, SecretAssumption DEF LogsOK
    <2>6. CASE Goto(c, step) /\ UNCHANGED workVars /\ (step \in DeleteSteps => call[c].op = "DeleteKey")
      BY <1>1, <1>3, <2>2, <2>6, QuietMove
    <2> QED
      BY <2>4, <2>5, <2>6
  <1>5. CASE crashed' = TRUE /\ UNCHANGED <<serverVars, pc, workVars, historyVars>>
    BY <1>1, <1>5, PanicType
  <1> QED
    BY <1>2, <1>4, <1>5

\* A set that ends, whatever it has read.
LEMMA SetReturns ==
  ASSUME TypeInv, NEW c \in Callers, Return(c), UNCHANGED <<serverVars, cacheVars, crashed, acked, historyVars>>
  PROVE  TypeInv'
  <1>1. ServerStep /\ NotesOK' /\ made' \in Nat
    BY SecretAssumption DEF ServerStep, serverVars, historyVars, TypeInv, NotesOK, LogsOK
  <1> QED
    BY <1>1, Returns, CallerMoves

LEMMA SetKeySecretType ==
  ASSUME TypeInv, NEW c \in Callers, SetKeySecret(c)
  PROVE  TypeInv'
  <1> DEFINE s == CachedKey(call[c].key)
  <1>1. /\ pc[c] = "SetKeySecret" /\ call[c].op = "SetKeySecret" /\ call[c].key \in Keys
        /\ made \in Nat /\ call[c] # NoCall
        /\ UNCHANGED <<serverVars, cacheVars, crashed, acked, historyVars>>
    BY AtWork DEF SetKeySecret, TypeInv, CallerOK, SetSteps
  <1>2. CASE s # Absent /\ secret' = [secret EXCEPT ![c] = s]
             /\ Goto(c, "get") /\ UNCHANGED <<call, started, version, tries, expired>>
    <2>1. s \in 1..made /\ s \in Nat /\ s # NoName
      BY <1>1, <1>2, KeyVersions DEF NoName
    <2> HIDE DEF s
    <2>2. ServerStep /\ NotesOK'
      BY <1>1 DEF ServerStep, serverVars, historyVars, TypeInv, NotesOK
    <2>3. WorkOK' /\ \A d \in Callers \ {c} : Waits(d)
      BY <1>1, <1>2, <2>1 DEF TypeInv, WorkOK, Goto, Waits, Steps, SetSteps
    <2>4. pc'[c] = "get" /\ secret'[c] = s /\ call'[c] = call[c] /\ made' = made
      BY <1>1, <1>2 DEF TypeInv, WorkOK, Goto, serverVars
    <2>5. CallerOK(c)'
      BY <1>1, <2>1, <2>4 DEF CallerOK, ReadOK, ReadSteps, CreateSteps, SetSteps, DeleteSteps
    <2> QED
      BY <1>1, <2>2, <2>3, <2>5, CallerMoves
  <1>3. CASE Return(c)
    BY <1>1, <1>3, SetReturns
  <1> QED
    BY <1>2, <1>3 DEF SetKeySecret

LEMMA GetSecretType ==
  ASSUME TypeInv, NEW c \in Callers, GetSecret(c)
  PROVE  TypeInv'
  <1> DEFINE s == secret[c]
  <1>1. /\ pc[c] = "get" /\ call[c].op = "SetKeySecret" /\ call[c] # NoCall
        /\ s \in 1..made /\ s \in Secrets /\ made \in Nat
        /\ UNCHANGED <<serverVars, cacheVars, crashed, acked, historyVars>>
    BY AtWork DEF GetSecret, TypeInv, CallerOK, SetSteps, SecretSteps
  <1> HIDE DEF s
  <1>2. CASE CachedSecret(s) # Absent /\ started' = [started EXCEPT ![c] = secretSeen[s]]
             /\ Goto(c, "patch") /\ UNCHANGED <<call, secret, version, tries, expired>>
    <2>1. secretSeen[s] \in 1..Len(secretLog[s]) /\ Len(secretLog[s]) \in Nat
      BY <1>1, SecretVersions
    <2>2. ServerStep /\ NotesOK'
      BY <1>1 DEF ServerStep, serverVars, historyVars, TypeInv, NotesOK
    <2>3. WorkOK' /\ \A d \in Callers \ {c} : Waits(d)
      BY <1>1, <1>2, <2>1 DEF TypeInv, WorkOK, Goto, Waits, Steps, SetSteps
    <2>4. /\ pc'[c] = "patch" /\ secret'[c] = s /\ call'[c] = call[c] /\ made' = made
          /\ started'[c] = secretSeen[s] /\ secretSeen' = secretSeen /\ secretLog' = secretLog
      BY <1>1, <1>2 DEF TypeInv, WorkOK, Goto, serverVars, cacheVars, s
    <2>5. ReadOK(c)'
      BY <1>2, <2>1, <2>4 DEF ReadOK, CachedSecret
    <2>6. CallerOK(c)'
      BY <1>1, <2>4, <2>5 DEF CallerOK, CreateSteps, SetSteps, DeleteSteps, NoName
    <2> QED
      BY <1>1, <2>2, <2>3, <2>6, CallerMoves
  <1>3. CASE Return(c)
    BY <1>1, <1>3, SetReturns
  <1> QED
    BY <1>2, <1>3 DEF GetSecret, s

LEMMA PatchSecretType ==
  ASSUME TypeInv, NEW c \in Callers, PatchSecret(c)
  PROVE  TypeInv'
  <1> DEFINE s == secret[c]
             d == call[c].value
             log == secretLog[s]
  <1>1. /\ pc[c] = "patch" /\ call[c].op = "SetKeySecret" /\ call[c] # NoCall /\ d \in Values
        /\ s \in 1..made /\ s \in Secrets /\ made \in Nat /\ d \in Data
        /\ UNCHANGED <<cacheVars, boundVars, crashed, acked, historyVars>>
    BY AtWork DEF PatchSecret, TypeInv, CallerOK, SetSteps, SecretSteps, Data
  <1>2. NotesOK' \/ made' # made
    BY <1>1 DEF historyVars, TypeInv, NotesOK
  <1>3. /\ started[c] \in 1..secretSeen[s] /\ secretSeen[s] \in 1..Len(log) /\ Len(log) \in Nat
        /\ ServerSecret(s) = log[Len(log)] /\ Original(c) = log[started[c]]
    BY <1>1, SecretVersions DEF TypeInv, CallerOK, ReadOK, ReadSteps, Original
  <1>4. CASE Return(c) /\ UNCHANGED serverVars
    BY <1>1, <1>4, SetReturns
  <1>5. CASE Goto(c, "awaitRetry") /\ UNCHANGED <<serverVars, workVars>>
    <2>1. ServerStep /\ made' = made
      BY <1>5 DEF ServerStep, serverVars
    <2>2. WorkOK' /\ \A e \in Callers \ {c} : Waits(e)
      BY <1>1, <1>5, Proceeds DEF Steps, SetSteps
    <2>3. /\ pc'[c] = "awaitRetry" /\ secret'[c] = s /\ call'[c] = call[c]
          /\ started'[c] = started[c] /\ secretSeen' = secretSeen /\ secretLog' = secretLog
      BY <1>1, <1>5 DEF TypeInv, WorkOK, Goto, serverVars, cacheVars, workVars
    <2>4. ReadOK(c)'
      BY <1>1, <2>3 DEF ReadOK, ReadSteps, TypeInv, CallerOK
    <2>5. CallerOK(c)'
      BY <1>1, <2>1, <2>3, <2>4 DEF CallerOK, CreateSteps, SetSteps, DeleteSteps, NoName
    <2> QED
      BY <1>1, <1>2, <2>1, <2>2, <2>5, CallerMoves
  <1>6. CASE /\ ServerSecret(s) = Original(c)
             /\ IF d = Original(c) THEN UNCHANGED secretLog ELSE WriteSecret(s, d)
             /\ version' = [version EXCEPT ![c] = Len(secretLog'[s])]
             /\ Answered(c, "awaitSet")
             /\ UNCHANGED <<keyLog, made, call, secret, started, tries, expired>>
    <2>1. ServerStep
      BY <1>1, <1>6 DEF ServerStep, WritesSecret, serverVars
    <2>2. Len(secretLog'[s]) \in Nat
      BY <1>1, <2>1, ServerEffect DEF LogsOK
    <2>3. WorkOK' /\ \A e \in Callers \ {c} : Waits(e)
      BY <1>1, <1>6, <2>2 DEF TypeInv, WorkOK, Goto, Answered, Waits, Steps, SetSteps
    <2>4. /\ pc'[c] \in {"awaitSet", "failed"} /\ secret'[c] = s /\ call'[c] = call[c] /\ expired' = expired
          /\ started'[c] = started[c] /\ secretSeen' = secretSeen /\ version'[c] = Len(secretLog'[s])
      BY <1>1, <1>6 DEF TypeInv, WorkOK, Goto, Answered, cacheVars
    <2>5. ReadOK(c)'
      <3>1. CASE d = Original(c)
        <4>1. secretLog' = secretLog
          BY <1>6, <3>1
        <4>2. Original(c) # Absent
          BY <1>1 DEF TypeInv, CallerOK, ReadOK, ReadSteps, Original
        <4>3. version'[c] = Len(log) /\ log[Len(log)] = d /\ log[started[c]] = d
          BY <1>3, <1>6, <2>4, <3>1, <4>1
        <4>4. version'[c] \in started[c]..Len(log)
          BY <1>3, <4>3
        <4> HIDE DEF s, d
        <4> QED
          BY <1>3, <2>4, <3>1, <4>1, <4>2, <4>3, <4>4 DEF ReadOK, Original, d
      <3>2. CASE d # Original(c)
        <4>1. WritesSecret(s, d)
          BY <1>1, <1>6, <3>2 DEF WritesSecret
        <4>2. Len(secretLog'[s]) = Len(log) + 1 /\ secretLog'[s][Len(log) + 1] = d
              /\ \A i \in 1..Len(log) : secretLog'[s][i] = log[i]
          <5>1. Len(secretLog'[s]) = Len(log) + 1 /\ secretLog'[s][Len(secretLog'[s])] = d /\ LogsGrow
            BY <4>1, SecretWritten
          <5>2. Grows(log, secretLog'[s])
            BY <1>1, <5>1 DEF LogsGrow
          <5> QED
            BY <5>1, <5>2 DEF Grows
        <4>3. secretLog'[s][started[c]] = Original(c) /\ secretLog'[s][Len(log)] = Original(c)
          <5>1. started[c] \in 1..Len(log) /\ Len(log) \in 1..Len(log)
            BY <1>3
          <5> QED
            BY <1>3, <1>6, <4>2, <5>1
        <4>4. Original(c) # Absent
          BY <1>1 DEF TypeInv, CallerOK, ReadOK, ReadSteps, Original
        <4>5. /\ version'[c] = Len(log) + 1 /\ version'[c] - 1 = Len(log)
              /\ version'[c] \in started[c]..Len(secretLog'[s])
              /\ version'[c] - 1 >= started[c]
          BY <1>3, <2>4, <4>2
        <4> HIDE DEF log, d, s
        <4> QED
          BY <1>3, <2>4, <4>2, <4>3, <4>4, <4>5 DEF ReadOK, Original, d
      <3> QED
        BY <3>1, <3>2
    <2>6. CallerOK(c)'
      BY <1>1, <1>6, <2>4, <2>5 DEF CallerOK, CreateSteps, SetSteps, DeleteSteps, NoName
    <2> QED
      BY <1>1, <1>2, <1>6, <2>1, <2>3, <2>6, CallerMoves
  <1> QED
    BY <1>4, <1>5, <1>6 DEF PatchSecret

\* If the cache has the data that a set has written, and that data was not
\* changed back in between, then it has the version that was written.
LEMMA AcknowledgedSeen ==
  ASSUME TypeInv, NEW c \in Callers, pc[c] = "awaitSet",
         CachedSecret(secret[c]) = call[c].value, ~ChangedBack(c)
  PROVE  version[c] <= secretSeen[secret[c]]
  <1> DEFINE s == secret[c]
             log == secretLog[s]
             seen == secretSeen[s]
             first == started[c]
             new == version[c]
  <1>1. /\ seen \in 1..Len(log) /\ Len(log) \in Nat /\ s \in Secrets
        /\ log[seen] = call[c].value /\ Original(c) = log[first]
    BY AtWork, SecretVersions DEF SecretSteps, CachedSecret, Original
  <1>2. /\ first \in 1..seen /\ new \in first..Len(log) /\ log[new] = call[c].value
        /\ call[c].value # log[first] => new - 1 >= first /\ log[new - 1] = log[first]
    BY <1>1 DEF TypeInv, CallerOK, ReadOK, ReadSteps
  <1>3. ~ \E v, w \in (first + 1)..new : v < w /\ log[v] # log[first] /\ log[w] = log[first]
    BY <1>1 DEF ChangedBack
  <1>4. \A i \in 1..(Len(log) - 1) : log[i] # log[i + 1]
    BY <1>1 DEF TypeInv, LogsOK, LogOK
  <1> HIDE DEF s, log, seen, first, new
  <1> SUFFICES ASSUME seen < new PROVE FALSE
    BY <1>1, <1>2 DEF seen, new, s
  <1>5. CASE call[c].value = log[first]
    <2>1. log[seen + 1] # log[first]
      BY <1>1, <1>2, <1>4, <1>5
    <2>2. seen + 1 # new
      BY <1>2, <1>5, <2>1
    <2>3. seen + 1 \in (first + 1)..new /\ new \in (first + 1)..new /\ seen + 1 < new
      BY <1>1, <1>2, <2>2
    <2> QED
      BY <1>2, <1>3, <1>5, <2>1, <2>3
  <1>6. CASE call[c].value # log[first]
    <2>1. log[new - 1] = log[first] /\ seen # new - 1 /\ seen # first
      BY <1>1, <1>2, <1>6
    <2>2. seen \in (first + 1)..new /\ new - 1 \in (first + 1)..new /\ seen < new - 1
      BY <1>1, <1>2, <2>1
    <2> QED
      BY <1>1, <1>3, <1>6, <2>1, <2>2
  <1> QED
    BY <1>5, <1>6

LEMMA AwaitSetType ==
  ASSUME TypeInv, NEW c \in Callers, AwaitSet(c)
  PROVE  TypeInv'
  <1> DEFINE s == secret[c]
  <1>1. /\ pc[c] = "awaitSet" /\ Return(c) /\ s \in Secrets /\ made \in Nat
        /\ UNCHANGED <<serverVars, cacheVars, boundVars, crashed, historyVars>>
    BY AtWork DEF AwaitSet, SecretSteps
  <1>2. acked' \in [Secrets -> Nat] /\ \A t \in Secrets : acked'[t] <= secretSeen[t]
    <2>1. acked \in [Secrets -> Nat] /\ version[c] \in Nat /\ \A t \in Secrets : acked[t] <= secretSeen[t]
      BY DEF TypeInv, CachesOK, WorkOK
    <2>2. CASE UNCHANGED acked
      BY <2>1, <2>2
    <2>3. CASE CachedSecret(s) = call[c].value /\ ~ChangedBack(c)
               /\ acked' = [acked EXCEPT ![s] = Max({@, version[c]})]
      <3> DEFINE m == Max({acked[s], version[c]})
      <3>1. m \in {acked[s], version[c]}
        BY <1>1, <2>1, MaxOfTwo
      <3>2. version[c] <= secretSeen[s]
        BY <1>1, <2>3, AcknowledgedSeen
      <3>3. acked' = [acked EXCEPT ![s] = m]
        BY <2>3
      <3> HIDE DEF m
      <3> QED
        BY <1>1, <2>1, <3>1, <3>2, <3>3
    <2> QED
      BY <2>2, <2>3 DEF AwaitSet, Acknowledge
  <1>3. LogsOK' /\ LogsGrow /\ NotesOK' /\ made' = made
    BY <1>1, ServerEffect DEF ServerStep, TypeInv, NotesOK, serverVars, historyVars
  <1>4. CachesOK'
    BY <1>1, <1>2 DEF TypeInv, CachesOK, cacheVars, serverVars
  <1>5. WorkOK' /\ CallerOK(c)' /\ \A d \in Callers \ {c} : Waits(d)
    BY <1>1, <1>3, Returns
  <1>6. secretSeen' \in [Secrets -> Nat] /\ \A t \in Secrets : secretSeen'[t] >= secretSeen[t]
    BY <1>1 DEF TypeInv, CachesOK, cacheVars
  <1>7. \A d \in Callers : CallerOK(d)'
    BY <1>3, <1>5, <1>6, Bystander
  <1> QED
    BY <1>3, <1>4, <1>5, <1>7 DEF TypeInv

LEMMA AwaitRetryType ==
  ASSUME TypeInv, NEW c \in Callers, AwaitRetry(c)
  PROVE  TypeInv'
  <1>1. /\ pc[c] = "awaitRetry" /\ call[c].op = "SetKeySecret" /\ call[c] # NoCall
        /\ secret[c] \in 1..made /\ made \in Nat
        /\ UNCHANGED <<serverVars, cacheVars, crashed, acked, historyVars>>
    BY AtWork DEF AwaitRetry, TypeInv, CallerOK, SetSteps, SecretSteps
  <1>2. CASE /\ tries[c] + 1 < Attempts /\ tries' = [tries EXCEPT ![c] = @ + 1]
             /\ Goto(c, "get") /\ UNCHANGED <<call, secret, started, version, expired>>
    <2>1. ServerStep /\ NotesOK' /\ made' = made
      BY <1>1 DEF ServerStep, serverVars, historyVars, TypeInv, NotesOK
    <2>2. tries' \in [Callers -> 0..(Attempts - 1)]
      BY <1>2 DEF TypeInv, WorkOK, Attempts
    <2>3. WorkOK' /\ \A d \in Callers \ {c} : Waits(d)
      BY <1>1, <1>2, <2>2 DEF TypeInv, WorkOK, Goto, Waits, Steps, SetSteps
    <2>4. pc'[c] = "get" /\ secret'[c] = secret[c] /\ call'[c] = call[c]
      BY <1>1, <1>2 DEF TypeInv, WorkOK, Goto
    <2>5. CallerOK(c)'
      BY <1>1, <2>1, <2>4 DEF CallerOK, ReadOK, ReadSteps, CreateSteps, SetSteps, DeleteSteps, NoName
    <2> QED
      BY <1>1, <2>1, <2>3, <2>5, CallerMoves
  <1>3. CASE Return(c)
    BY <1>1, <1>3, SetReturns
  <1> QED
    BY <1>2, <1>3 DEF AwaitRetry

LEMMA BeginType ==
  ASSUME TypeInv, NEW c \in Callers, NEW k \in Calls, Begin(c, k)
  PROVE  TypeInv'
  <1>1. k \in Call /\ k.op \in {"CreateKey", "SetKeySecret", "DeleteKey"} /\ k # NoCall
    BY SecretAssumption, CallRecords DEF Call
  <1>2. ServerStep /\ NotesOK' /\ made' = made /\ made \in Nat /\ UNCHANGED <<cacheVars, acked>>
    BY SecretAssumption DEF Begin, ServerStep, serverVars, historyVars, TypeInv, NotesOK, LogsOK
  <1>3. WorkOK' /\ \A d \in Callers \ {c} : Waits(d)
    BY <1>1 DEF Begin, TypeInv, WorkOK, Goto, Waits, Steps, CreateSteps, SetSteps, DeleteSteps
  <1>4. /\ pc'[c] = k.op /\ call'[c] = k /\ secret'[c] = secret[c] /\ secret[c] \in 0..made
        /\ expired' = expired
    BY DEF Begin, TypeInv, WorkOK, Goto, CallerOK
  <1>5. CallerOK(c)'
    <2>1. ReadOK(c)'
      BY <1>1, <1>4 DEF ReadOK, ReadSteps
    <2> QED
      BY <1>1, <1>2, <1>4, <2>1 DEF CallerOK, CreateSteps, SetSteps, DeleteSteps, SecretSteps
  <1> QED
    BY <1>2, <1>3, <1>5, CallerMoves

LEMMA ExpireType ==
  ASSUME TypeInv, NEW c \in Callers, Expire(c)
  PROVE  TypeInv'
  BY DEF Expire, TypeInv, LogsOK, CachesOK, WorkOK, NotesOK, CallerOK, ReadOK, Original,
         serverVars, cacheVars, historyVars

\* The cache catches up with the server.
LEMMA SeeType ==
  ASSUME TypeInv, UNCHANGED <<serverVars, pc, workVars, acked>>, NotesOK',
         keySeen' \in [Keys -> Nat], secretSeen' \in [Secrets -> Nat],
         \A k \in Keys : keySeen'[k] \in 1..Len(keyLog[k]),
         \A s \in Secrets : secretSeen'[s] \in secretSeen[s]..Len(secretLog[s])
  PROVE  TypeInv'
  <1>1. LogsOK' /\ LogsGrow
    BY ServerEffect DEF ServerStep
  <1>2. \A s \in Secrets : secretSeen[s] \in Nat \ {0} /\ Len(secretLog[s]) \in Nat /\ secretSeen'[s] >= secretSeen[s]
    BY SecretVersions
  <1>3. CachesOK'
    <2>1. \A s \in Secrets : acked[s] \in Nat /\ acked[s] <= secretSeen[s]
      BY DEF TypeInv, CachesOK
    <2>2. \A s \in Secrets : secretSeen'[s] \in 1..Len(secretLog[s]) /\ acked[s] <= secretSeen'[s]
      BY <1>2, <2>1
    <2> QED
      BY <2>2 DEF TypeInv, CachesOK, serverVars
  <1>4. WorkOK' /\ \A c \in Callers : Waits(c)
    BY DEF TypeInv, WorkOK, workVars, Waits
  <1> QED
    BY <1>1, <1>2, <1>3, <1>4, Bystander DEF TypeInv

LEMMA InformerType ==
  ASSUME TypeInv, Informers
  PROVE  TypeInv'
  <1> USE DEF TypeInv, CachesOK
  <1>1. \A k \in Keys : Len(keyLog[k]) \in Nat
    BY DEF LogsOK
  <1>2. \A s \in Secrets : Len(secretLog[s]) \in Nat
    BY DEF LogsOK
  <1>3. ASSUME NEW k \in Keys, SeeKey(k)
        PROVE  /\ keySeen' \in [Keys -> Nat] /\ \A j \in Keys : keySeen'[j] \in 1..Len(keyLog[j])
               /\ secretSeen' \in [Secrets -> Nat]
               /\ \A s \in Secrets : secretSeen'[s] \in secretSeen[s]..Len(secretLog[s])
    BY <1>1, <1>2, <1>3 DEF SeeKey
  <1>4. ASSUME NEW s \in Secrets, SeeSecret(s)
        PROVE  /\ secretSeen' \in [Secrets -> Nat]
               /\ \A t \in Secrets : secretSeen'[t] \in secretSeen[t]..Len(secretLog[t])
               /\ keySeen' \in [Keys -> Nat] /\ \A j \in Keys : keySeen'[j] \in 1..Len(keyLog[j])
    BY <1>2, <1>4 DEF SeeSecret
  <1>5. UNCHANGED <<serverVars, pc, workVars, acked>> /\ NotesOK'
    BY DEF Informers, SeeKey, SeeSecret, NotesOK, serverVars, historyVars
  <1> HIDE DEF TypeInv
  <1>6. CASE \E k \in Keys : SeeKey(k)
    BY <1>3, <1>5, <1>6, SeeType
  <1>7. CASE \E s \in Secrets : SeeSecret(s)
    BY <1>4, <1>5, <1>7, SeeType
  <1> QED
    BY <1>6, <1>7 DEF Informers

\* The key has referred to the secret at some time.
Refers(k, s) == \E i \in 1..Len(keyLog[k]) : keyLog[k][i] = s

\* What others do to a key: it is deleted, or refers to a secret that they have
\* named or that it had before.
DeletesKey(k) == WritesKey(k, Absent) /\ ServerKey(k) \in excused' /\ UNCHANGED secretLog

OthersKey(k, s) ==
  /\ NamesKey(k, s) /\ (s \in foreign' \/ Refers(k, s)) /\ \A j \in Keys \ {k} : ~Refers(j, s)
  /\ ServerKey(k) # Absent => ServerKey(k) \in excused'

\* What others do to a secret: it is deleted, or written if they have named it or
\* a key refers to it.
Cuts(s) == WritesSecret(s, Absent) /\ s \in cut'

OthersPut(s, d) ==
  /\ d # Absent /\ (WritesSecret(s, d) \/ (MakesSecret(d) /\ s = made + 1))
  /\ s \in foreign' \/ \E k \in Keys : ServerKey(k) = s

OtherEffect ==
  \/ UNCHANGED <<secretLog, made>> /\ \E k \in Keys : DeletesKey(k)
  \/ \E k, s : OthersKey(k, s)
  \/ UNCHANGED keyLog /\ \E s : Cuts(s)
  \/ UNCHANGED keyLog /\ \E s, d : OthersPut(s, d)

\* The secrets of others are numbered like all others.
LEMMA Named ==
  ASSUME TypeInv, NEW s, s \in 1..made \cup {made + 1}, Name(s)
  PROVE  /\ made \in Nat /\ made' \in {made, made + 1} /\ s \in 1..made'
         /\ s \in 1..made => made' = made /\ foreign' = foreign
         /\ s = made + 1 => made' = made + 1 /\ foreign' = foreign \cup {s}
         /\ foreign \subseteq foreign' /\ foreign' \subseteq foreign \cup {made + 1} /\ foreign' \subseteq 1..made'
  <1>1. made \in Nat /\ s \in Nat /\ foreign \subseteq 1..made
    BY SecretAssumption DEF TypeInv, LogsOK, NotesOK
  <1>2. made' \in {made, s} /\ made' >= made /\ made' >= s
    BY <1>1, MaxOfTwo DEF Name
  <1>3. foreign' = foreign \cup ({s} \ 1..made)
    BY DEF Name
  <1>4. CASE s \in 1..made
    BY <1>1, <1>2, <1>3, <1>4
  <1>5. CASE s = made + 1
    BY <1>1, <1>2, <1>3, <1>5
  <1> QED
    BY <1>4, <1>5

LEMMA OtherEffects ==
  ASSUME TypeInv, NEW op \in OtherOps, OtherWrite(op)
  PROVE  /\ OtherEffect /\ NotesOK' /\ cut \subseteq cut' /\ excused \subseteq excused'
         /\ foreign \subseteq foreign' /\ foreign' \subseteq foreign \cup {made + 1}
  <1>0. /\ made \in Nat /\ made \in 0..MaxSecrets /\ MaxSecrets \in Nat /\ crashed' = crashed
        /\ Absent \notin Secrets /\ NotesOK
    BY SecretAssumption DEF TypeInv, LogsOK, OtherWrite
  <1>1. CASE \E k \in Keys : ServerKey(k) # Absent /\ WriteKey(k, Absent) /\ Excuse({ServerKey(k)})
               /\ UNCHANGED <<secretLog, made>>
    <2>1. PICK k \in Keys : ServerKey(k) # Absent /\ WriteKey(k, Absent) /\ Excuse({ServerKey(k)})
               /\ UNCHANGED <<secretLog, made>>
      BY <1>1
    <2>2. ServerKey(k) \in 1..made
      BY <2>1, KeyVersions
    <2>3. DeletesKey(k)
      BY <2>1 DEF DeletesKey, WritesKey, Excuse
    <2> QED
      BY <1>0, <2>1, <2>2, <2>3 DEF OtherEffect, NotesOK, Excuse
  <1>2. CASE \E s \in Secrets : ServerSecret(s) # Absent /\ WriteSecret(s, Absent)
               /\ cut' = cut \cup {s} /\ UNCHANGED <<excused, foreign, keyLog, made>>
    <2>1. PICK s \in Secrets : ServerSecret(s) # Absent /\ WriteSecret(s, Absent)
               /\ cut' = cut \cup {s} /\ UNCHANGED <<excused, foreign, keyLog, made>>
      BY <1>2
    <2>2. s \in 1..made
      BY <1>0, <2>1, SecretVersions DEF Secrets
    <2>3. Cuts(s)
      BY <2>1, <2>2 DEF Cuts, WritesSecret, Data
    <2> QED
      BY <1>0, <2>1, <2>2, <2>3 DEF OtherEffect, NotesOK
  <1>3. CASE \E k \in Keys : \E s \in OthersReferences(k) \ {ServerKey(k)} :
               /\ WriteKey(k, s) /\ Name(s) /\ excused' = excused \cup ({ServerKey(k)} \ {Absent})
               /\ UNCHANGED <<secretLog, cut>>
    <2>0. PICK k \in Keys : \E s \in OthersReferences(k) \ {ServerKey(k)} :
               /\ WriteKey(k, s) /\ Name(s) /\ excused' = excused \cup ({ServerKey(k)} \ {Absent})
               /\ UNCHANGED <<secretLog, cut>>
      BY <1>3
    <2>1. PICK s \in OthersReferences(k) :
               /\ WriteKey(k, s) /\ Name(s) /\ excused' = excused \cup ({ServerKey(k)} \ {Absent})
               /\ UNCHANGED <<secretLog, cut>>
      BY <2>0
    <2>2. Refers(k, s) => s \in 1..made
      BY <1>0, <2>1 DEF OthersReferences, Refers, TypeInv, LogsOK
    <2>3. s \in Secrets /\ (s \in foreign \/ s = made + 1 \/ Refers(k, s))
      <3>1. keyLog[k] \in Seq(Secrets \cup {Absent})
        BY DEF TypeInv, LogsOK
      <3> QED
        BY <2>1, <3>1 DEF OthersReferences, ToSet, Refers
    <2>4. s \in 1..made \cup {made + 1} /\ s <= MaxSecrets
      BY <1>0, <2>2, <2>3 DEF NotesOK, Secrets
    <2>5. /\ made' \in {made, made + 1} /\ s \in 1..made' /\ foreign \subseteq foreign'
          /\ foreign' \subseteq foreign \cup {made + 1} /\ foreign' \subseteq 1..made'
          /\ (s = made + 1 => s \in foreign')
      BY <2>1, <2>4, Named
    <2>6. made' <= MaxSecrets
      <3>1. CASE s \in 1..made
        BY <1>0, <2>1, <3>1, Named
      <3>2. CASE s = made + 1
        BY <1>0, <2>4, <2>5, <3>2
      <3> QED
        BY <2>4, <3>1, <3>2
    <2>7. \A j \in Keys \ {k} : ~Refers(j, s)
      <3> SUFFICES ASSUME NEW j \in Keys \ {k}, Refers(j, s) PROVE FALSE
        OBVIOUS
      <3>1. keyLog[j] \in Seq(Secrets \cup {Absent})
        BY DEF TypeInv, LogsOK
      <3>2. s \in ToSet(keyLog[j])
        BY <3>1 DEF ToSet, Refers
      <3> QED
        BY <2>1, <3>2 DEF OthersReferences
    <2>8. ServerKey(k) \in 1..made \cup {Absent}
      BY KeyVersions
    <2>9. OthersKey(k, s)
      BY <2>1, <2>3, <2>5, <2>6, <2>7 DEF OthersKey, NamesKey
    <2>10. 1..made \subseteq 1..made'
      BY <1>0, <2>5
    <2>11. NotesOK'
      BY <1>0, <2>1, <2>5, <2>8, <2>10 DEF NotesOK
    <2> QED
      BY <2>1, <2>5, <2>9, <2>11 DEF OtherEffect
  <1>4. CASE \E s \in OthersSecrets : \E d \in Data \ {Absent, ServerSecret(s)} :
               WriteSecret(s, d) /\ Name(s) /\ UNCHANGED <<keyLog, excused, cut>>
    <2>1. PICK s \in OthersSecrets, d \in Data \ {Absent} :
               d # ServerSecret(s) /\ WriteSecret(s, d) /\ Name(s) /\ UNCHANGED <<keyLog, excused, cut>>
      BY <1>4
    <2>2. s \in Secrets /\ (s \in foreign \/ s = made + 1 \/ \E k \in Keys : ServerKey(k) = s)
      BY DEF OthersSecrets
    <2>3. s \in 1..made \cup {made + 1} /\ s <= MaxSecrets
      <3>1. \A k \in Keys : ServerKey(k) \in 1..made \cup {Absent}
        BY KeyVersions
      <3> QED
        BY <1>0, <2>2, <3>1 DEF NotesOK, Secrets
    <2>4. /\ foreign \subseteq foreign' /\ foreign' \subseteq foreign \cup {made + 1} /\ foreign' \subseteq 1..made'
          /\ made' \in {made, made + 1} /\ (s = made + 1 => s \in foreign')
      BY <2>1, <2>3, Named
    <2>5. WritesSecret(s, d) \/ (MakesSecret(d) /\ s = made + 1)
      <3>1. CASE s \in 1..made
        <4>1. made' = made
          BY <2>1, <3>1, Named
        <4> QED
          BY <2>1, <3>1, <4>1 DEF WritesSecret
      <3>2. CASE s = made + 1
        <4>1. made' = made + 1 /\ made < MaxSecrets
          BY <1>0, <2>1, <2>3, <3>2, Named
        <4> QED
          BY <2>1, <3>2, <4>1 DEF MakesSecret
      <3> QED
        BY <2>3, <3>1, <3>2
    <2>6. OthersPut(s, d)
      BY <2>2, <2>4, <2>5 DEF OthersPut
    <2> QED
      BY <1>0, <2>1, <2>4, <2>6 DEF OtherEffect, NotesOK
  <1> QED
    BY <1>1, <1>2, <1>3, <1>4 DEF OtherWrite, Excuse

LEMMA OtherType ==
  ASSUME TypeInv, NEW op \in OtherOps, OtherWrite(op)
  PROVE  TypeInv'
  <1>1. UNCHANGED <<cacheVars, pc, workVars, crashed, acked>>
    BY DEF OtherWrite
  <1>2. ServerStep /\ NotesOK'
    BY OtherEffects DEF OtherEffect, DeletesKey, OthersKey, Cuts, OthersPut, ServerStep
  <1>3. LogsOK' /\ LogsGrow
    BY <1>2, ServerEffect
  <1>4. WorkOK' /\ \A c \in Callers : Waits(c)
    BY <1>1 DEF TypeInv, WorkOK, workVars, Waits
  <1>5. CachesOK'
    <2>1. /\ \A k \in Keys : Len(keyLog[k]) \in Nat /\ Len(keyLog'[k]) \in Nat /\ Len(keyLog'[k]) >= Len(keyLog[k])
          /\ \A s \in Secrets : Len(secretLog[s]) \in Nat /\ Len(secretLog'[s]) \in Nat
                               /\ Len(secretLog'[s]) >= Len(secretLog[s])
      BY <1>3 DEF TypeInv, LogsOK, LogsGrow, Grows
    <2> QED
      BY <1>1, <2>1 DEF TypeInv, CachesOK, cacheVars
  <1>6. secretSeen' \in [Secrets -> Nat] /\ \A s \in Secrets : secretSeen'[s] >= secretSeen[s]
    BY <1>1 DEF TypeInv, CachesOK, cacheVars
  <1> QED
    BY <1>2, <1>3, <1>4, <1>5, <1>6, Bystander DEF TypeInv

LEMMA RestartType ==
  ASSUME TypeInv, Restart
  PROVE  TypeInv'
  <1>1. \A k \in Keys : Len(keyLog[k]) \in Nat /\ keySeen[k] \in 1..Len(keyLog[k])
    BY DEF TypeInv, LogsOK, CachesOK
  <1>2. \A s \in Secrets : /\ Len(secretLog[s]) \in Nat /\ secretSeen[s] \in 1..Len(secretLog[s])
                          /\ acked[s] \in Nat /\ acked[s] <= secretSeen[s]
    BY DEF TypeInv, LogsOK, CachesOK
  <1>3. LogsOK'
    BY DEF Restart, TypeInv, LogsOK, serverVars
  <1>4. CachesOK'
    BY <1>1, <1>2 DEF Restart, TypeInv, CachesOK, serverVars
  <1>5. WorkOK'
    BY DEF Restart, WorkOK, Steps, NoName, Attempts
  <1>6. NotesOK'
    <2>1. \A c \in Callers : secret[c] \in 0..made
      BY DEF TypeInv, CallerOK
    <2>2. {secret[c] : c \in Callers} \ {NoName} \subseteq 1..made
      BY <2>1, SecretAssumption DEF NoName, TypeInv, LogsOK
    <2> QED
      BY <2>2 DEF Restart, TypeInv, NotesOK, Excuse, serverVars
  <1>7. \A c \in Callers : CallerOK(c)'
    <2>1. made' \in Nat
      BY <1>3, SecretAssumption DEF LogsOK
    <2> QED
      BY <2>1 DEF Restart, CallerOK, ReadOK, CreateSteps, SetSteps, DeleteSteps, SecretSteps, ReadSteps, NoName
  <1> QED
    BY <1>3, <1>4, <1>5, <1>6, <1>7 DEF TypeInv

LEMMA TypeInit == Init => TypeInv
  <1> SUFFICES ASSUME Init PROVE TypeInv
    OBVIOUS
  <1> USE SecretAssumption DEF Init
  <1>1. <<Absent>> \in Seq(Data) /\ <<Absent>> \in Seq(Secrets \cup {Absent})
        /\ Len(<<Absent>>) = 1 /\ <<Absent>>[1] = Absent
    BY DEF Data
  <1>2. LogsOK
    BY <1>1 DEF LogsOK, LogOK
  <1>3. CachesOK
    BY <1>1 DEF CachesOK
  <1>4. WorkOK /\ NotesOK
    <2>1. NotesOK
      BY DEF NotesOK
    <2>2. pc \in [Callers -> Steps]
      BY DEF Steps
    <2>3. tries \in [Callers -> 0..(Attempts - 1)] /\ secret \in [Callers -> Nat]
      BY DEF Attempts, NoName
    <2> QED
      BY <2>1, <2>2, <2>3 DEF WorkOK
  <1>5. \A c \in Callers : CallerOK(c)
    BY DEF CallerOK, ReadOK, CreateSteps, SetSteps, DeleteSteps, SecretSteps, ReadSteps, NoName
  <1> QED
    BY <1>2, <1>3, <1>4, <1>5 DEF TypeInv

LEMMA TypeStep == TypeInv /\ [Next]_vars => TypeInv'
  <1> SUFFICES ASSUME TypeInv, [Next]_vars PROVE TypeInv'
    OBVIOUS
  <1>1. ASSUME NEW c \in Callers, CallStep(c)
        PROVE  TypeInv'
    BY <1>1, CreateSecretType, CreateTypes, DeleteTypes, SetKeySecretType, GetSecretType, PatchSecretType,
       AwaitSetType, AwaitRetryType DEF CallStep
  <1>2. CASE UNCHANGED vars
    BY <1>2, PanicType DEF vars, TypeInv, NotesOK
  <1> QED
    BY <1>1, <1>2, BeginType, ExpireType, InformerType, OtherType, RestartType DEF Next

LEMMA TypeInvariant == Spec => []TypeInv
  BY TypeInit, TypeStep, PTL DEF Spec

\* Every variable keeps its type, whatever calls are made and whatever fails.
THEOREM SecretsTypeCorrect == Spec => []TypeOK
  <1>1. TypeInv => TypeOK
    <2> SUFFICES ASSUME TypeInv PROVE TypeOK
      OBVIOUS
    <2>1. \A k \in Keys : keySeen[k] \in DOMAIN keyLog[k] /\ ServerKey(k) \in 1..made \cup {Absent}
      BY KeyVersions DEF TypeInv, CachesOK, LogsOK
    <2>2. \A s \in Secrets : secretSeen[s] \in DOMAIN secretLog[s] /\ acked[s] \in 0..Len(secretLog[s])
      BY SecretVersions DEF TypeInv, CachesOK, LogsOK
    <2>3. secret \in [Callers -> 1..made \cup {NoName}]
      BY SecretAssumption DEF TypeInv, WorkOK, CallerOK, LogsOK, NoName
    <2>4. \A c \in Callers : (pc[c] = "idle") = (call[c] = NoCall)
      BY DEF TypeInv, CallerOK
    <2>5. expired \subseteq {c \in Callers : pc[c] # "idle"}
      BY DEF TypeInv, WorkOK, CallerOK
    <2> QED
      BY <2>1, <2>2, <2>3, <2>4, <2>5 DEF TypeInv, TypeOK, LogsOK, WorkOK, NotesOK
  <1> QED
    BY <1>1, TypeInvariant, PTL

\* When SetKeySecret has returned, an older secret is not read any more, for
\* any number of callers, keys, failures and restarts.
THEOREM AcknowledgedSecretRead == Spec => []AcknowledgedSecretCached
  <1>1. TypeInv => AcknowledgedSecretCached
    BY DEF TypeInv, CachesOK, AcknowledgedSecretCached
  <1> QED
    BY <1>1, TypeInvariant, PTL

-----------------------------------------------------------------------------
(* Keys and the secrets they refer to.                                     *)

\* Since it was created the secret was never deleted.
Alive(s) == \A j \in 2..Len(secretLog[s]) : secretLog[s][j] # Absent

Unreferred(s) == \A k \in Keys : ~Refers(k, s)

BeforeKey == {"awaitSecret", "createKey"}
Creating  == {"awaitSecret", "createKey", "awaitKey", "cleanup"}
Setting   == {"get", "patch", "awaitSet", "awaitRetry"}

\* A secret belongs to one key, and is in the cache before the key is created.
ReferOK ==
  \A k \in Keys, s \in Secrets : Refers(k, s) =>
    /\ s \notin cut \cup foreign => Alive(s) /\ secretSeen[s] >= 2
    /\ \A j \in Keys : Refers(j, s) => j = k

\* The data is still what CreateKey has written.
Untouched(c) ==
  \/ ServerSecret(secret[c]) = call[c].value
  \/ ServerSecret(secret[c]) = Absent /\ others > 0

\* Until CreateKey creates the key its secret is its own; it deletes the secret
\* only if no key refers to it or it never heard that one does.
HoldOK(c) ==
  /\ pc[c] \in BeforeKey =>
       /\ Unreferred(secret[c]) /\ Untouched(c)
       /\ secret[c] \notin cut => Alive(secret[c])
  /\ pc[c] = "createKey" => secretSeen[secret[c]] >= 2
  /\ pc[c] = "cleanup" => c \in expired \/ Unreferred(secret[c]) \/ (Failures /\ secret[c] \in cut)
  /\ pc[c] \in Creating =>
       secret[c] \notin foreign /\ \A k \in Keys : Refers(k, secret[c]) => k = call[c].key
  /\ pc[c] \in Setting => Refers(call[c].key, secret[c])

Apart == \A c, d \in Callers : c # d /\ pc[c] \in Creating /\ pc[d] \in Creating => secret[c] # secret[d]

KeyInv ==
  /\ others \in Nat
  /\ ReferOK /\ Apart /\ \A c \in Callers : HoldOK(c)

\* What a step does to the logs of secrets: it edits one that a key refers to,
\* takes back one that was made for a key, or somebody else writes or deletes one.
Edits(s, d)  == /\ WritesSecret(s, d) /\ ServerSecret(s) # Absent /\ d # Absent
                /\ \E k \in Keys : Refers(k, s)
TakesBack(c) == pc[c] = "cleanup" /\ pc'[c] \notin Creating /\ c \notin expired /\ WritesSecret(secret[c], Absent)
Deletes(s)   == Cuts(s) /\ others' > 0
Makes(c)     == /\ pc[c] = "CreateKey" /\ pc'[c] \in {"awaitSecret", "failed"} /\ secret'[c] = made + 1
                /\ call'[c] = call[c] /\ MakesSecret(call[c].value)

SecretEffect ==
  \/ UNCHANGED secretLog
  \/ \E c \in Callers : Makes(c) \/ TakesBack(c)
  \/ \E s, d : Edits(s, d) \/ OthersPut(s, d)
  \/ \E s : Deletes(s)

\* What a step does to the logs of keys.
CreatesKey(c) ==
  /\ pc[c] = "createKey" /\ pc'[c] \in {"awaitKey", "cleanup"} /\ ServerKey(call[c].key) = Absent
  /\ WritesKey(call[c].key, secret[c]) /\ UNCHANGED secretLog

KeyEffect ==
  \/ UNCHANGED keyLog
  \/ \E k : DeletesKey(k)
  \/ \E c \in Callers : CreatesKey(c)
  \/ \E k, s : OthersKey(k, s)

\* A caller whose call goes on later.
Stays(d) ==
  /\ pc'[d] = pc[d] /\ call'[d] = call[d] /\ secret'[d] = secret[d] /\ (d \in expired => d \in expired')

\* References stay, and only CreateKey and others add one, others to a secret
\* that they have named.
LEMMA ReferencesKept ==
  ASSUME TypeInv, TypeInv', KeyEffect, NEW k \in Keys, NEW s \in Secrets
  PROVE  /\ Refers(k, s) => Refers(k, s)'
         /\ Refers(k, s)' =>
              \/ Refers(k, s)
              \/ \E c \in Callers : CreatesKey(c) /\ k = call[c].key /\ s = secret[c]
              \/ (s \in foreign' /\ OthersKey(k, s))
  <1>0. Absent \notin Secrets /\ Len(keyLog[k]) \in Nat
    BY SecretAssumption DEF TypeInv, LogsOK
  <1>1. ASSUME NEW j, NEW r, WritesKey(j, r) \/ NamesKey(j, r)
        PROVE  /\ Refers(k, s) => Refers(k, s)'
               /\ Refers(k, s)' => Refers(k, s) \/ (k = j /\ s = r)
    <2>1. CASE k = j
      <3>1. /\ keyLog' = [keyLog EXCEPT ![j] = Append(@, r)] /\ j \in Keys /\ r \in Secrets \cup {Absent}
            /\ keyLog \in [Keys -> Seq(Secrets \cup {Absent})]
        BY <1>1, SecretAssumption DEF WritesKey, NamesKey, WriteKey, TypeInv, LogsOK, Secrets
      <3>2. /\ Len(keyLog'[k]) = Len(keyLog[k]) + 1 /\ keyLog'[k][Len(keyLog[k]) + 1] = r
            /\ \A i \in 1..Len(keyLog[k]) : keyLog'[k][i] = keyLog[k][i]
        BY <2>1, <3>1, LogAppend
      <3> QED
        BY <1>0, <2>1, <3>2 DEF Refers
    <2>2. CASE k # j
      <3>1. keyLog'[k] = keyLog[k]
        BY <1>1, <2>2 DEF WritesKey, NamesKey, WriteKey, TypeInv, LogsOK
      <3> QED
        BY <3>1 DEF Refers
    <2> QED
      BY <2>1, <2>2
  <1>2. CASE UNCHANGED keyLog
    BY <1>2 DEF Refers
  <1>3. CASE \E j : DeletesKey(j)
    BY <1>0, <1>1, <1>3 DEF DeletesKey
  <1>4. CASE \E c \in Callers : CreatesKey(c)
    BY <1>1, <1>4 DEF CreatesKey
  <1>5. ASSUME NEW j, NEW t, OthersKey(j, t)
        PROVE  /\ Refers(k, s) => Refers(k, s)'
               /\ Refers(k, s)' => Refers(k, s) \/ (s \in foreign' /\ OthersKey(k, s))
    BY <1>1, <1>5 DEF OthersKey
  <1> QED
    BY <1>2, <1>3, <1>4, <1>5 DEF KeyEffect

\* What a key refers to on the server it has referred to.
LEMMA LastReference ==
  ASSUME TypeInv, NEW k \in Keys, ServerKey(k) # Absent
  PROVE  ServerKey(k) \in 1..made /\ ServerKey(k) \in Secrets /\ Refers(k, ServerKey(k))
  <1>1. Len(keyLog[k]) \in 1..Len(keyLog[k])
    BY DEF TypeInv, LogsOK, CachesOK
  <1> QED
    BY <1>1, KeyVersions, SecretAssumption DEF Refers, ServerKey, Last, TypeInv, LogsOK, Secrets

\* Two writes to keys in one step are one.
LEMMA KeyWrittenOnce ==
  ASSUME TypeInv, NEW j, NEW k, NEW r, NEW t,
         WritesKey(j, r) \/ NamesKey(j, r), WritesKey(k, t) \/ NamesKey(k, t)
  PROVE  j = k
  <1>1. /\ j \in Keys /\ k \in Keys /\ keyLog \in [Keys -> Seq(Secrets \cup {Absent})]
        /\ keyLog' = [keyLog EXCEPT ![j] = Append(@, r)] /\ keyLog' = [keyLog EXCEPT ![k] = Append(@, t)]
    BY DEF WritesKey, NamesKey, WriteKey, TypeInv, LogsOK
  <1>2. Len(keyLog[j]) \in Nat /\ Len(Append(keyLog[j], r)) = Len(keyLog[j]) + 1
    BY <1>1
  <1>3. ASSUME j # k PROVE FALSE
    <2>1. keyLog'[j] = keyLog[j] /\ keyLog'[j] = Append(keyLog[j], r)
      BY <1>1, <1>3
    <2> QED
      BY <1>2, <2>1
  <1> QED
    BY <1>3

\* A secret that no step touches keeps its log.
LEMMA SecretKept ==
  ASSUME TypeInv, NEW s, NEW d, WritesSecret(s, d) \/ (MakesSecret(d) /\ s = made + 1),
         NEW t \in Secrets, t # s
  PROVE  (Alive(t) => Alive(t)') /\ ServerSecret(t)' = ServerSecret(t)
  <1>1. secretLog'[t] = secretLog[t]
    BY SecretWritten
  <1> QED
    BY <1>1 DEF Alive, ServerSecret

LEMMA EditKeepsAlive ==
  ASSUME TypeInv, NEW s, NEW d, WritesSecret(s, d), d # Absent, Alive(s)
  PROVE  Alive(s)'
  <1>1. s \in Secrets /\ Len(secretLog'[s]) = Len(secretLog[s]) + 1 /\ secretLog'[s][Len(secretLog'[s])] = d
        /\ Grows(secretLog[s], secretLog'[s])
    BY SecretWritten DEF LogsGrow
  <1>2. Len(secretLog[s]) \in Nat
    BY <1>1, SecretVersions
  <1> QED
    BY <1>1, <1>2 DEF Alive, Grows

\* A secret that is used for a key stays alive, unless it is cut.
LEMMA ReferredAlive ==
  ASSUME TypeInv, TypeInv', KeyInv, SecretEffect, NEW s \in Secrets, Alive(s), s \in 1..made,
         s \notin cut', cut \subseteq cut', ~Unreferred(s)
  PROVE  Alive(s)'
  <1>1. CASE UNCHANGED secretLog
    BY <1>1 DEF Alive
  <1>2. ASSUME NEW c \in Callers, Makes(c)
        PROVE  Alive(s)'
    <2>1. s # made + 1
      BY SecretAssumption DEF TypeInv, LogsOK
    <2> QED
      BY <1>2, <2>1, SecretKept DEF Makes
  <1>3. ASSUME NEW c \in Callers, TakesBack(c)
        PROVE  Alive(s)'
    <2>1. s # secret[c]
      BY <1>3 DEF TakesBack, KeyInv, HoldOK
    <2> QED
      BY <1>3, <2>1, SecretKept DEF TakesBack
  <1>4. ASSUME NEW t, NEW d, Edits(t, d)
        PROVE  Alive(s)'
    BY <1>4, SecretKept, EditKeepsAlive DEF Edits
  <1>5. ASSUME NEW t, Deletes(t)
        PROVE  Alive(s)'
    BY <1>5, SecretKept DEF Deletes, Cuts
  <1>6. ASSUME NEW t, NEW d, OthersPut(t, d)
        PROVE  Alive(s)'
    <2>1. s # made + 1
      BY SecretAssumption DEF TypeInv, LogsOK
    <2> QED
      BY <1>6, <2>1, SecretKept, EditKeepsAlive DEF OthersPut
  <1> QED
    BY <1>1, <1>2, <1>3, <1>4, <1>5, <1>6 DEF SecretEffect

\* The secret of a key that is not created yet is touched at most by a deletion.
LEMMA UnreferredKept ==
  ASSUME TypeInv, TypeInv', KeyInv, SecretEffect, NEW d \in Callers, pc[d] \in BeforeKey, pc'[d] \in BeforeKey,
         call'[d] = call[d], secret'[d] = secret[d], others' >= others, others' \in Nat, cut \subseteq cut',
         foreign' \subseteq foreign \cup {made + 1}
  PROVE  Untouched(d)' /\ (secret[d] \notin cut' => Alive(secret[d])')
  <1> DEFINE s == secret[d]
  <1>1. s \in 1..made /\ s \in Secrets /\ made \in Nat
    BY AtWork DEF BeforeKey, SecretSteps
  <1>2. Unreferred(s) /\ Untouched(d) /\ (s \notin cut => Alive(s)) /\ others \in Nat /\ s \notin foreign
    BY DEF KeyInv, HoldOK, Creating, BeforeKey
  <1>3. CASE ServerSecret(s)' = ServerSecret(s) /\ (Alive(s) => Alive(s)')
    BY <1>2, <1>3 DEF Untouched
  <1>4. CASE UNCHANGED secretLog
    BY <1>3, <1>4 DEF ServerSecret, Alive
  <1>5. ASSUME NEW c \in Callers, Makes(c)
        PROVE  ServerSecret(s)' = ServerSecret(s) /\ (Alive(s) => Alive(s)')
    <2>1. s # made + 1
      BY <1>1
    <2> QED
      BY <1>1, <1>5, <2>1, SecretKept DEF Makes
  <1>6. ASSUME NEW c \in Callers, TakesBack(c)
        PROVE  ServerSecret(s)' = ServerSecret(s) /\ (Alive(s) => Alive(s)')
    <2>1. s # secret[c]
      BY <1>6 DEF TakesBack, KeyInv, Apart, BeforeKey, Creating
    <2> QED
      BY <1>1, <1>6, <2>1, SecretKept DEF TakesBack
  <1>7. ASSUME NEW t, NEW e, Edits(t, e)
        PROVE  ServerSecret(s)' = ServerSecret(s) /\ (Alive(s) => Alive(s)')
    <2>1. s # t
      BY <1>2, <1>7 DEF Edits, Unreferred
    <2> QED
      BY <1>1, <1>7, <2>1, SecretKept DEF Edits
  <1>8. ASSUME NEW t, Deletes(t)
        PROVE  Untouched(d)' /\ (s \notin cut' => Alive(s)')
    <2>1. CASE s = t
      <3>1. ServerSecret(s)' = Absent
        BY <1>8, <2>1, SecretWritten DEF Deletes, Cuts, ServerSecret, Last
      <3> QED
        BY <1>8, <2>1, <3>1 DEF Deletes, Cuts, Untouched
    <2>2. CASE s # t
      <3>1. ServerSecret(s)' = ServerSecret(s) /\ (Alive(s) => Alive(s)')
        BY <1>1, <1>8, <2>2, SecretKept DEF Deletes, Cuts
      <3> QED
        BY <1>3, <3>1
    <2> QED
      BY <2>1, <2>2
  <1>9. ASSUME NEW t, NEW e, OthersPut(t, e)
        PROVE  ServerSecret(s)' = ServerSecret(s) /\ (Alive(s) => Alive(s)')
    <2>1. s # made + 1
      BY <1>1
    <2>2. \A k \in Keys : ServerKey(k) # s
      BY <1>1, <1>2, LastReference, SecretAssumption DEF Unreferred
    <2>3. s # t
      BY <1>2, <1>9, <2>1, <2>2 DEF OthersPut
    <2> QED
      BY <1>1, <1>9, <2>3, SecretKept DEF OthersPut
  <1> QED
    BY <1>3, <1>4, <1>5, <1>6, <1>7, <1>8, <1>9 DEF SecretEffect

\* What every step does to the bounds and the caches.
Forward ==
  /\ cut \subseteq cut' /\ others' \in Nat /\ others' >= others
  /\ foreign \subseteq foreign' /\ foreign' \subseteq foreign \cup {made + 1}
  /\ \A s \in Secrets : secretSeen'[s] >= secretSeen[s]

LEMMA ReferredInRange ==
  ASSUME TypeInv, NEW k \in Keys, NEW s \in Secrets, Refers(k, s)
  PROVE  s \in 1..made
  BY SecretAssumption DEF TypeInv, LogsOK, Refers

LEMMA ReferStep ==
  ASSUME TypeInv, TypeInv', KeyInv, SecretEffect, KeyEffect, Forward
  PROVE  ReferOK'
  <1> SUFFICES ASSUME NEW k \in Keys, NEW s \in Secrets, Refers(k, s)'
               PROVE  /\ s \notin cut' \cup foreign' => Alive(s)' /\ secretSeen'[s] >= 2
                      /\ \A j \in Keys : Refers(j, s)' => j = k
    BY DEF ReferOK
  <1>1. secretSeen[s] \in Nat /\ secretSeen'[s] \in Nat /\ secretSeen'[s] >= secretSeen[s]
    BY DEF TypeInv, CachesOK, Forward
  <1>2. CASE \E j \in Keys : Refers(j, s)
    <2>1. PICK j \in Keys : Refers(j, s)
      BY <1>2
    <2>2. \A c \in Callers : CreatesKey(c) => s # secret[c]
      BY <2>1 DEF CreatesKey, KeyInv, HoldOK, BeforeKey, Unreferred
    <2>3. \A i \in Keys : Refers(i, s)' => i = j
      <3>1. \A i \in Keys : OthersKey(i, s) => i = j
        BY <2>1 DEF OthersKey
      <3> QED
        BY <2>1, <2>2, <3>1, ReferencesKept DEF KeyInv, ReferOK
    <2>4. s \notin cut' \cup foreign' => Alive(s) /\ secretSeen[s] >= 2
      BY <2>1 DEF KeyInv, ReferOK, Forward
    <2>5. s \notin cut' \cup foreign' => Alive(s)'
      BY <2>1, <2>4, ReferredAlive, ReferredInRange DEF Forward, Unreferred
    <2> QED
      BY <1>1, <2>3, <2>4, <2>5
  <1>3. CASE \A j \in Keys : ~Refers(j, s)
    <2>1. CASE \E c \in Callers : CreatesKey(c) /\ k = call[c].key /\ s = secret[c]
      <3>1. PICK c \in Callers : CreatesKey(c) /\ k = call[c].key /\ s = secret[c]
        BY <2>1
      <3>2. \A j \in Keys : Refers(j, s)' => j = k
        <4> SUFFICES ASSUME NEW j \in Keys, Refers(j, s)', j # k PROVE FALSE
          OBVIOUS
        <4>1. ~Refers(j, s) /\ \A d \in Callers : CreatesKey(d) /\ s = secret[d] => d = c
          BY <1>3, <3>1 DEF CreatesKey, Apart, KeyInv, Creating
        <4>2. OthersKey(j, s)
          BY <3>1, <4>1, ReferencesKept
        <4> QED
          BY <3>1, <4>2, KeyWrittenOnce DEF CreatesKey, OthersKey
      <3>3. (s \notin cut => Alive(s)) /\ secretSeen[s] >= 2
        BY <3>1 DEF CreatesKey, KeyInv, HoldOK, BeforeKey
      <3>4. Alive(s) => Alive(s)'
        BY <3>1 DEF CreatesKey, Alive
      <3> QED
        BY <1>1, <3>2, <3>3, <3>4 DEF Forward
    <2>2. CASE s \in foreign' /\ OthersKey(k, s)
      <3>1. \A j \in Keys : Refers(j, s)' => j = k
        <4> SUFFICES ASSUME NEW j \in Keys, Refers(j, s)', j # k PROVE FALSE
          OBVIOUS
        <4>1. ~Refers(j, s)
          BY <1>3
        <4>2. CASE OthersKey(j, s)
          BY <2>2, <4>2, KeyWrittenOnce DEF OthersKey
        <4>3. CASE \E c \in Callers : CreatesKey(c) /\ j = call[c].key /\ s = secret[c]
          BY <2>2, <4>3, KeyWrittenOnce DEF OthersKey, CreatesKey
        <4> QED
          BY <4>1, <4>2, <4>3, ReferencesKept
      <3> QED
        BY <2>2, <3>1
    <2> QED
      BY <1>3, <2>1, <2>2, ReferencesKept
  <1> QED
    BY <1>2, <1>3

LEMMA HoldStays ==
  ASSUME TypeInv, TypeInv', KeyInv, SecretEffect, KeyEffect, Forward, NEW d \in Callers, Stays(d)
  PROVE  HoldOK(d)'
  <1>0. PICK s : s = secret[d]
    OBVIOUS
  <1>1. pc[d] \in SecretSteps => s \in Secrets /\ call[d].key \in Keys
    BY <1>0, AtWork DEF SecretSteps
  <1>2. HoldOK(d) /\ pc'[d] = pc[d] /\ call'[d] = call[d] /\ secret'[d] = s /\ (d \in expired => d \in expired')
    BY <1>0 DEF KeyInv, Stays
  <1>9. pc[d] \in Creating => s \notin foreign' /\ s # made + 1
    BY <1>0, <1>2, AtWork DEF HoldOK, Forward, Creating, SecretSteps
  <1>3. ASSUME NEW k \in Keys, pc[d] \in Creating, Refers(k, s)'
        PROVE  Refers(k, s)
    <2>1. \A c \in Callers : CreatesKey(c) => s # secret[c]
      BY <1>0, <1>2, <1>3 DEF CreatesKey, KeyInv, Apart, Creating
    <2>2. s \in Secrets
      BY <1>1, <1>3 DEF Creating, SecretSteps
    <2> QED
      BY <1>3, <1>9, <2>1, <2>2, ReferencesKept
  <1>4. ASSUME pc[d] \in BeforeKey
        PROVE  Unreferred(s)' /\ Untouched(d)' /\ (s \notin cut' => Alive(s)')
    <2>1. Unreferred(s)'
      BY <1>0, <1>2, <1>3, <1>4 DEF HoldOK, Unreferred, BeforeKey, Creating
    <2> QED
      BY <1>0, <1>2, <1>4, <2>1, UnreferredKept DEF Forward
  <1>5. pc[d] = "createKey" => secretSeen'[s] >= 2
    BY <1>0, <1>1, <1>2 DEF HoldOK, SecretSteps, Forward, TypeInv, CachesOK
  <1>6. ASSUME pc[d] = "cleanup"
        PROVE  d \in expired' \/ Unreferred(s)' \/ (Failures /\ s \in cut')
    <2>1. Unreferred(s) => Unreferred(s)'
      BY <1>3, <1>6 DEF Unreferred, Creating
    <2> QED
      BY <1>0, <1>2, <1>6, <2>1 DEF HoldOK, Forward
  <1>7. pc[d] \in Creating => \A k \in Keys : Refers(k, s)' => k = call[d].key
    BY <1>0, <1>2, <1>3 DEF HoldOK
  <1>8. pc[d] \in Setting => Refers(call[d].key, s)'
    BY <1>0, <1>1, <1>2, ReferencesKept DEF HoldOK, Setting, SecretSteps
  <1> QED
    BY <1>0, <1>2, <1>4, <1>5, <1>6, <1>7, <1>8, <1>9 DEF HoldOK

\* What every step does to keys and secrets, and what it keeps.
Keeps == SecretEffect /\ KeyEffect /\ KeyInv'

LEMMA KeyMove ==
  ASSUME TypeInv, TypeInv', KeyInv, SecretEffect, KeyEffect, Forward,
         NEW c \in Callers, \A d \in Callers \ {c} : Stays(d), HoldOK(c)',
         pc'[c] \in Creating => Makes(c) \/ (pc[c] \in Creating /\ secret'[c] = secret[c])
  PROVE  Keeps
  <1>1. ReferOK' /\ \A d \in Callers : HoldOK(d)'
    BY ReferStep, HoldStays
  <1>2. \A d \in Callers : pc[d] \in Creating => secret[d] \in 1..made
    BY AtWork DEF Creating, SecretSteps
  <1>3. made \in Nat /\ Apart
    BY SecretAssumption DEF TypeInv, LogsOK, KeyInv
  <1>4. Apart'
    <2> SUFFICES ASSUME NEW d \in Callers, NEW e \in Callers, d # e, pc'[d] \in Creating, pc'[e] \in Creating
                 PROVE  secret'[d] # secret'[e]
      BY DEF Apart
    <2>1. \A b \in {d, e} : b # c => pc[b] \in Creating /\ secret'[b] = secret[b]
      BY DEF Stays
    <2> QED
      BY <1>2, <1>3, <2>1 DEF Makes, Apart
  <1> QED
    BY <1>1, <1>4 DEF KeyInv, Forward, Keeps

\* When no call moves.
LEMMA KeyStill ==
  ASSUME TypeInv, TypeInv', KeyInv, SecretEffect, KeyEffect, Forward,
         \A d \in Callers : Stays(d)
  PROVE  Keeps
  <1>1. ReferOK' /\ \A d \in Callers : HoldOK(d)'
    BY ReferStep, HoldStays
  <1>2. Apart'
    BY DEF Stays, Apart, KeyInv
  <1> QED
    BY <1>1, <1>2 DEF KeyInv, Forward, Keeps

LEMMA CallForward ==
  ASSUME TypeInv, KeyInv, NEW c \in Callers, CallStep(c)
  PROVE  Forward /\ UNCHANGED <<cacheVars, others, foreign>> /\ \A d \in Callers \ {c} : Stays(d)
  <1>1. UNCHANGED <<cacheVars, others, foreign>> /\ cut \subseteq cut'
    BY DEF CallStep, CreateSecret, AwaitSecret, CreateKeyObject, AwaitKey, Cleanup, AwaitCleanup, SetOwner,
           DeleteKey, AwaitDelete, SetKeySecret, GetSecret, PatchSecret, AwaitSet, AwaitRetry, ReturnError,
           boundVars, historyVars, Excuse
  <1>2. Forward
    BY <1>1 DEF Forward, cacheVars, KeyInv, TypeInv, CachesOK
  <1>3. \A d \in Callers \ {c} : Stays(d)
    <2> USE DEF TypeInv, WorkOK, Return, Goto, workVars, Stays
    <2>1. CASE CreateSecret(c) \/ AwaitSecret(c)
      BY <2>1 DEF CreateSecret, AwaitSecret
    <2>2. CASE CreateKeyObject(c) \/ AwaitKey(c)
      BY <2>2 DEF CreateKeyObject, AwaitKey
    <2>3. CASE Cleanup(c) \/ DeleteKey(c)
      BY <2>3 DEF Cleanup, DeleteKey, Answered
    <2>4. CASE AwaitCleanup(c) \/ SetOwner(c) \/ AwaitDelete(c) \/ ReturnError(c) \/ AwaitSet(c)
      BY <2>4 DEF AwaitCleanup, SetOwner, AwaitDelete, ReturnError, AwaitSet
    <2>5. CASE SetKeySecret(c) \/ GetSecret(c) \/ AwaitRetry(c)
      BY <2>5 DEF SetKeySecret, GetSecret, AwaitRetry
    <2>6. CASE PatchSecret(c)
      BY <2>6 DEF PatchSecret, Answered
    <2> QED
      BY <2>1, <2>2, <2>3, <2>4, <2>5, <2>6 DEF CallStep
  <1> QED
    BY <1>1, <1>2, <1>3

\* A call that returns, or goes on to a step without claims.
LEMMA KeyReturns ==
  ASSUME NEW c, pc'[c] \notin Creating \cup Setting
  PROVE  HoldOK(c)'
  BY DEF HoldOK, BeforeKey, Creating, Setting

LEMMA ReturnedIdle ==
  ASSUME TypeInv, NEW c \in Callers, Return(c)
  PROVE  pc'[c] = "idle"
  BY DEF TypeInv, WorkOK, Return, Goto

LEMMA GoneTo ==
  ASSUME TypeInv, NEW c \in Callers, NEW step, Goto(c, step)
  PROVE  pc'[c] = step
  BY DEF TypeInv, WorkOK, Goto

LEMMA CreateSecretKey ==
  ASSUME TypeInv, TypeInv', KeyInv, NEW c \in Callers, CreateSecret(c)
  PROVE  Keeps
  <1>0. Forward /\ foreign' = foreign /\ \A d \in Callers \ {c} : Stays(d)
    BY CallForward DEF CallStep
  <1>1. CASE Return(c) /\ UNCHANGED <<serverVars, historyVars>>
    <2>1. pc'[c] \notin Creating \cup Setting
      BY <1>1, ReturnedIdle DEF Creating, Setting
    <2> QED
      BY <1>0, <1>1, <2>1, KeyReturns, KeyMove DEF SecretEffect, KeyEffect, serverVars
  <1>2. CASE /\ made < MaxSecrets /\ made' = made + 1 /\ WriteSecret(made + 1, call[c].value) /\ UNCHANGED keyLog
             /\ secret' = [secret EXCEPT ![c] = made + 1]
             /\ \/ Goto(c, "awaitSecret") /\ UNCHANGED historyVars
                \/ Goto(c, "failed") /\ Excuse({made + 1})
             /\ UNCHANGED <<call, started, version, tries, expired>>
    <2> DEFINE s == made + 1
               v == call[c].value
    <2>1. v \in Values /\ pc[c] = "CreateKey" /\ made \in Nat
      BY AtWork DEF CreateSecret
    <2>2. secret'[c] = s /\ pc'[c] \in {"awaitSecret", "failed"} /\ call'[c] = call[c]
      BY <1>2, <2>1 DEF TypeInv, WorkOK, Goto
    <2>3. Makes(c)
      BY <1>2, <2>1, <2>2, SecretAssumption DEF Makes, MakesSecret, Data
    <2>4. SecretEffect /\ KeyEffect
      BY <1>2, <2>3 DEF SecretEffect, KeyEffect
    <2>5. \A k \in Keys : ~Refers(k, s)
      <3>1. \A k \in Keys : \A i \in 1..Len(keyLog[k]) : keyLog[k][i] \in 1..made \cup {Absent}
        BY DEF TypeInv, LogsOK
      <3>2. s \in Secrets
        BY <1>2, <2>1, SecretAssumption DEF Secrets
      <3> QED
        BY <2>1, <3>1, <3>2, SecretAssumption DEF Refers
    <2>6. \A k \in Keys : ~(\E i \in 1..Len(keyLog'[k]) : keyLog'[k][i] = s)
      BY <1>2, <2>5 DEF Refers
    <2>7. Len(secretLog'[s]) = 2 /\ secretLog'[s][2] = v /\ v # Absent /\ s \in Secrets
      <3>1. MakesSecret(v)
        BY <2>3 DEF Makes
      <3>2. /\ Len(secretLog'[s]) = Len(secretLog[s]) + 1 /\ secretLog'[s][Len(secretLog'[s])] = v
            /\ s \in Secrets
        BY <3>1, SecretWritten
      <3>3. Len(secretLog[s]) = 1
        BY <2>1, <3>2 DEF TypeInv, LogsOK
      <3>4. v # Absent
        BY <2>1, SecretAssumption
      <3> QED
        BY <3>2, <3>3, <3>4
    <2>8. HoldOK(c)'
      <3>1. Unreferred(secret[c])'
        BY <2>2, <2>6 DEF Unreferred, Refers
      <3>2. Untouched(c)'
        BY <2>2, <2>7 DEF Untouched, ServerSecret, Last
      <3>3. Alive(secret[c])'
        BY <2>2, <2>7 DEF Alive
      <3>4. \A k \in Keys : ~Refers(k, secret[c])'
        BY <3>1 DEF Unreferred
      <3>5. secret'[c] \notin foreign'
        BY <1>0, <2>1, <2>2 DEF TypeInv, NotesOK
      <3> QED
        BY <2>2, <3>1, <3>2, <3>3, <3>4, <3>5 DEF HoldOK, Setting
    <2> QED
      BY <1>0, <2>3, <2>4, <2>8, KeyMove
  <1> QED
    BY <1>1, <1>2 DEF CreateSecret

\* Steps that leave the server alone.
LEMMA KeyQuiet ==
  ASSUME TypeInv, TypeInv', KeyInv, NEW c \in Callers, CallStep(c), UNCHANGED <<keyLog, secretLog>>, HoldOK(c)',
         pc'[c] \in Creating => pc[c] \in Creating /\ secret'[c] = secret[c]
  PROVE  Keeps
  BY CallForward, KeyMove DEF SecretEffect, KeyEffect

\* What holds of a call on a secret that stays as it is.
LEMMA HoldQuiet ==
  ASSUME UNCHANGED <<keyLog, secretLog, others, foreign>>, NEW c, secret'[c] = secret[c], call'[c] = call[c]
  PROVE  /\ Unreferred(secret[c])' = Unreferred(secret[c])
         /\ Untouched(c)' = Untouched(c)
         /\ Alive(secret[c])' = Alive(secret[c])
         /\ (secret[c] \notin foreign)' = (secret[c] \notin foreign)
         /\ \A k \in Keys : Refers(k, secret[c])' = Refers(k, secret[c])
         /\ Refers(call[c].key, secret[c])' = Refers(call[c].key, secret[c])
  BY DEF Unreferred, Untouched, Alive, Refers, ServerSecret

LEMMA AwaitSecretKey ==
  ASSUME TypeInv, TypeInv', KeyInv, NEW c \in Callers, AwaitSecret(c)
  PROVE  Keeps
  <1>1. UNCHANGED <<keyLog, secretLog, secretSeen, others, cut, foreign>> /\ CallStep(c) /\ pc[c] = "awaitSecret"
    BY DEF AwaitSecret, serverVars, cacheVars, boundVars, historyVars, Excuse, CallStep
  <1>2. CASE CachedSecret(secret[c]) # Absent /\ Goto(c, "createKey") /\ UNCHANGED <<workVars, historyVars>>
    <2>1. pc'[c] = "createKey" /\ secret'[c] = secret[c] /\ call'[c] = call[c]
      BY <1>2, GoneTo DEF workVars
    <2>2. secretSeen[secret[c]] >= 2
      <3>1. secret[c] \in Secrets
        BY <1>1, AtWork DEF SecretSteps
      <3>2. secretSeen[secret[c]] \in Nat \ {0} /\ secretLog[secret[c]][1] = Absent
        BY <3>1, SecretVersions DEF TypeInv, LogsOK, LogOK
      <3> QED
        BY <1>2, <3>2 DEF CachedSecret
    <2>3. HoldOK(c)'
      <3>1. HoldOK(c)
        BY DEF KeyInv
      <3> QED
        BY <1>1, <2>1, <2>2, <3>1, HoldQuiet DEF HoldOK, BeforeKey, Creating, Setting
    <2> QED
      BY <1>1, <2>1, <2>3, KeyQuiet DEF Creating
  <1>3. CASE Return(c)
    <2>1. pc'[c] \notin Creating \cup Setting
      BY <1>3, ReturnedIdle DEF Creating, Setting
    <2> QED
      BY <1>1, <2>1, KeyReturns, KeyQuiet
  <1> QED
    BY <1>2, <1>3 DEF AwaitSecret

LEMMA CreateKeyObjectKey ==
  ASSUME TypeInv, TypeInv', KeyInv, NEW c \in Callers, CreateKeyObject(c)
  PROVE  Keeps
  <1>1. /\ pc[c] = "createKey" /\ CallStep(c) /\ UNCHANGED <<secretLog, others, workVars, secretSeen, foreign>>
        /\ call[c].key \in Keys /\ secret[c] \in 1..made /\ secret[c] \in Secrets /\ secret[c] \notin foreign
    BY AtWork DEF CreateKeyObject, CallStep, SecretSteps, serverVars, boundVars, cacheVars, historyVars,
                  KeyInv, HoldOK, Creating
  <1>2. secret'[c] = secret[c] /\ call'[c] = call[c] /\ expired' = expired
    BY <1>1 DEF workVars
  <1>3. CASE Goto(c, "cleanup") /\ UNCHANGED <<serverVars, historyVars>>
    <2>1. pc'[c] = "cleanup"
      BY <1>3, GoneTo
    <2>2. HoldOK(c)'
      <3>1. HoldOK(c)
        BY DEF KeyInv
      <3> QED
        BY <1>1, <1>2, <1>3, <2>1, <3>1, HoldQuiet DEF HoldOK, BeforeKey, Creating, Setting, serverVars
    <2> QED
      BY <1>1, <1>2, <1>3, <2>1, <2>2, KeyQuiet DEF Creating, serverVars
  <1>4. CASE /\ ServerKey(call[c].key) = Absent
             /\ WriteKey(call[c].key, secret[c]) /\ UNCHANGED <<secretLog, made>>
             /\ \/ Goto(c, "awaitKey") /\ UNCHANGED historyVars
                \/ /\ Failures /\ Goto(c, "cleanup")
                   /\ cut' = cut \cup {secret[c]} /\ UNCHANGED <<excused, foreign>>
    <2>1. pc'[c] = "awaitKey" \/ (pc'[c] = "cleanup" /\ Failures /\ secret[c] \in cut')
      BY <1>4, GoneTo
    <2>2. CreatesKey(c)
      BY <1>1, <1>4, <2>1 DEF CreatesKey, WritesKey
    <2>3. KeyEffect /\ SecretEffect
      BY <1>1, <2>2 DEF KeyEffect, SecretEffect
    <2>4. HoldOK(c)'
      <3>0. PICK s : s = secret[c]
        OBVIOUS
      <3>1. s \in Secrets /\ s = secret'[c] /\ Unreferred(s) /\ call'[c] = call[c]
        BY <1>1, <1>2, <3>0 DEF KeyInv, HoldOK, BeforeKey
      <3>2. \A d \in Callers : CreatesKey(d) /\ s = secret[d] => d = c
        BY <1>1, <3>0 DEF CreatesKey, KeyInv, Apart, Creating
      <3>3. \A k \in Keys : Refers(k, s)' => k = call[c].key
        BY <1>1, <2>3, <3>0, <3>1, <3>2, ReferencesKept DEF Unreferred
      <3>4. secret'[c] \notin foreign' /\ \A k \in Keys : Refers(k, secret[c])' => k = call'[c].key
        BY <1>1, <3>0, <3>1, <3>3
      <3> QED
        BY <1>2, <2>1, <3>4 DEF HoldOK, BeforeKey, Setting
    <2> QED
      BY <1>1, <1>2, <2>1, <2>3, <2>4, CallForward, KeyMove DEF Creating
  <1> QED
    BY <1>3, <1>4 DEF CreateKeyObject

LEMMA AwaitKeyKey ==
  ASSUME TypeInv, TypeInv', KeyInv, NEW c \in Callers, AwaitKey(c)
  PROVE  Keeps
  <1>1. /\ pc[c] = "awaitKey" /\ CallStep(c) /\ UNCHANGED <<keyLog, secretLog, others, workVars, foreign>>
        /\ (Goto(c, "own") \/ (c \in expired /\ Goto(c, "cleanup")))
    BY DEF AwaitKey, CallStep, serverVars, boundVars, historyVars
  <1>2. secret'[c] = secret[c] /\ call'[c] = call[c] /\ expired' = expired
    BY <1>1 DEF workVars
  <1>3. pc'[c] = "own" \/ (c \in expired' /\ pc'[c] = "cleanup")
    BY <1>1, <1>2, GoneTo
  <1>4. HoldOK(c)'
    <2>1. HoldOK(c)
      BY DEF KeyInv
    <2> QED
      BY <1>1, <1>2, <1>3, <2>1, HoldQuiet DEF HoldOK, BeforeKey, Creating, Setting
  <1> QED
    BY <1>1, <1>2, <1>3, <1>4, KeyQuiet DEF Creating

LEMMA CleanupKey ==
  ASSUME TypeInv, TypeInv', KeyInv, NEW c \in Callers, Cleanup(c)
  PROVE  Keeps
  <1>1. pc[c] = "cleanup" /\ CallStep(c) /\ secret[c] \in 1..made /\ UNCHANGED <<cacheVars, boundVars>>
    BY AtWork DEF Cleanup, CallStep, SecretSteps
  <1>2. CASE UNCHANGED <<serverVars, pc, workVars, historyVars>>
    <2>1. HoldOK(c) /\ secret'[c] = secret[c] /\ call'[c] = call[c] /\ expired' = expired /\ UNCHANGED <<keyLog, secretLog, others, cut, foreign, secretSeen>>
      BY <1>1, <1>2 DEF KeyInv, workVars, serverVars, boundVars, historyVars, cacheVars
    <2>2. HoldOK(c)'
      BY <1>1, <1>2, <2>1, HoldQuiet DEF HoldOK, BeforeKey, Creating, Setting
    <2> QED
      BY <1>1, <1>2, <2>1, <2>2, KeyQuiet DEF Creating
  <1>3. CASE Return(c) /\ UNCHANGED serverVars
    <2>1. pc'[c] \notin Creating \cup Setting
      BY <1>3, ReturnedIdle DEF Creating, Setting
    <2> QED
      BY <1>1, <1>3, <2>1, KeyReturns, KeyQuiet DEF serverVars
  <1>4. CASE /\ c \notin expired /\ ServerSecret(secret[c]) # Absent
             /\ WriteSecret(secret[c], Absent) /\ Answered(c, "awaitCleanup")
             /\ UNCHANGED <<keyLog, made, workVars, historyVars>>
    <2>1. pc'[c] \in {"awaitCleanup", "failed"}
      BY <1>4, GoneTo DEF Answered
    <2>2. TakesBack(c)
      BY <1>1, <1>4, <2>1 DEF TakesBack, WritesSecret, Creating, Data
    <2>3. SecretEffect /\ KeyEffect
      BY <1>4, <2>2 DEF SecretEffect, KeyEffect
    <2>4. pc'[c] \notin Creating \cup Setting
      BY <2>1 DEF Creating, Setting
    <2> QED
      BY <1>1, <2>3, <2>4, CallForward, KeyReturns, KeyMove
  <1> QED
    BY <1>2, <1>3, <1>4 DEF Cleanup, RequestArrives

LEMMA EndKey ==
  ASSUME TypeInv, TypeInv', KeyInv, NEW c \in Callers,
         AwaitCleanup(c) \/ SetOwner(c) \/ AwaitDelete(c) \/ AwaitSet(c) \/ ReturnError(c)
  PROVE  Keeps
  <1>1. Return(c) /\ CallStep(c) /\ UNCHANGED <<keyLog, secretLog>>
    BY DEF AwaitCleanup, SetOwner, AwaitDelete, AwaitSet, ReturnError, CallStep, serverVars
  <1>2. pc'[c] \notin Creating \cup Setting
    BY <1>1, ReturnedIdle DEF Creating, Setting
  <1> QED
    BY <1>1, <1>2, KeyReturns, KeyQuiet

LEMMA DeleteKeyKey ==
  ASSUME TypeInv, TypeInv', KeyInv, NEW c \in Callers, DeleteKey(c)
  PROVE  Keeps
  <1>1. pc[c] = "DeleteKey" /\ CallStep(c) /\ call[c].key \in Keys
    BY AtWork DEF DeleteKey, CallStep
  <1>2. pc'[c] \in {"DeleteKey", "idle", "awaitDelete", "failed"}
    BY <1>1, ReturnedIdle, GoneTo DEF DeleteKey, Answered
  <1>3. pc'[c] \notin Creating \cup Setting
    BY <1>2 DEF Creating, Setting
  <1>4. KeyEffect /\ SecretEffect
    <2>1. \/ UNCHANGED <<keyLog, secretLog>>
          \/ /\ WriteKey(call[c].key, Absent) /\ UNCHANGED <<secretLog, made>>
             /\ ServerKey(call[c].key) \in excused'
      BY DEF DeleteKey, serverVars, Excuse
    <2> QED
      BY <1>1, <2>1 DEF KeyEffect, SecretEffect, WritesKey, DeletesKey
  <1> QED
    BY <1>1, <1>3, <1>4, CallForward, KeyReturns, KeyMove

\* A set works on a secret that its key refers to.
LEMMA SetKey ==
  ASSUME TypeInv, TypeInv', KeyInv, NEW c \in Callers, SetKeySecret(c) \/ GetSecret(c) \/ AwaitRetry(c)
  PROVE  Keeps
  <1>2. CallStep(c) /\ UNCHANGED <<keyLog, secretLog, others, foreign>>
    BY DEF SetKeySecret, GetSecret, AwaitRetry, CallStep, serverVars, boundVars, historyVars
  <1>3. CASE Return(c)
    <2>1. pc'[c] \notin Creating \cup Setting
      BY <1>3, ReturnedIdle DEF Creating, Setting
    <2> QED
      BY <1>2, <2>1, KeyReturns, KeyQuiet
  <1>4. CASE SetKeySecret(c) /\ ~Return(c)
    <2> DEFINE k == call[c].key
    <2>1. /\ pc'[c] = "get" /\ call'[c] = call[c] /\ secret'[c] = CachedKey(k) /\ k \in Keys
      BY <1>4, GoneTo, AtWork DEF SetKeySecret, TypeInv, WorkOK
    <2>2. Refers(call[c].key, secret[c])'
      <3>1. keySeen[k] \in 1..Len(keyLog[k])
        BY <2>1 DEF TypeInv, CachesOK
      <3> QED
        BY <1>2, <2>1, <3>1 DEF Refers, CachedKey
    <2>3. HoldOK(c)'
      BY <2>1, <2>2 DEF HoldOK, BeforeKey, Creating, Setting
    <2> QED
      BY <1>2, <2>1, <2>3, KeyQuiet DEF Creating
  <1>5. CASE (GetSecret(c) \/ AwaitRetry(c)) /\ ~Return(c)
    <2>1. /\ pc[c] \in Setting /\ pc'[c] \in {"patch", "get"}
          /\ call'[c] = call[c] /\ secret'[c] = secret[c]
      BY <1>5, GoneTo DEF GetSecret, AwaitRetry, Setting
    <2>2. HoldOK(c)'
      <3>1. Refers(call[c].key, secret[c])
        BY <2>1 DEF KeyInv, HoldOK
      <3> QED
        BY <1>2, <2>1, <3>1, HoldQuiet DEF HoldOK, BeforeKey, Creating, Setting
    <2> QED
      BY <1>2, <2>1, <2>2, KeyQuiet DEF Creating
  <1> QED
    BY <1>3, <1>4, <1>5

LEMMA PatchSecretKey ==
  ASSUME TypeInv, TypeInv', KeyInv, NEW c \in Callers, PatchSecret(c)
  PROVE  Keeps
  <1> DEFINE s == secret[c]
             d == call[c].value
  <1>1. /\ pc[c] = "patch" /\ CallStep(c) /\ s \in 1..made /\ d \in Values /\ Refers(call[c].key, s)
        /\ call[c].key \in Keys /\ keyLog' = keyLog
    BY AtWork DEF PatchSecret, CallStep, SecretSteps, serverVars, KeyInv, HoldOK, Setting
  <1>2. CASE Return(c) /\ UNCHANGED serverVars
    <2>1. pc'[c] \notin Creating \cup Setting
      BY <1>2, ReturnedIdle DEF Creating, Setting
    <2> QED
      BY <1>1, <1>2, <2>1, KeyReturns, KeyQuiet DEF serverVars
  <1>3. CASE ~(Return(c) /\ UNCHANGED serverVars)
    <2>1. /\ pc'[c] \in {"awaitRetry", "awaitSet", "failed"} /\ call'[c] = call[c] /\ secret'[c] = secret[c]
      BY <1>3, GoneTo DEF PatchSecret, Answered, workVars
    <2>2. UNCHANGED secretLog \/ WritesSecret(s, d)
      BY <1>1, <1>3 DEF PatchSecret, WritesSecret, serverVars, Data
    <2>3. KeyEffect /\ SecretEffect
      <3>1. d # Absent
        BY <1>1, SecretAssumption
      <3>2. Original(c) # Absent
        BY <1>1 DEF TypeInv, CallerOK, ReadOK, ReadSteps, Original
      <3>3. UNCHANGED secretLog \/ ServerSecret(s) = Original(c)
        BY <1>3 DEF PatchSecret, serverVars
      <3> QED
        BY <1>1, <2>2, <3>1, <3>2, <3>3 DEF KeyEffect, SecretEffect, Edits
    <2>4. HoldOK(c)'
      BY <1>1, <2>1 DEF HoldOK, BeforeKey, Creating, Setting, Refers
    <2> QED
      BY <1>1, <2>1, <2>3, <2>4, CallForward, KeyMove DEF Creating
  <1> QED
    BY <1>2, <1>3 DEF PatchSecret

LEMMA BeginKey ==
  ASSUME TypeInv, TypeInv', KeyInv, NEW c \in Callers, NEW k \in Calls, Begin(c, k)
  PROVE  Keeps
  <1>1. pc'[c] \in {"CreateKey", "SetKeySecret", "DeleteKey"}
    BY SecretAssumption, GoneTo DEF Begin, Call
  <1>2. UNCHANGED <<serverVars, cacheVars, others, historyVars>> /\ \A d \in Callers \ {c} : Stays(d)
    BY DEF Begin, Stays, TypeInv, WorkOK, Goto
  <1>3. SecretEffect /\ KeyEffect /\ Forward
    BY <1>2 DEF SecretEffect, KeyEffect, Forward, KeyInv, serverVars, cacheVars, historyVars, TypeInv, CachesOK
  <1>4. pc'[c] \notin Creating \cup Setting
    BY <1>1 DEF Creating, Setting
  <1> QED
    BY <1>2, <1>3, <1>4, KeyReturns, KeyMove

\* Steps that move no call: the end of a context, the informers and others.
LEMMA StillKey ==
  ASSUME TypeInv, TypeInv', KeyInv,
         (\E c \in Callers : Expire(c)) \/ Informers \/ UNCHANGED vars
  PROVE  Keeps
  <1>1. UNCHANGED <<serverVars, others, cut, foreign>> /\ \A d \in Callers : Stays(d)
    <2>1. CASE \E c \in Callers : Expire(c)
      BY <2>1 DEF Expire, boundVars, historyVars, Stays
    <2>2. CASE Informers \/ UNCHANGED vars
      <3>1. UNCHANGED <<serverVars, pc, workVars, boundVars, historyVars>>
        BY <2>2 DEF Informers, SeeKey, SeeSecret, vars
      <3>2. UNCHANGED <<serverVars, pc, call, secret, expired, others, cut, foreign>>
        BY <3>1 DEF boundVars, historyVars, workVars
      <3> QED
        BY <3>2 DEF Stays
    <2> QED
      BY <2>1, <2>2
  <1>2. \A s \in Secrets : secretSeen'[s] >= secretSeen[s]
    <2>1. \A s \in Secrets : secretSeen[s] \in Nat
      BY DEF TypeInv, CachesOK
    <2>2. CASE UNCHANGED secretSeen
      BY <2>1, <2>2
    <2>3. CASE \E s \in Secrets : SeeSecret(s)
      BY <2>1, <2>3 DEF SeeSecret, TypeInv, CachesOK
    <2>4. UNCHANGED secretSeen \/ \E s \in Secrets : SeeSecret(s)
      BY DEF Expire, Informers, SeeKey, vars, cacheVars
    <2> QED
      BY <2>2, <2>3, <2>4
  <1>3. SecretEffect /\ KeyEffect /\ Forward
    BY <1>1, <1>2 DEF SecretEffect, KeyEffect, Forward, KeyInv, serverVars
  <1> QED
    BY <1>1, <1>3, KeyStill

LEMMA OtherKey ==
  ASSUME TypeInv, TypeInv', KeyInv, NEW op \in OtherOps, OtherWrite(op)
  PROVE  Keeps
  <1>1. UNCHANGED <<cacheVars, pc, workVars>> /\ others' = others + 1
    BY DEF OtherWrite
  <1>2. OtherEffect /\ Forward /\ others' > 0 /\ \A d \in Callers : Stays(d)
    BY <1>1, OtherEffects DEF Forward, KeyInv, Stays, cacheVars, workVars, TypeInv, CachesOK
  <1>3. SecretEffect
    BY <1>2 DEF OtherEffect, SecretEffect, OthersKey, NamesKey, Deletes
  <1>4. KeyEffect
    BY <1>2 DEF OtherEffect, KeyEffect
  <1> QED
    BY <1>2, <1>3, <1>4, KeyStill

LEMMA RestartKey ==
  ASSUME TypeInv, TypeInv', KeyInv, Restart
  PROVE  Keeps
  <1>1. UNCHANGED <<serverVars, others, cut, foreign>> /\ \A c \in Callers : pc'[c] = "idle"
    BY DEF Restart, Excuse
  <1>2. \A s \in Secrets : secretSeen'[s] >= secretSeen[s]
    BY SecretVersions DEF Restart
  <1>3. SecretEffect /\ KeyEffect /\ Forward
    BY <1>1, <1>2 DEF SecretEffect, KeyEffect, Forward, KeyInv, serverVars
  <1>4. ReferOK'
    BY <1>3, ReferStep
  <1>5. Apart' /\ \A c \in Callers : HoldOK(c)'
    BY <1>1 DEF Apart, HoldOK, BeforeKey, Creating, Setting
  <1> QED
    BY <1>1, <1>3, <1>4, <1>5 DEF KeyInv, Forward, serverVars, Keeps

LEMMA KeyInit == Init => KeyInv
  <1> SUFFICES ASSUME Init PROVE KeyInv
    OBVIOUS
  <1>1. \A k \in Keys, s \in Secrets : ~Refers(k, s)
    <2>1. Len(<<Absent>>) = 1 /\ <<Absent>>[1] = Absent
      OBVIOUS
    <2> QED
      BY <2>1, SecretAssumption DEF Init, Refers
  <1>2. \A c \in Callers : HoldOK(c)
    BY DEF Init, HoldOK, BeforeKey, Creating, Setting
  <1> QED
    BY <1>1, <1>2 DEF Init, KeyInv, ReferOK, Apart, Creating

LEMMA KeyStep == TypeInv /\ KeyInv /\ [Next]_vars => Keeps
  <1> SUFFICES ASSUME TypeInv, KeyInv, [Next]_vars PROVE Keeps
    OBVIOUS
  <1>1. TypeInv'
    BY TypeStep
  <1>2. ASSUME NEW c \in Callers, CallStep(c)
        PROVE  Keeps
    BY <1>1, <1>2, CreateSecretKey, AwaitSecretKey, CreateKeyObjectKey, AwaitKeyKey, CleanupKey, EndKey,
       DeleteKeyKey, SetKey, PatchSecretKey DEF CallStep
  <1> QED
    BY <1>1, <1>2, BeginKey, StillKey, OtherKey, RestartKey DEF Next

Inv == TypeInv /\ KeyInv

LEMMA Invariance == Spec => []Inv
  <1>1. Init => Inv
    BY TypeInit, KeyInit DEF Inv
  <1>2. Inv /\ [Next]_vars => Inv'
    BY TypeStep, KeyStep DEF Inv, Keeps
  <1> QED
    BY <1>1, <1>2, PTL DEF Spec

\* GetKey finds the secret that CreateKey has created for a key in the cache of
\* keys, unless the secret was deleted, however the two caches lag behind and
\* whatever others write.
THEOREM KeysReadable == Spec => []CachedKeysReadable
  <1>1. Inv => CachedKeysReadable
    <2> SUFFICES ASSUME Inv, NEW k \in Keys, CachedKey(k) # Absent, CachedKey(k) \notin cut \cup foreign
                 PROVE  Readable(k)
      BY DEF CachedKeysReadable
    <2> DEFINE s == CachedKey(k)
    <2>1. s \in Secrets /\ Refers(k, s)
      <3>1. keySeen[k] \in 1..Len(keyLog[k])
        BY DEF Inv, TypeInv, CachesOK
      <3>2. s \in 1..made
        BY KeyVersions DEF Inv
      <3> QED
        BY <3>1, <3>2, SecretAssumption DEF Inv, TypeInv, LogsOK, Secrets, Refers, CachedKey
    <2>2. Alive(s) /\ secretSeen[s] >= 2
      BY <2>1 DEF Inv, KeyInv, ReferOK
    <2>3. secretSeen[s] \in 2..Len(secretLog[s])
      BY <2>1, <2>2, SecretVersions DEF Inv
    <2> QED
      BY <2>2, <2>3 DEF Alive, Readable, CachedSecret
  <1> QED
    BY <1>1, Invariance, PTL

-----------------------------------------------------------------------------
(* No secret is lost.                                                      *)

Settled(s) == s \in excused \cup foreign \/ ServerSecret(s) = Absent \/ \E k \in Keys : ServerKey(k) = s

Owned(s) == \E c \in Callers : call[c].op = "CreateKey" /\ secret[c] = s

\* Before it has a secret a CreateKey has none to lose; once the key is created,
\* or the secret deleted, there is nothing left to account for.
SettledSteps == {"awaitKey", "own", "awaitCleanup", "failed"}

AccountOK(c) ==
  /\ pc[c] \in {"idle", "CreateKey", "SetKeySecret", "DeleteKey"} => secret[c] = NoName
  /\ call[c].op = "CreateKey" /\ pc[c] \in SettledSteps /\ secret[c] \in Secrets => Settled(secret[c])

AccountInv ==
  /\ \A s \in Secrets : Settled(s) \/ Owned(s)
  /\ \A c \in Callers : AccountOK(c)

LEMMA SettledStays ==
  ASSUME TypeInv, TypeInv', KeyInv, Keeps, excused \subseteq excused', foreign \subseteq foreign', NEW s \in Secrets, Settled(s),
         \A c \in Callers : Makes(c) => s # made + 1
  PROVE  Settled(s)'
  <1>1. CASE s \in excused \cup foreign
    BY <1>1 DEF Settled
  <1>2. CASE ServerSecret(s) = Absent
    <2>1. ASSUME NEW t, NEW d, WritesSecret(t, d), t # s \/ d = Absent
          PROVE  ServerSecret(s)' = Absent
      <3>1. CASE t # s
        BY <1>2, <2>1, <3>1, SecretKept
      <3>2. CASE t = s /\ d = Absent
        BY <2>1, <3>2, SecretWritten DEF ServerSecret, Last
      <3> QED
        BY <2>1, <3>1, <3>2
    <2>2. CASE UNCHANGED secretLog
      BY <1>2, <2>2 DEF Settled, ServerSecret
    <2>3. CASE \E c \in Callers : Makes(c)
      BY <1>2, <2>3, SecretKept DEF Makes, Settled
    <2>4. CASE \E c \in Callers : TakesBack(c)
      BY <2>1, <2>4 DEF TakesBack, Settled
    <2>5. CASE \E t, d : Edits(t, d)
      BY <1>2, <2>1, <2>5 DEF Edits, Settled
    <2>6. CASE \E t : Deletes(t)
      BY <2>1, <2>6 DEF Deletes, Cuts, Settled
    <2>7. CASE \E t, d : OthersPut(t, d)
      <3>1. PICK t, d : OthersPut(t, d)
        BY <2>7
      <3>2. CASE t # s
        BY <1>2, <3>1, <3>2, SecretKept DEF OthersPut, Settled
      <3>3. CASE t = s /\ s \in foreign'
        BY <3>3 DEF Settled
      <3>4. CASE t = s /\ \E k \in Keys : ServerKey(k) = s
        <4>1. UNCHANGED keyLog
          BY <3>1 DEF OthersPut, WritesSecret, MakesSecret
        <4>2. \E k \in Keys : ServerKey(k)' = s
          BY <3>4, <4>1 DEF ServerKey
        <4> QED
          BY <4>2 DEF Settled
      <3> QED
        BY <3>1, <3>2, <3>3, <3>4 DEF OthersPut
    <2> QED
      BY <2>2, <2>3, <2>4, <2>5, <2>6, <2>7 DEF Keeps, SecretEffect
  <1>3. ASSUME NEW k \in Keys, ServerKey(k) = s
        PROVE  Settled(s)'
    <2>1. ASSUME NEW j, NEW r, WritesKey(j, r) \/ NamesKey(j, r), j # k
          PROVE  ServerKey(k)' = s
      BY <1>3, <2>1 DEF WritesKey, NamesKey, WriteKey, TypeInv, LogsOK, ServerKey
    <2>2. CASE UNCHANGED keyLog
      BY <1>3, <2>2 DEF Settled, ServerKey
    <2>3. CASE \E j : DeletesKey(j)
      BY <1>3, <2>1, <2>3 DEF DeletesKey, Settled
    <2>4. CASE \E c \in Callers : CreatesKey(c)
      BY <1>3, <2>1, <2>4, SecretAssumption DEF CreatesKey, Settled
    <2>5. CASE \E j, t : OthersKey(j, t)
      BY <1>3, <2>1, <2>5, SecretAssumption DEF OthersKey, Settled
    <2> QED
      BY <2>2, <2>3, <2>4, <2>5 DEF Keeps, KeyEffect
  <1> QED
    BY <1>1, <1>2, <1>3 DEF Settled

\* A step of one caller that accounts for its own secret.
LEMMA AccountMove ==
  ASSUME TypeInv, TypeInv', KeyInv, Keeps, AccountInv, excused \subseteq excused', foreign \subseteq foreign', NEW c \in Callers,
         \A d \in Callers \ {c} : Stays(d), AccountOK(c)',
         \/ call'[c] = call[c] /\ secret'[c] = secret[c]
         \/ Makes(c) /\ secret[c] = NoName
         \/ \A s \in Secrets : call[c].op = "CreateKey" /\ s = secret[c] => Settled(s)'
  PROVE  AccountInv'
  <1>1. \A d \in Callers : Makes(d) => d = c
    BY DEF Makes, Stays
  <1>2. \A s \in Secrets : Settled(s) => Settled(s)' \/ (Makes(c) /\ s = made + 1)
    BY <1>1, SettledStays
  <1>3. ASSUME NEW d \in Callers \ {c}
        PROVE  AccountOK(d)'
    <2>0. PICK s : s = secret[d]
      OBVIOUS
    <2>1. pc'[d] = pc[d] /\ call'[d] = call[d] /\ secret'[d] = s
      BY <2>0 DEF Stays
    <2>2. s \in Secrets => s # made + 1
      BY <2>0, SecretAssumption DEF TypeInv, CallerOK, LogsOK
    <2>3. s \in Secrets /\ Settled(s) => Settled(s)'
      BY <1>2, <2>2
    <2>4. AccountOK(d)
      BY DEF AccountInv
    <2>5. call'[d].op = "CreateKey" /\ pc'[d] \in SettledSteps /\ s \in Secrets => Settled(s)'
      BY <2>0, <2>1, <2>3, <2>4 DEF AccountOK
    <2> QED
      BY <2>0, <2>1, <2>4, <2>5 DEF AccountOK
  <1>4. ASSUME NEW s \in Secrets
        PROVE  Settled(s)' \/ Owned(s)'
    <2>1. CASE Settled(s)
      BY <1>2, <2>1 DEF Makes, Owned, TypeInv, CallerOK, CreateSteps
    <2>2. CASE Owned(s)
      <3>1. PICK d \in Callers : call[d].op = "CreateKey" /\ secret[d] = s
        BY <2>2 DEF Owned
      <3>2. CASE d # c
        BY <3>1, <3>2 DEF Stays, Owned
      <3>3. CASE d = c
        <4>1. s # NoName
          BY SecretAssumption DEF Secrets, NoName
        <4>2. CASE call'[c] = call[c] /\ secret'[c] = secret[c]
          BY <3>1, <3>3, <4>2 DEF Owned
        <4>3. CASE \A t \in Secrets : call[c].op = "CreateKey" /\ t = secret[c] => Settled(t)'
          BY <3>1, <3>3, <4>3
        <4> QED
          BY <3>1, <3>3, <4>1, <4>2, <4>3
      <3> QED
        BY <3>2, <3>3
    <2> QED
      BY <2>1, <2>2 DEF AccountInv
  <1> QED
    BY <1>3, <1>4 DEF AccountInv

LEMMA AccountReturned ==
  ASSUME TypeInv, NEW c \in Callers, Return(c)
  PROVE  AccountOK(c)'
  <1>1. pc'[c] = "idle" /\ call'[c] = NoCall /\ secret'[c] = NoName
    BY DEF TypeInv, WorkOK, Return, Goto
  <1>2. call'[c].op # "CreateKey"
    BY <1>1 DEF NoCall
  <1> QED
    BY <1>1, <1>2 DEF AccountOK

\* CreateKey leaves no secret behind that is not accounted for.
LEMMA CreateAccount ==
  ASSUME TypeInv, TypeInv', KeyInv, Keeps, AccountInv, excused \subseteq excused', foreign \subseteq foreign', NEW c \in Callers,
         \A d \in Callers \ {c} : Stays(d),
         \/ CreateSecret(c) \/ AwaitSecret(c) \/ CreateKeyObject(c) \/ AwaitKey(c) \/ Cleanup(c)
         \/ AwaitCleanup(c) \/ SetOwner(c) \/ ReturnError(c)
  PROVE  AccountInv'
  <1> DEFINE Accounted == \A s \in Secrets : call[c].op = "CreateKey" /\ s = secret[c] => Settled(s)'
  <1>1. Return(c) => AccountOK(c)'
    BY AccountReturned
  <1>2. AccountOK(c)
    BY DEF AccountInv
  <1>3. ASSUME NEW s \in Secrets, s = secret[c], Settled(s)
        PROVE  Settled(s)'
    <2>1. s # made + 1
      BY <1>3, SecretAssumption DEF TypeInv, CallerOK, LogsOK
    <2> QED
      BY <1>3, <2>1, SettledStays
  <1>4. CASE CreateSecret(c)
    <2>1. pc[c] = "CreateKey" /\ secret[c] = NoName
      BY <1>2, <1>4 DEF CreateSecret, AccountOK
    <2>2. CASE Return(c)
      <3>1. Accounted
        BY <2>1, SecretAssumption DEF Secrets, NoName
      <3> QED
        BY <1>1, <2>2, <3>1, AccountMove
    <2>3. CASE /\ made < MaxSecrets /\ made' = made + 1 /\ WriteSecret(made + 1, call[c].value) /\ UNCHANGED keyLog
               /\ secret' = [secret EXCEPT ![c] = made + 1]
               /\ \/ Goto(c, "awaitSecret") /\ UNCHANGED historyVars
                  \/ Goto(c, "failed") /\ Excuse({made + 1})
               /\ UNCHANGED <<call, started, version, tries, expired>>
      <3>1. pc'[c] = "awaitSecret" \/ (pc'[c] = "failed" /\ made + 1 \in excused')
        BY <2>3, GoneTo DEF Excuse
      <3>2. secret'[c] = made + 1 /\ call'[c] = call[c] /\ call[c].value \in Values
        BY <2>1, <2>3, AtWork DEF TypeInv, WorkOK
      <3>3. Makes(c)
        BY <2>1, <2>3, <3>1, <3>2, SecretAssumption DEF Makes, MakesSecret, Data
      <3>4. AccountOK(c)'
        BY <3>1, <3>2 DEF AccountOK, SettledSteps, Settled
      <3> QED
        BY <2>1, <3>3, <3>4, AccountMove
    <2> QED
      BY <1>4, <2>2, <2>3 DEF CreateSecret
  <1>5. CASE AwaitSecret(c)
    <2>1. CASE Return(c) /\ Excuse({secret[c]})
      <3>1. Accounted
        BY <2>1 DEF Excuse, Settled
      <3> QED
        BY <1>1, <2>1, <3>1, AccountMove
    <2>2. CASE Goto(c, "createKey") /\ UNCHANGED workVars
      <3>1. pc'[c] = "createKey" /\ call'[c] = call[c] /\ secret'[c] = secret[c]
        BY <2>2, GoneTo DEF workVars
      <3>2. AccountOK(c)'
        BY <3>1 DEF AccountOK, SettledSteps
      <3> QED
        BY <3>1, <3>2, AccountMove
    <2> QED
      BY <1>5, <2>1, <2>2 DEF AwaitSecret
  <1>6. CASE CreateKeyObject(c)
    <2>1. call'[c] = call[c] /\ secret'[c] = secret[c] /\ call[c].key \in Keys /\ secret[c] \in 1..made
      BY <1>6, AtWork DEF CreateKeyObject, workVars, SecretSteps
    <2>2. pc'[c] = "cleanup" \/ (pc'[c] = "awaitKey" /\ WriteKey(call[c].key, secret[c]) /\ UNCHANGED <<secretLog, made>>)
      BY <1>6, GoneTo DEF CreateKeyObject
    <2>3. CASE pc'[c] = "cleanup"
      BY <2>1, <2>3, AccountMove DEF AccountOK, SettledSteps
    <2>4. CASE WriteKey(call[c].key, secret[c]) /\ pc'[c] = "awaitKey"
      <3>0. PICK s, k : s = secret[c] /\ k = call[c].key
        OBVIOUS
      <3>1. ServerKey(k)' = s
        <4>1. /\ keyLog' = [keyLog EXCEPT ![k] = Append(@, s)] /\ k \in Keys
              /\ keyLog \in [Keys -> Seq(Secrets \cup {Absent})] /\ s \in Secrets \cup {Absent}
          BY <2>1, <2>4, <3>0, SecretAssumption DEF WriteKey, TypeInv, LogsOK, Secrets
        <4>2. Len(keyLog'[k]) = Len(keyLog[k]) + 1 /\ keyLog'[k][Len(keyLog[k]) + 1] = s
          BY <4>1, LogAppend
        <4> QED
          BY <4>2 DEF ServerKey, Last
      <3>2. Settled(s)'
        BY <2>1, <3>0, <3>1 DEF Settled
      <3>3. AccountOK(c)'
        BY <2>1, <2>4, <3>0, <3>2 DEF AccountOK
      <3> QED
        BY <2>1, <3>3, AccountMove
    <2> QED
      BY <2>2, <2>3, <2>4
  <1>7. CASE AwaitKey(c)
    <2>1. call'[c] = call[c] /\ secret'[c] = secret[c] /\ pc'[c] \in {"own", "cleanup"}
          /\ pc[c] = "awaitKey"
      BY <1>7, GoneTo DEF AwaitKey, workVars
    <2>2. AccountOK(c)'
      <3>0. PICK s : s = secret[c]
        OBVIOUS
      <3>1. call[c].op = "CreateKey" /\ s \in Secrets => Settled(s)'
        BY <1>2, <1>3, <2>1, <3>0 DEF AccountOK, SettledSteps
      <3> QED
        BY <2>1, <3>0, <3>1 DEF AccountOK
    <2> QED
      BY <2>1, <2>2, AccountMove
  <1>8. CASE Cleanup(c)
    <2>0. PICK s : s = secret[c]
      OBVIOUS
    <2>1. s \in Secrets /\ s \in 1..made /\ pc[c] = "cleanup"
      BY <1>8, <2>0, AtWork DEF Cleanup, SecretSteps
    <2>2. CASE UNCHANGED <<pc, workVars>>
      <3>1. pc'[c] = "cleanup" /\ call'[c] = call[c] /\ secret'[c] = secret[c]
        BY <2>1, <2>2 DEF workVars
      <3> QED
        BY <3>1, AccountMove DEF AccountOK, SettledSteps
    <2>3. CASE Return(c) /\ (Excuse({s}) \/ ServerSecret(s) = Absent)
      <3>1. Settled(s)'
        BY <1>3, <2>0, <2>1, <2>3 DEF Settled, Excuse
      <3>2. Accounted
        BY <2>0, <3>1
      <3> QED
        BY <1>1, <2>3, <3>2, AccountMove
    <2>4. CASE WriteSecret(s, Absent) /\ ServerSecret(s) # Absent /\ Answered(c, "awaitCleanup") /\ UNCHANGED <<keyLog, made, workVars>>
      <3>1. pc'[c] \in {"awaitCleanup", "failed"} /\ call'[c] = call[c] /\ secret'[c] = secret[c]
        BY <2>4, GoneTo DEF Answered, workVars
      <3>2. WritesSecret(s, Absent)
        BY <2>1, <2>4 DEF WritesSecret, Data
      <3>3. Settled(s)'
        BY <3>2, SecretWritten DEF Settled, ServerSecret, Last
      <3>4. AccountOK(c)'
        BY <2>0, <3>1, <3>3 DEF AccountOK
      <3> QED
        BY <3>1, <3>4, AccountMove
    <2> QED
      BY <1>8, <2>0, <2>2, <2>3, <2>4 DEF Cleanup
  <1>9. CASE AwaitCleanup(c) \/ SetOwner(c) \/ ReturnError(c)
    <2>1. Return(c) /\ pc[c] \in SettledSteps
      BY <1>9 DEF AwaitCleanup, SetOwner, ReturnError, SettledSteps
    <2>2. Accounted
      BY <1>2, <1>3, <2>1 DEF AccountOK
    <2> QED
      BY <1>1, <2>1, <2>2, AccountMove
  <1> QED
    BY <1>4, <1>5, <1>6, <1>7, <1>8, <1>9

LEMMA OtherCallAccount ==
  ASSUME TypeInv, TypeInv', KeyInv, Keeps, AccountInv, excused \subseteq excused', foreign \subseteq foreign', NEW c \in Callers,
         \A d \in Callers \ {c} : Stays(d),
         \/ DeleteKey(c) \/ AwaitDelete(c) \/ SetKeySecret(c) \/ GetSecret(c)
         \/ PatchSecret(c) \/ AwaitSet(c) \/ AwaitRetry(c)
  PROVE  AccountInv'
  <1>1. pc[c] \in {"DeleteKey", "awaitDelete", "SetKeySecret", "get", "patch", "awaitSet", "awaitRetry"}
    BY DEF DeleteKey, AwaitDelete, SetKeySecret, GetSecret, PatchSecret, AwaitSet, AwaitRetry
  <1>2. call[c].op # "CreateKey"
    BY <1>1 DEF TypeInv, CallerOK, SetSteps, DeleteSteps
  <1>3. \/ Return(c)
        \/ UNCHANGED <<pc, workVars>>
        \/ call' = call /\ \E step \in {"awaitDelete", "get", "patch", "awaitSet", "awaitRetry", "failed"} : Goto(c, step)
    BY DEF DeleteKey, AwaitDelete, SetKeySecret, GetSecret, PatchSecret, AwaitSet, AwaitRetry, Answered, workVars
  <1>4. AccountOK(c)'
    <2>1. CASE Return(c)
      BY <2>1, AccountReturned
    <2>2. CASE UNCHANGED <<pc, workVars>>
      BY <1>2, <2>2 DEF workVars, AccountInv, AccountOK
    <2>3. CASE call' = call /\ \E step \in {"awaitDelete", "get", "patch", "awaitSet", "awaitRetry", "failed"} : Goto(c, step)
      <3>1. pc'[c] \in {"awaitDelete", "get", "patch", "awaitSet", "awaitRetry", "failed"}
        BY <2>3, GoneTo
      <3> QED
        BY <1>2, <2>3, <3>1 DEF AccountOK
    <2> QED
      BY <1>3, <2>1, <2>2, <2>3
  <1> QED
    BY <1>2, <1>4, AccountMove

LEMMA BeginAccount ==
  ASSUME TypeInv, TypeInv', KeyInv, Keeps, AccountInv, NEW c \in Callers, NEW k \in Calls, Begin(c, k)
  PROVE  AccountInv'
  <1>1. pc[c] = "idle" /\ call[c] = NoCall /\ secret[c] = NoName
    BY DEF Begin, TypeInv, CallerOK, AccountInv, AccountOK
  <1>2. pc'[c] \in {"CreateKey", "SetKeySecret", "DeleteKey"} /\ secret'[c] = secret[c]
    BY SecretAssumption, GoneTo DEF Begin, Call
  <1>3. AccountOK(c)'
    BY <1>1, <1>2 DEF AccountOK, SettledSteps
  <1>4. \A d \in Callers \ {c} : Stays(d)
    BY DEF Begin, Stays, TypeInv, WorkOK, Goto
  <1>5. excused' = excused /\ foreign' = foreign /\ call[c].op # "CreateKey"
    BY <1>1 DEF Begin, historyVars, NoCall
  <1> QED
    BY <1>3, <1>4, <1>5, AccountMove

LEMMA StillAccount ==
  ASSUME TypeInv, TypeInv', KeyInv, Keeps, AccountInv, excused \subseteq excused', foreign \subseteq foreign',
         \A c \in Callers : Stays(c)
  PROVE  AccountInv'
  <1>1. \A s \in Secrets : Settled(s) => Settled(s)'
    BY SettledStays DEF Makes, Stays
  <1>2. \A s \in Secrets : Owned(s) => Owned(s)'
    BY DEF Owned, Stays
  <1>3. ASSUME NEW c \in Callers
        PROVE  AccountOK(c)'
    <2>0. PICK s : s = secret[c]
      OBVIOUS
    <2>1. AccountOK(c) /\ pc'[c] = pc[c] /\ call'[c] = call[c] /\ secret'[c] = s
      BY <2>0 DEF AccountInv, Stays
    <2>2. call'[c].op = "CreateKey" /\ pc'[c] \in SettledSteps /\ s \in Secrets => Settled(s)'
      BY <1>1, <2>0, <2>1 DEF AccountOK
    <2> QED
      BY <2>0, <2>1, <2>2 DEF AccountOK
  <1> QED
    BY <1>1, <1>2, <1>3 DEF AccountInv

LEMMA RestartAccount ==
  ASSUME TypeInv, TypeInv', KeyInv, Keeps, AccountInv, Restart
  PROVE  AccountInv'
  <1>1. /\ excused' = excused \cup ({secret[c] : c \in Callers} \ {NoName}) /\ foreign' = foreign
        /\ \A c \in Callers : pc'[c] = "idle" /\ call'[c] = NoCall /\ secret'[c] = NoName
    BY DEF Restart, Excuse
  <1>2. \A c \in Callers : AccountOK(c)'
    BY <1>1 DEF AccountOK, SettledSteps
  <1>3. \A c \in Callers : ~Makes(c)
    BY <1>1 DEF Makes
  <1>4. ASSUME NEW s \in Secrets
        PROVE  Settled(s)'
    <2>1. CASE Settled(s)
      BY <1>1, <1>3, <2>1, SettledStays
    <2>2. CASE Owned(s)
      <3>1. s # NoName
        BY SecretAssumption DEF Secrets, NoName
      <3> QED
        BY <1>1, <2>2, <3>1 DEF Owned, Settled
    <2> QED
      BY <2>1, <2>2 DEF AccountInv
  <1> QED
    BY <1>2, <1>4 DEF AccountInv

LEMMA AccountStep == Inv /\ AccountInv /\ [Next]_vars => AccountInv'
  <1> SUFFICES ASSUME Inv, AccountInv, [Next]_vars PROVE AccountInv'
    OBVIOUS
  <1>1. TypeInv /\ TypeInv' /\ KeyInv /\ Keeps
    BY TypeStep, KeyStep DEF Inv
  <1>2. ASSUME NEW c \in Callers, CallStep(c)
        PROVE  AccountInv'
    <2>1. \A d \in Callers \ {c} : Stays(d)
      BY <1>1, <1>2, CallForward
    <2>2. excused \subseteq excused' /\ foreign \subseteq foreign'
      BY <1>2 DEF CallStep, CreateSecret, AwaitSecret, CreateKeyObject, AwaitKey, Cleanup, AwaitCleanup, SetOwner,
         DeleteKey, AwaitDelete, SetKeySecret, GetSecret, PatchSecret, AwaitSet, AwaitRetry, ReturnError,
         historyVars, Excuse
    <2> QED
      BY <1>1, <1>2, <2>1, <2>2, CreateAccount, OtherCallAccount DEF CallStep
  <1>3. CASE Informers \/ (\E c \in Callers : Expire(c)) \/ UNCHANGED vars
    <2>1. excused' = excused /\ foreign' = foreign
      BY <1>3 DEF Informers, SeeKey, SeeSecret, Expire, vars, historyVars
    <2>2. \A d \in Callers : Stays(d)
      <3>1. UNCHANGED <<pc, call, secret>>
        BY <1>3 DEF Informers, SeeKey, SeeSecret, Expire, vars, workVars
      <3>2. \A d \in Callers : d \in expired => d \in expired'
        BY <1>3 DEF Informers, SeeKey, SeeSecret, Expire, vars, workVars
      <3> QED
        BY <3>1, <3>2 DEF Stays
    <2> QED
      BY <1>1, <2>1, <2>2, StillAccount
  <1>4. ASSUME NEW op \in OtherOps, OtherWrite(op)
        PROVE  AccountInv'
    <2>1. excused \subseteq excused' /\ foreign \subseteq foreign'
      BY <1>1, <1>4, OtherEffects
    <2>2. \A d \in Callers : Stays(d)
      BY <1>4 DEF OtherWrite, workVars, Stays
    <2> QED
      BY <1>1, <2>1, <2>2, StillAccount
  <1> QED
    BY <1>1, <1>2, <1>3, <1>4, BeginAccount, RestartAccount DEF Next

LEMMA AccountInit == Init => AccountInv
  <1> SUFFICES ASSUME Init PROVE AccountInv
    OBVIOUS
  <1>1. Len(<<Absent>>) = 1 /\ <<Absent>>[1] = Absent
    OBVIOUS
  <1>2. \A s \in Secrets : Settled(s)
    BY <1>1 DEF Init, Settled, ServerSecret, Last
  <1>3. \A c \in Callers : AccountOK(c)
    BY DEF Init, AccountOK, SettledSteps
  <1> QED
    BY <1>2, <1>3 DEF AccountInv

\* A secret without a key was named by others, is in the hands of a CreateKey or
\* was left behind for a known reason, whatever fails, whatever others write and
\* whenever the process restarts.
THEOREM NoSecretLost == Spec => []SecretsAccounted
  <1>1. AccountInv => SecretsAccounted
    BY DEF AccountInv, SecretsAccounted, Settled, Owned
  <1> QED
    BY <1>1, AccountInit, AccountStep, Invariance, PTL DEF Spec

-----------------------------------------------------------------------------
(* A key and its secret are one object.                                    *)

\* What the server has of a key changes with the key or with its secret.
LEMMA StoredValue ==
  ASSUME NEW k \in Keys
  PROVE  /\ Stored[k] = IF ServerKey(k) = Absent THEN Absent
                        ELSE IF ServerSecret(ServerKey(k)) = Absent THEN NoName
                        ELSE ServerSecret(ServerKey(k))
         /\ Stored'[k] = IF ServerKey(k)' = Absent THEN Absent
                         ELSE IF ServerSecret(ServerKey(k))' = Absent THEN NoName
                         ELSE ServerSecret(ServerKey(k))'
  BY DEF Stored

LEMMA StoredQuiet ==
  ASSUME UNCHANGED <<keyLog, secretLog>>
  PROVE  Stored' = Stored
  BY DEF Stored, ServerKey, ServerSecret

LEMMA StoredEqual ==
  ASSUME \A k \in Keys : Stored'[k] = Stored[k]
  PROVE  Stored' = Stored
  <1> DEFINE F == [k \in Keys |-> Stored[k]]
             G == [k \in Keys |-> Stored'[k]]
  <1>1. Stored = F /\ Stored' = G
    BY DEF Stored
  <1>2. F = G
    OBVIOUS
  <1> HIDE DEF F, G
  <1> QED
    BY <1>1, <1>2

LEMMA StoredPut ==
  ASSUME NEW k \in Keys, NEW v, Stored'[k] = v, \A j \in Keys \ {k} : Stored'[j] = Stored[j]
  PROVE  Stored' = [Stored EXCEPT ![k] = v]
  <1> DEFINE F == [j \in Keys |-> IF j = k THEN v ELSE Stored[j]]
             G == [j \in Keys |-> Stored'[j]]
  <1>1. Stored' = G
    BY DEF Stored
  <1>2. [Stored EXCEPT ![k] = v] = F
    BY DEF Stored
  <1>3. F = G
    OBVIOUS
  <1> HIDE DEF F, G
  <1> QED
    BY <1>1, <1>2, <1>3

LEMMA StoredAfterSecret ==
  ASSUME TypeInv, NEW s, NEW d, WritesSecret(s, d) \/ (MakesSecret(d) /\ s = made + 1), NEW k \in Keys
  PROVE  /\ ServerKey(k) # s => Stored'[k] = Stored[k]
         /\ ServerKey(k) = s => Stored'[k] = IF d = Absent THEN NoName ELSE d
  <1>0. PICK t : t = ServerKey(k)
    OBVIOUS
  <1>1. ServerKey(k)' = t
    BY <1>0 DEF WritesSecret, MakesSecret, ServerKey
  <1>2. CASE t = Absent
    <2>1. s # Absent
      BY SecretWritten, SecretAssumption
    <2> QED
      BY <1>0, <1>1, <1>2, <2>1, StoredValue
  <1>3. CASE t # Absent /\ t # s
    <2>1. ServerSecret(t)' = ServerSecret(t)
      BY <1>0, <1>3, LastReference, SecretKept
    <2> QED
      BY <1>0, <1>1, <1>3, <2>1, StoredValue DEF ServerSecret
  <1>4. CASE t = s
    <2>1. ServerSecret(t)' = d /\ s # Absent
      BY <1>4, SecretWritten, SecretAssumption DEF ServerSecret, Last
    <2> QED
      BY <1>0, <1>1, <1>4, <2>1, StoredValue DEF ServerSecret
  <1> QED
    BY <1>2, <1>3, <1>4

LEMMA StoredAfterKey ==
  ASSUME TypeInv, NEW k, NEW r, WritesKey(k, r) \/ NamesKey(k, r)
  PROVE  /\ k \in Keys /\ \A j \in Keys \ {k} : Stored'[j] = Stored[j]
         /\ Stored'[k] = IF r = Absent THEN Absent
                         ELSE IF ServerSecret(r) = Absent THEN NoName ELSE ServerSecret(r)
  <1>1. /\ keyLog' = [keyLog EXCEPT ![k] = Append(@, r)] /\ k \in Keys /\ r \in Secrets \cup {Absent}
        /\ keyLog \in [Keys -> Seq(Secrets \cup {Absent})] /\ secretLog' = secretLog
    BY SecretAssumption DEF WritesKey, NamesKey, WriteKey, TypeInv, LogsOK, Secrets
  <1>2. /\ Len(keyLog'[k]) = Len(keyLog[k]) + 1 /\ keyLog'[k][Len(keyLog[k]) + 1] = r
        /\ \A j \in Keys \ {k} : keyLog'[j] = keyLog[j]
    BY <1>1, LogAppend
  <1>3. ServerKey(k)' = r
    BY <1>2 DEF ServerKey, Last
  <1>4. \A j \in Keys \ {k} : ServerKey(j)' = ServerKey(j)
    BY <1>2 DEF ServerKey
  <1> QED
    BY <1>1, <1>3, <1>4, StoredValue DEF ServerSecret

BookStep == Book!Next \/ UNCHANGED Book!vars

LEMMA BookStutters ==
  ASSUME UNCHANGED <<call, others>>, Stored' = Stored
  PROVE  BookStep
  BY DEF BookStep, Book!vars

LEMMA BookEnds ==
  ASSUME NEW c \in Callers, Return(c), UNCHANGED others, Stored' = Stored
  PROVE  BookStep
  BY DEF BookStep, Book!Next, Book!End, Book!NoCall, NoCall, Return

\* A call that leaves the server alone ends or goes on.
LEMMA BookQuiet ==
  ASSUME NEW c \in Callers, UNCHANGED <<keyLog, secretLog, others>>, Return(c) \/ UNCHANGED call
  PROVE  BookStep
  BY StoredQuiet, BookStutters, BookEnds

LEMMA QuietRefines ==
  ASSUME NEW c \in Callers,
         \/ AwaitSecret(c) \/ AwaitKey(c) \/ AwaitCleanup(c) \/ SetOwner(c) \/ AwaitDelete(c)
         \/ SetKeySecret(c) \/ GetSecret(c) \/ AwaitSet(c) \/ AwaitRetry(c) \/ ReturnError(c)
  PROVE  BookStep
  <1>1. UNCHANGED <<keyLog, secretLog, others>>
    BY DEF AwaitSecret, AwaitKey, AwaitCleanup, SetOwner, AwaitDelete, SetKeySecret, GetSecret, AwaitSet,
           AwaitRetry, ReturnError, serverVars, boundVars
  <1>2. Return(c) \/ UNCHANGED call
    BY DEF AwaitSecret, AwaitKey, AwaitCleanup, SetOwner, AwaitDelete, SetKeySecret, GetSecret, AwaitSet,
           AwaitRetry, ReturnError, workVars
  <1> QED
    BY <1>1, <1>2, BookQuiet

LEMMA CreateSecretRefines ==
  ASSUME Inv, NEW c \in Callers, CreateSecret(c)
  PROVE  BookStep
  <1>1. UNCHANGED others /\ pc[c] = "CreateKey"
    BY DEF CreateSecret, boundVars
  <1>2. CASE Return(c) /\ UNCHANGED serverVars
    BY <1>1, <1>2, BookQuiet DEF serverVars
  <1>3. CASE made < MaxSecrets /\ made' = made + 1 /\ WriteSecret(made + 1, call[c].value) /\ UNCHANGED <<keyLog, call>>
    <2>1. MakesSecret(call[c].value)
      BY <1>1, <1>3, AtWork, SecretAssumption DEF MakesSecret, Inv, Data
    <2>2. \A k \in Keys : ServerKey(k) # made + 1
      <3>1. made + 1 \in Secrets /\ made + 1 \notin 1..made
        BY <1>3, SecretAssumption DEF Inv, TypeInv, LogsOK, Secrets
      <3> QED
        BY <3>1, KeyVersions, SecretAssumption DEF Inv
    <2>3. Stored' = Stored
      BY <2>1, <2>2, StoredAfterSecret, StoredEqual DEF Inv
    <2> QED
      BY <1>1, <1>3, <2>3, BookStutters
  <1> QED
    BY <1>2, <1>3 DEF CreateSecret

LEMMA CreateKeyRefines ==
  ASSUME Inv, NEW c \in Callers, CreateKeyObject(c)
  PROVE  BookStep
  <1> DEFINE k == call[c].key
             v == call[c].value
  <1>1. /\ pc[c] = "createKey" /\ UNCHANGED <<others, call>> /\ call[c].op = "CreateKey" /\ k \in Keys
        /\ secret[c] \in 1..made /\ Untouched(c) /\ v \in Values
    BY AtWork DEF CreateKeyObject, boundVars, workVars, Inv, TypeInv, CallerOK, CreateSteps, SecretSteps,
                  KeyInv, HoldOK, BeforeKey
  <1>2. CASE UNCHANGED serverVars
    BY <1>1, <1>2, BookQuiet DEF serverVars
  <1>3. CASE ServerKey(k) = Absent /\ WriteKey(k, secret[c]) /\ UNCHANGED <<secretLog, made>>
    <2>1. WritesKey(k, secret[c])
      BY <1>1, <1>3 DEF WritesKey
    <2>2. secret[c] # Absent /\ v # Absent
      BY <1>1, SecretAssumption DEF Inv, TypeInv, LogsOK, Secrets
    <2>3. Stored'[k] = v \/ (others > 0 /\ Stored'[k] = NoName)
      BY <1>1, <2>1, <2>2, StoredAfterKey DEF Inv, Untouched
    <2>4. Stored' = [Stored EXCEPT ![k] = v] \/ (others > 0 /\ Stored' = [Stored EXCEPT ![k] = NoName])
      BY <1>1, <2>1, <2>3, StoredAfterKey, StoredPut DEF Inv
    <2>5. Stored[k] = Absent
      BY <1>1, <1>3, StoredValue
    <2>6. Book!Create(c)
      BY <1>1, <2>4, <2>5 DEF Book!Create, Book!Put
    <2> QED
      BY <2>6 DEF BookStep, Book!Next
  <1> QED
    BY <1>2, <1>3 DEF CreateKeyObject

LEMMA CleanupRefines ==
  ASSUME Inv, NEW c \in Callers, Cleanup(c)
  PROVE  BookStep
  <1> DEFINE k == call[c].key
             s == secret[c]
  <1>1. /\ pc[c] = "cleanup" /\ UNCHANGED others /\ call[c].op = "CreateKey" /\ k \in Keys /\ s \in 1..made /\ HoldOK(c)
    BY AtWork DEF Cleanup, boundVars, Inv, TypeInv, CallerOK, CreateSteps, SecretSteps, KeyInv
  <1>2. CASE UNCHANGED serverVars
    BY <1>1, <1>2, BookQuiet DEF serverVars, Cleanup, workVars, boundVars
  <1>3. CASE c \notin expired /\ ServerSecret(s) # Absent /\ WriteSecret(s, Absent) /\ UNCHANGED <<keyLog, made, workVars>>
    <2>1. WritesSecret(s, Absent) /\ UNCHANGED call
      BY <1>1, <1>3 DEF WritesSecret, Data, workVars
    <2>2. Unreferred(s) \/ (Failures /\ \A j \in Keys : Refers(j, s) => j = k)
      BY <1>1, <1>3 DEF HoldOK, Creating
    <2>3. \A j \in Keys : ServerKey(j) = s => Refers(j, s)
      <3>1. s # Absent
        BY <1>1, SecretAssumption DEF Inv, TypeInv, LogsOK, Secrets
      <3> QED
        BY <3>1, LastReference DEF Inv
    <2>4. CASE \A j \in Keys : ServerKey(j) # s
      BY <1>1, <2>1, <2>4, StoredAfterSecret, StoredEqual, BookStutters DEF Inv
    <2>5. CASE Failures /\ ServerKey(k) = s /\ \A j \in Keys \ {k} : ServerKey(j) # s
      <3>1. Stored' = [Stored EXCEPT ![k] = NoName]
        BY <1>1, <2>1, <2>5, StoredAfterSecret, StoredPut DEF Inv
      <3>2. Book!TakeBack(c)
        BY <1>1, <2>1, <2>5, <3>1 DEF Book!TakeBack, Book!Put
      <3> QED
        BY <3>2 DEF BookStep, Book!Next
    <2> QED
      BY <2>2, <2>3, <2>4, <2>5 DEF Unreferred
  <1> QED
    BY <1>2, <1>3 DEF Cleanup, RequestArrives

LEMMA DeleteRefines ==
  ASSUME Inv, NEW c \in Callers, DeleteKey(c)
  PROVE  BookStep
  <1> DEFINE k == call[c].key
  <1>1. pc[c] = "DeleteKey" /\ UNCHANGED others /\ call[c].op = "DeleteKey" /\ k \in Keys
    BY AtWork DEF DeleteKey, boundVars, Inv, TypeInv, CallerOK, DeleteSteps
  <1>2. CASE UNCHANGED serverVars /\ (Return(c) \/ UNCHANGED workVars)
    BY <1>1, <1>2, BookQuiet DEF serverVars, workVars
  <1>3. CASE WriteKey(k, Absent) /\ UNCHANGED <<secretLog, made, workVars>>
    <2>1. WritesKey(k, Absent) /\ UNCHANGED call
      BY <1>1, <1>3 DEF WritesKey, workVars
    <2>2. Stored' = [Stored EXCEPT ![k] = Absent]
      BY <2>1, StoredAfterKey, StoredPut DEF Inv
    <2>3. Book!Delete(c)
      BY <1>1, <2>1, <2>2 DEF Book!Delete, Book!Put
    <2> QED
      BY <2>3 DEF BookStep, Book!Next
  <1> QED
    BY <1>2, <1>3 DEF DeleteKey

LEMMA PatchRefines ==
  ASSUME Inv, NEW c \in Callers, PatchSecret(c)
  PROVE  BookStep
  <1> DEFINE k == call[c].key
             s == secret[c]
             d == call[c].value
  <1>1. /\ pc[c] = "patch" /\ UNCHANGED <<others, keyLog>> /\ call[c].op = "SetKeySecret" /\ k \in Keys
        /\ s \in 1..made /\ s \in Secrets /\ d \in Values /\ Refers(k, s)
    BY AtWork DEF PatchSecret, boundVars, serverVars, Inv, TypeInv, CallerOK, SetSteps, SecretSteps,
                  KeyInv, HoldOK, Setting
  <1>2. CASE UNCHANGED secretLog /\ (Return(c) \/ UNCHANGED call)
    BY <1>1, <1>2, BookQuiet
  <1>3. CASE ServerSecret(s) = Original(c) /\ d # Original(c) /\ WriteSecret(s, d) /\ UNCHANGED <<made, call>>
    <2>1. WritesSecret(s, d) /\ d # Absent
      BY <1>1, <1>3, SecretAssumption DEF WritesSecret, Data
    <2>2. \A j \in Keys \ {k} : ServerKey(j) # s
      <3>1. s # Absent /\ \A j \in Keys : Refers(j, s) => j = k
        BY <1>1, SecretAssumption DEF Inv, KeyInv, ReferOK
      <3> QED
        BY <3>1, LastReference DEF Inv
    <2>3. CASE ServerKey(k) # s
      BY <1>1, <1>3, <2>1, <2>2, <2>3, StoredAfterSecret, StoredEqual, BookStutters DEF Inv
    <2>4. CASE ServerKey(k) = s
      <3>1. Stored' = [Stored EXCEPT ![k] = d]
        BY <1>1, <2>1, <2>2, <2>4, StoredAfterSecret, StoredPut DEF Inv
      <3>2. Stored[k] # Absent
        BY <1>1, <2>4, StoredValue, SecretAssumption
      <3>3. Book!Rotate(c)
        BY <1>1, <1>3, <3>1, <3>2 DEF Book!Rotate, Book!Put
      <3> QED
        BY <3>3 DEF BookStep, Book!Next
    <2> QED
      BY <2>3, <2>4
  <1> QED
    BY <1>2, <1>3 DEF PatchSecret, serverVars, workVars

LEMMA BeginRefines ==
  ASSUME Inv, NEW c \in Callers, NEW r \in Calls, Begin(c, r)
  PROVE  BookStep
  <1>1. /\ call[c] = NoCall /\ call' = [call EXCEPT ![c] = r] /\ Stored' = Stored /\ UNCHANGED others
    BY StoredQuiet DEF Begin, serverVars, Inv, TypeInv, CallerOK
  <1>2. r = [op |-> r.op, key |-> r.key, value |-> r.value] /\ r.key \in Keys /\ r.value \in Values
        /\ r.op \in {"CreateKey", "SetKeySecret", "DeleteKey"}
    BY SecretAssumption DEF Call
  <1>3. Book!Begin(c)
    BY <1>1, <1>2 DEF Book!Begin, Book!NoCall, NoCall
  <1> QED
    BY <1>3 DEF BookStep, Book!Next

\* What others do changes at most one key.
LEMMA OtherRefines ==
  ASSUME Inv, NEW op \in OtherOps, OtherWrite(op)
  PROVE  BookStep
  <1>1. UNCHANGED call /\ others' = others + 1
    BY DEF OtherWrite, workVars
  <1>2. ASSUME NEW k \in Keys, NEW v \in Values \cup {NoValue, Absent, NoName}, Stored' = [Stored EXCEPT ![k] = v]
        PROVE  BookStep
    <2>1. Book!Meddle
      BY <1>1, <1>2 DEF Book!Meddle
    <2> QED
      BY <2>1 DEF BookStep, Book!Next
  <1>3. ASSUME NEW k, NEW r, WritesKey(k, r) \/ NamesKey(k, r)
        PROVE  BookStep
    <2>1. Stored'[k] \in Values \cup {NoValue, Absent, NoName}
      <3>1. r \in Secrets \cup {Absent}
        BY <1>3, SecretAssumption DEF WritesKey, NamesKey, Inv, TypeInv, LogsOK, Secrets
      <3>2. r \in Secrets => ServerSecret(r) \in Data
        BY SecretVersions DEF Inv
      <3> QED
        BY <1>3, <3>1, <3>2, StoredAfterKey DEF Inv, Data
    <2>2. PICK v \in Values \cup {NoValue, Absent, NoName} : v = Stored'[k]
      BY <2>1
    <2>3. k \in Keys /\ Stored' = [Stored EXCEPT ![k] = v]
      BY <1>3, <2>2, StoredAfterKey, StoredPut DEF Inv
    <2> QED
      BY <1>2, <2>3
  <1>4. ASSUME NEW s, NEW d, WritesSecret(s, d) \/ (MakesSecret(d) /\ s = made + 1)
        PROVE  BookStep
    <2>1. CASE \A k \in Keys : ServerKey(k) # s
      <3>1. Stored' = Stored
        BY <1>4, <2>1, StoredAfterSecret, StoredEqual DEF Inv
      <3>2. Book!Meddle
        BY <1>1, <3>1 DEF Book!Meddle
      <3> QED
        BY <3>2 DEF BookStep, Book!Next
    <2>2. CASE \E k \in Keys : ServerKey(k) = s
      <3>1. PICK k \in Keys : ServerKey(k) = s
        BY <2>2
      <3>2. \A j \in Keys \ {k} : ServerKey(j) # s
        <4>1. s \in Secrets /\ s # Absent
          BY <1>4, SecretWritten, SecretAssumption DEF Inv
        <4> QED
          BY <3>1, <4>1, LastReference DEF Inv, KeyInv, ReferOK
      <3>3. PICK v : v = IF d = Absent THEN NoName ELSE d
        OBVIOUS
      <3>4. Stored' = [Stored EXCEPT ![k] = v]
        BY <1>4, <3>1, <3>2, <3>3, StoredAfterSecret, StoredPut DEF Inv
      <3>5. v \in Values \cup {NoValue, Absent, NoName}
        BY <1>4, <3>3 DEF WritesSecret, MakesSecret, Data
      <3> QED
        BY <1>2, <3>4, <3>5
    <2> QED
      BY <2>1, <2>2
  <1> QED
    BY <1>3, <1>4, OtherEffects DEF Inv, OtherEffect, DeletesKey, OthersKey, Cuts, OthersPut

LEMMA RestartRefines ==
  ASSUME Restart
  PROVE  BookStep
  <1>1. Stored' = Stored /\ UNCHANGED others /\ call' = [c \in Callers |-> NoCall]
    BY StoredQuiet DEF Restart, serverVars
  <1> QED
    BY <1>1 DEF BookStep, Book!Next, Book!Restart, Book!NoCall, NoCall

LEMMA BookInit == Init => Book!Init
  <1> SUFFICES ASSUME Init PROVE Book!Init
    OBVIOUS
  <1>1. Len(<<Absent>>) = 1 /\ <<Absent>>[1] = Absent
    OBVIOUS
  <1>2. \A k \in Keys : ServerKey(k) = Absent
    BY <1>1 DEF Init, ServerKey, Last
  <1>3. Stored = [k \in Keys |-> Absent]
    BY <1>2 DEF Stored
  <1> QED
    BY <1>3 DEF Init, Book!Init, Book!NoCall, NoCall

\* A key and its secret on the API server change like one object, in one step
\* and only on behalf of a call that is under way or of others.
THEOREM OneObject == Spec => KeyIsOneObject
  <1>1. Inv /\ [Next]_vars => BookStep
    <2> SUFFICES ASSUME Inv, [Next]_vars PROVE BookStep
      OBVIOUS
    <2>1. ASSUME NEW c \in Callers, CallStep(c)
          PROVE  BookStep
      BY <2>1, QuietRefines, CreateSecretRefines, CreateKeyRefines, CleanupRefines, DeleteRefines, PatchRefines
         DEF CallStep
    <2>2. CASE Informers \/ (\E c \in Callers : Expire(c)) \/ UNCHANGED vars
      <3>1. UNCHANGED <<keyLog, secretLog, call, others>>
        BY <2>2 DEF Informers, SeeKey, SeeSecret, Expire, vars, serverVars, workVars, boundVars
      <3> QED
        BY <3>1, StoredQuiet, BookStutters
    <2> QED
      BY <2>1, <2>2, BeginRefines, OtherRefines, RestartRefines DEF Next
  <1>2. Inv /\ [Next]_vars => [Book!Next]_Book!vars
    BY <1>1 DEF BookStep
  <1>3. Spec => Book!Init /\ [][Book!Next]_Book!vars
    BY <1>2, BookInit, Invariance, PTL DEF Spec
  <1> QED
    BY <1>3 DEF KeyIsOneObject, Book!Spec
=============================================================================
