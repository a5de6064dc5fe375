---------------------- MODULE ObjectClientCallsProofs ----------------------
(***************************************************************************)
(* What the callers of ObjectClient are promised: when a call has          *)
(* returned, the cache has what it wrote, unless others write it too.      *)
(***************************************************************************)
EXTENDS ObjectClientProofs

-----------------------------------------------------------------------------
(* Types: the counts of the waiters are those of the callers that wait.    *)

DataTypes ==
  /\ server \in Store /\ objects \in Store /\ reported \in Store /\ acked \in Store
  /\ uids \in Nat /\ events \in Seq(EventSet) /\ manual \in [Names -> {"none", "edited", "reset"}]

\* A call is known from its beginning to its end, and a patch has an object.
CallInv ==
  /\ CallTypes /\ tries \in [Callers -> 0..(Attempts - 1)]
  /\ \A c \in Callers : /\ pc[c] # "idle" => call[c] \in Call
                        /\ pc[c] = "patch" => original[c] # NoObject

Blocked(w, n) == {c \in Callers : pc[c] = "blocked" /\ WaiterOf(c) = w /\ Name(c) = n}

\* As long as the mutex is released: afterwards nobody registers any more.
WaiterInv ==
  /\ queue \in [Waiters -> [Names -> {"none", "open", "closed"}]]
  /\ ref \in [Waiters -> [Names -> 0..Cardinality(Callers)]]
  /\ ~leaked => \A w \in Waiters, n \in Names : ref[w][n] = Cardinality(Blocked(w, n))

Flags == leaked \in BOOLEAN /\ crashed \in BOOLEAN /\ cancelled \in BOOLEAN /\ closed \in BOOLEAN

TypeInv == DataTypes /\ CallInv /\ WaiterInv /\ Flags

LEMMA Versions ==
  /\ \A o \in Object : o # NoObject
  /\ NoCall \notin Call /\ 0 \in 0..(SerialModulus - 1)
  BY ClientAssumption, Records DEF Object

-----------------------------------------------------------------------------
(* The server, the reports and the cache.                                  *)

LEMMA WriteTypes ==
  ASSUME DataTypes, NEW n \in Names, NEW new \in Object \cup {NoObject},
         Write(n, new) \/ \E serial, debug : EditByHand(n, serial, debug) /\ Put(n, new)
  PROVE  server' \in Store /\ events' \in Seq(EventSet) /\ manual' \in [Names -> {"none", "edited", "reset"}]
  <1>1. Event(n, server[n], new) \in EventSet
    BY DEF Event, EventSet, EventTypes
  <1>2. Put(n, new)
    BY DEF Write
  <1>3. manual' \in [Names -> {"none", "edited", "reset"}]
    BY DEF Write, EditByHand, DataTypes
  <1>4. server' \in Store /\ events' \in Seq(EventSet)
    BY <1>1, <1>2 DEF Put, DataTypes, Store
  <1> QED
    BY <1>3, <1>4

LEMMA NewObjectType ==
  ASSUME DataTypes
  PROVE  NewObject \in Object /\ uids + 1 \in Nat
  BY Versions, ClientAssumption DEF NewObject, Object, DataTypes

LEMMA QuietData ==
  ASSUME DataTypes, UNCHANGED <<apiVars, objects, reported, acked>>
  PROVE  DataTypes'
  BY DEF DataTypes, apiVars

LEMMA CallerAtWork ==
  ASSUME CallInv, NEW c \in Callers, pc[c] # "idle"
  PROVE  /\ call[c] \in Call /\ Name(c) \in Names /\ WaiterOf(c) \in Waiters
         /\ call[c].value \in Values \cup {Blank}
  BY Records DEF CallInv, Name, WaiterOf, Waiters

LEMMA CallerData ==
  ASSUME DataTypes, CallInv, NEW c \in Callers, (\E k \in Calls : Begin(c, k)) \/ CallStep(c) \/ TimeOut(c)
  PROVE  DataTypes'
  <1>1. CASE (\E k \in Calls : Begin(c, k)) \/ GetOriginal(c) \/ Cancel(c) \/ AwaitEnd(c) \/ TimeOut(c)
    BY <1>1, QuietData DEF Begin, GetOriginal, Cancel, AwaitEnd, TimeOut, cacheVars
  <1>2. CASE CreateObject(c)
    <2>1. UNCHANGED <<objects, reported, acked>> /\ Name(c) \in Names
      BY <1>2, CallerAtWork DEF CreateObject, cacheVars
    <2>2. CASE UNCHANGED apiVars
      BY <2>1, <2>2, QuietData
    <2>3. CASE Write(Name(c), NewObject) /\ uids' = uids + 1
      <3>1. server' \in Store /\ events' \in Seq(EventSet) /\ manual' \in [Names -> {"none", "edited", "reset"}]
        BY <2>1, <2>3, NewObjectType, WriteTypes
      <3> QED
        BY <2>1, <2>3, <3>1, NewObjectType DEF DataTypes
    <2> QED
      BY <1>2, <2>2, <2>3 DEF CreateObject
  <1>3. CASE DeleteObject(c)
    <2>1. UNCHANGED <<objects, reported, acked>> /\ Name(c) \in Names
      BY <1>3, CallerAtWork DEF DeleteObject, cacheVars
    <2>2. CASE UNCHANGED apiVars
      BY <2>1, <2>2, QuietData
    <2>3. CASE Write(Name(c), NoObject) /\ UNCHANGED uids
      <3>1. server' \in Store /\ events' \in Seq(EventSet) /\ manual' \in [Names -> {"none", "edited", "reset"}]
        BY <2>1, <2>3, WriteTypes
      <3> QED
        BY <2>1, <2>3, <3>1 DEF DataTypes
    <2> QED
      BY <1>3, <2>2, <2>3 DEF DeleteObject
  <1>4. CASE PatchObject(c)
    <2> DEFINE new == Mutate(original[c], call[c])
               written == [new EXCEPT !.uid = server[Name(c)].uid]
    <2>1. /\ UNCHANGED <<objects, reported, acked>> /\ Name(c) \in Names
          /\ call[c].value \in Values \cup {Blank} /\ original[c] \in Object
      BY <1>4, CallerAtWork DEF PatchObject, cacheVars, CallInv, CallTypes
    <2>2. CASE UNCHANGED apiVars
      BY <2>1, <2>2, QuietData
    <2>3. CASE server[Name(c)] # NoObject /\ Write(Name(c), written) /\ UNCHANGED uids
      <3>1. server[Name(c)] \in Object
        BY <2>1, <2>3 DEF DataTypes, Store
      <3>2. new \in Object
        BY <2>1, Mutated
      <3>3. written \in Object
        <4> HIDE DEF new
        <4> QED
          BY <3>1, <3>2 DEF Object
      <3>4. server' \in Store /\ events' \in Seq(EventSet) /\ manual' \in [Names -> {"none", "edited", "reset"}]
        <4> HIDE DEF written
        <4> QED
          BY <2>1, <2>3, <3>3, WriteTypes
      <3> QED
        BY <2>1, <2>3, <3>4 DEF DataTypes
    <2> QED
      BY <1>4, <2>2, <2>3 DEF PatchObject
  <1>5. CASE CheckCondition(c) \/ WakeUp(c)
    <2>1. UNCHANGED <<apiVars, objects, reported>> /\ Name(c) \in Names
      BY <1>5, CallerAtWork DEF CheckCondition, WakeUp, cacheVars
    <2>2. UNCHANGED acked \/ acked' = [acked EXCEPT ![Name(c)] = target[c]]
      BY <1>5 DEF CheckCondition, WakeUp, Finish, Acknowledge, ReturnLocked, Register
    <2>3. acked' \in Store
      BY <2>1, <2>2 DEF CallInv, CallTypes, DataTypes, Store
    <2> QED
      BY <2>1, <2>3 DEF DataTypes, apiVars
  <1> QED
    BY <1>1, <1>2, <1>3, <1>4, <1>5 DEF CallStep

LEMMA InformerData ==
  ASSUME DataTypes, Informer \/ EndInformer \/ Relist
  PROVE  DataTypes'
  <1>1. CASE LoadList \/ OpenCloseDone \/ EndInformer
    <2>1. CASE LoadList
      BY <2>1 DEF LoadList, DataTypes, apiVars
    <2>2. CASE OpenCloseDone
      BY <2>2 DEF OpenCloseDone, DataTypes, apiVars
    <2>3. CASE EndInformer
      BY <2>3 DEF EndInformer, DataTypes
    <2> QED
      BY <1>1, <2>1, <2>2, <2>3
  <1>2. CASE StartInformer
    <2> DEFINE present == {n \in Names : server[n] # NoObject}
    <2>1. PICK order \in [1..Cardinality(present) -> present] :
            events' = [i \in DOMAIN order |-> Event(order[i], NoObject, server[order[i]])]
      BY <1>2 DEF StartInformer
    <2>2. Cardinality(present) \in Nat
      <3>1. IsFiniteSet(present)
        BY ClientAssumption, FS_Subset
      <3> QED
        BY <3>1, FS_CardinalityType
    <2>3. \A n \in present : Event(n, NoObject, server[n]) \in EventSet
      BY DEF Event, EventSet, EventTypes, DataTypes, Store
    <2> HIDE DEF present
    <2>4. events' \in Seq(EventSet)
      <3>1. \A i \in 1..Cardinality(present) : order[i] \in present
        OBVIOUS
      <3>2. events' = [i \in 1..Cardinality(present) |-> Event(order[i], NoObject, server[order[i]])]
        BY <2>1
      <3> QED
        BY <2>2, <2>3, <3>1, <3>2
    <2> QED
      BY <1>2, <2>4 DEF StartInformer, DataTypes
  <1>3. CASE Deliver
    <2> DEFINE e == Head(events)
    <2>0. events # <<>> /\ events \in Seq(EventSet)
      BY <1>3 DEF Deliver, DataTypes
    <2>1. e \in EventSet /\ Tail(events) \in Seq(EventSet)
      BY <2>0
    <2>2. e.name \in Names /\ e.object \in Object \cup {NoObject}
      BY <2>1 DEF EventSet
    <2>3. /\ UNCHANGED <<server, uids, manual, acked>> /\ events' = Tail(events)
          /\ reported' = [reported EXCEPT ![e.name] = e.object]
          /\ UNCHANGED objects \/ objects' = [objects EXCEPT ![e.name] = e.object]
      BY <1>3 DEF Deliver
    <2> HIDE DEF e
    <2> QED
      BY <2>1, <2>2, <2>3 DEF DataTypes, Store
  <1>4. CASE Relist
    <2> DEFINE Found(n, known) ==
                 [Event(n, known, server[n]) EXCEPT !.type = IF @ = "delete" THEN "unknown" ELSE @]
    <2>1. PICK k \in 0..Len(events), n \in Names :
            \E known : events' = SubSeq(events, 1, k) \/ events' = Append(SubSeq(events, 1, k), Found(n, known))
      BY <1>4 DEF Relist
    <2>2. \A known : Found(n, known) \in EventSet
      BY DEF Event, EventSet, EventTypes, DataTypes, Store
    <2> HIDE DEF Found
    <2>3. SubSeq(events, 1, k) \in Seq(EventSet)
      <3>1. events \in Seq(EventSet)
        BY DEF DataTypes
      <3> QED
        BY <3>1
    <2>4. events' \in Seq(EventSet)
      BY <2>1, <2>2, <2>3
    <2> QED
      BY <1>4, <2>4 DEF Relist, DataTypes, cacheVars
  <1> QED
    BY <1>1, <1>2, <1>3, <1>4 DEF Informer

LEMMA OtherData ==
  ASSUME DataTypes, NEW op \in OtherOps, NEW n \in Names, OtherWrite(op, n)
  PROVE  DataTypes'
  <1>1. UNCHANGED <<objects, reported, acked>>
    BY DEF OtherWrite, cacheVars
  <1>2. ASSUME NEW new \in Object \cup {NoObject}, Write(n, new), uids' \in Nat
        PROVE  DataTypes'
    BY <1>1, <1>2, WriteTypes DEF DataTypes
  <1>3. CASE Write(n, NewObject) /\ uids' = uids + 1
    BY <1>2, <1>3, NewObjectType
  <1>4. CASE Write(n, NoObject) /\ UNCHANGED uids
    BY <1>2, <1>4 DEF DataTypes
  <1>5. ASSUME server[n] # NoObject, UNCHANGED uids, NEW f \in Fields, NEW v \in Values,
               Write(n, Mutate(server[n], [op |-> f, name |-> n, value |-> v]))
        PROVE  DataTypes'
    <2>1. server[n] \in Object
      BY <1>5 DEF DataTypes, Store
    <2>2. Mutate(server[n], [op |-> f, name |-> n, value |-> v]) \in Object
      BY <2>1, Mutated
    <2> QED
      BY <1>2, <1>5, <2>2 DEF DataTypes
  <1>6. ASSUME NEW v \in Values \cup {Blank}, UNCHANGED uids, NEW serial \in {server[n].serial, 0},
               EditByHand(n, serial, v)
        PROVE  DataTypes'
    <2>1. server[n] \in Object /\ serial \in 0..(SerialModulus - 1)
      BY <1>6, Versions DEF EditByHand, DataTypes, Store, Object
    <2>2. PICK new \in Object : new = [server[n] EXCEPT !.serial = serial, !.debug = v]
      BY <2>1 DEF Object
    <2>3. Put(n, new)
      BY <1>6, <2>2 DEF EditByHand
    <2> QED
      BY <1>1, <1>6, <2>3, WriteTypes DEF DataTypes
  <1> QED
    BY <1>3, <1>4, <1>5, <1>6 DEF OtherWrite

-----------------------------------------------------------------------------
(* The calls.                                                              *)

LEMMA ReturnTypes ==
  ASSUME Closing, CallInv, NEW c \in Callers, Return(c)
  PROVE  CallInv'
  BY DEF Closing, CallInv, CallTypes, Return, Attempts

LEMMA CallerTypes ==
  ASSUME Closing, DataTypes, CallInv, NEW c \in Callers,
         (\E k \in Calls : Begin(c, k)) \/ CallStep(c) \/ TimeOut(c)
  PROVE  CallInv'
  <1>1. CASE Return(c)
    BY <1>1, ReturnTypes
  <1>2. CASE UNCHANGED <<pc, callVars>>
    BY <1>2 DEF CallInv, CallTypes, callVars
  <1>3. ASSUME NEW k \in Calls, Begin(c, k)
        PROVE  CallInv'
    <2>1. k \in Call
      BY ClientAssumption
    <2>2. /\ call' = [call EXCEPT ![c] = k] /\ UNCHANGED <<original, target, patched, tries>>
          /\ pc' = [pc EXCEPT ![c] = IF k.op \in {"create", "close"} THEN k.op ELSE "get"]
      BY <1>3 DEF Begin, Goto
    <2> QED
      BY <2>1, <2>2 DEF Closing, CallInv, CallTypes
  <1>4. ASSUME NEW step \in {"wait", "blocked", "closing", "get"}, Goto(c, step), pc[c] # "idle",
               UNCHANGED <<call, original>>, patched' \in [Callers -> BOOLEAN],
               target' \in [Callers -> Object \cup {NoObject}], tries' \in [Callers -> 0..(Attempts - 1)]
        PROVE  CallInv'
    BY <1>4 DEF Closing, CallInv, CallTypes, Goto
  <1>5. CASE GetOriginal(c)
    <2>1. Name(c) \in Names
      BY <1>5, CallerAtWork DEF GetOriginal
    <2>2. CASE /\ objects[Name(c)] # NoObject
               /\ original' = [original EXCEPT ![c] = objects[Name(c)]]
               /\ Goto(c, IF call[c].op = "delete" THEN "delete" ELSE "patch")
               /\ UNCHANGED <<call, target, patched, tries, crashed>>
      <3>1. PICK o \in Object : o = objects[Name(c)]
        BY <2>1, <2>2 DEF DataTypes, Store
      <3> QED
        BY <1>5, <2>2, <3>1, Versions DEF GetOriginal, Goto, Closing, CallInv, CallTypes
    <2> QED
      BY <1>1, <1>2, <1>5, <2>2 DEF GetOriginal
  <1>6. CASE CreateObject(c) \/ DeleteObject(c) \/ PatchObject(c)
    <2>1. ASSUME NEW t \in Object \cup {NoObject}, WaitFor(c, t), patched' \in [Callers -> BOOLEAN]
          PROVE  CallInv'
      <3>1. /\ Goto(c, "wait") /\ UNCHANGED <<call, original, tries>> /\ target' = [target EXCEPT ![c] = t]
            /\ pc[c] # "idle"
        BY <1>6, <2>1 DEF WaitFor, CreateObject, DeleteObject, PatchObject
      <3> QED
        BY <1>4, <2>1, <3>1 DEF CallInv, CallTypes
    <2>2. CASE CreateObject(c)
      BY <1>1, <2>1, <2>2, NewObjectType DEF CreateObject, CallInv, CallTypes
    <2>3. CASE DeleteObject(c)
      BY <1>1, <2>1, <2>3 DEF DeleteObject, CallInv, CallTypes
    <2>4. CASE PatchObject(c)
      <3>1. original[c] \in Object /\ call[c].value \in Values \cup {Blank}
        BY <2>4, CallerAtWork DEF PatchObject, CallInv, CallTypes
      <3>2. PICK new \in Object : new = Mutate(original[c], call[c])
        BY <3>1, Mutated
      <3> QED
        BY <1>1, <2>1, <2>4, <3>1, <3>2 DEF PatchObject, CallInv, CallTypes
    <2> QED
      BY <1>6, <2>2, <2>3, <2>4
  <1>7. CASE Finish(c) /\ pc[c] # "idle"
    <2>1. CASE /\ tries[c] + 1 < Attempts /\ Goto(c, "get") /\ tries' = [tries EXCEPT ![c] = @ + 1]
               /\ UNCHANGED <<call, original, target, patched>>
      <3>1. tries' \in [Callers -> 0..(Attempts - 1)]
        BY <2>1 DEF CallInv, Attempts
      <3> QED
        BY <1>4, <1>7, <2>1, <3>1 DEF CallInv, CallTypes
    <2> QED
      BY <1>1, <1>7, <2>1 DEF Finish
  <1>8. CASE Register(c) /\ pc[c] # "idle"
    BY <1>4, <1>8 DEF Register, callVars, CallInv, CallTypes
  <1>9. CASE CheckCondition(c) \/ WakeUp(c)
    BY <1>1, <1>2, <1>7, <1>8, <1>9 DEF CheckCondition, WakeUp, ReturnLocked
  <1>10. CASE Cancel(c) \/ AwaitEnd(c)
    <2>1. CASE Goto(c, "closing") /\ UNCHANGED callVars
      BY <1>4, <1>10, <2>1 DEF Cancel, AwaitEnd, callVars, CallInv, CallTypes
    <2> QED
      BY <1>1, <1>10, <2>1 DEF Cancel, AwaitEnd, ReturnClosed
  <1> QED
    BY <1>1, <1>3, <1>5, <1>6, <1>9, <1>10 DEF CallStep, TimeOut

-----------------------------------------------------------------------------
(* The waiters.                                                            *)

LEMMA OthersStay ==
  ASSUME Closing, CallInv, NEW c \in Callers, (\E k \in Calls : Begin(c, k)) \/ CallStep(c) \/ TimeOut(c)
  PROVE  \A d \in Callers \ {c} : pc'[d] = pc[d] /\ call'[d] = call[d]
  BY DEF Begin, CallStep, CreateObject, GetOriginal, DeleteObject, PatchObject, CheckCondition, WakeUp, Cancel,
         AwaitEnd, TimeOut, ReturnClosed, WaitFor, Finish, Register, ReturnLocked, Return, Goto, callVars,
         Closing, CallInv, CallTypes

LEMMA SameCounts ==
  ASSUME WaiterInv, UNCHANGED waiterVars,
         \A d \in Callers : \/ pc'[d] = pc[d] /\ call'[d] = call[d]
                            \/ pc[d] # "blocked" /\ pc'[d] # "blocked"
  PROVE  WaiterInv'
  <1>1. \A w \in Waiters, n \in Names : Blocked(w, n)' = Blocked(w, n)
    BY DEF Blocked, WaiterOf, Name
  <1> QED
    BY <1>1 DEF WaiterInv, waiterVars

\* The callers that wait are a finite set, no larger than that of all.
LEMMA BlockedCallers ==
  ASSUME IsFiniteSet(Callers), NEW B \in SUBSET Callers
  PROVE  /\ IsFiniteSet(B) /\ Cardinality(B) \in 0..Cardinality(Callers)
         /\ \A c : c \notin B => Cardinality(B \cup {c}) = Cardinality(B) + 1
         /\ \A c \in B : Cardinality(B \ {c}) = Cardinality(B) - 1
  <1>1. IsFiniteSet(B) /\ Cardinality(B) <= Cardinality(Callers)
    BY FS_Subset
  <1>2. Cardinality(B) \in Nat /\ Cardinality(Callers) \in Nat
    BY <1>1, FS_CardinalityType
  <1>3. \A c : c \notin B => Cardinality(B \cup {c}) = Cardinality(B) + 1
    BY <1>1, FS_AddElement
  <1>4. \A c \in B : Cardinality(B \ {c}) = Cardinality(B) - 1
    BY <1>1, FS_RemoveElement
  <1> QED
    BY <1>1, <1>2, <1>3, <1>4

LEMMA RegisterCounts ==
  ASSUME IsFiniteSet(Callers), Closing, CallInv, WaiterInv, NEW c \in Callers, pc[c] = "wait", ~leaked, Register(c)
  PROVE  WaiterInv'
  <1>1. PICK v \in Waiters, m \in Names : v = WaiterOf(c) /\ m = Name(c)
    BY CallerAtWork
  <1>2. /\ queue' = [queue EXCEPT ![v][m] = IF @ = "none" THEN "open" ELSE @]
        /\ ref' = [ref EXCEPT ![v][m] = ref[v][m] + 1]
        /\ pc' = [pc EXCEPT ![c] = "blocked"] /\ UNCHANGED <<call, leaked>>
    BY <1>1 DEF Register, Goto, callVars
  <1>3. Blocked(v, m)' = Blocked(v, m) \cup {c} /\ c \notin Blocked(v, m)
    BY <1>1, <1>2 DEF Blocked, WaiterOf, Name, Closing
  <1>4. \A w \in Waiters, n \in Names : w # v \/ n # m => Blocked(w, n)' = Blocked(w, n)
    BY <1>1, <1>2 DEF Blocked, WaiterOf, Name, Closing
  <1>5. /\ Cardinality(Blocked(v, m)') = Cardinality(Blocked(v, m)) + 1
        /\ Cardinality(Blocked(v, m)') \in 0..Cardinality(Callers)
    <2>1. Blocked(v, m) \in SUBSET Callers /\ Blocked(v, m)' \in SUBSET Callers
      BY DEF Blocked
    <2>2. Cardinality(Blocked(v, m) \cup {c}) = Cardinality(Blocked(v, m)) + 1
      BY <1>3, <2>1, BlockedCallers
    <2>3. Cardinality(Blocked(v, m)') \in 0..Cardinality(Callers)
      BY <2>1, BlockedCallers
    <2> QED
      BY <1>3, <2>2, <2>3
  <1>6. ref[v][m] = Cardinality(Blocked(v, m))
    BY DEF WaiterInv
  <1>7. ref' \in [Waiters -> [Names -> 0..Cardinality(Callers)]] /\ ref'[v][m] = ref[v][m] + 1
    BY <1>2, <1>5, <1>6 DEF WaiterInv
  <1>8. \A w \in Waiters, n \in Names : w # v \/ n # m => ref'[w][n] = ref[w][n]
    BY <1>2 DEF WaiterInv
  <1>9. \A w \in Waiters, n \in Names : ref'[w][n] = Cardinality(Blocked(w, n)')
    <2> TAKE w \in Waiters, n \in Names
    <2>1. CASE w = v /\ n = m
      BY <1>5, <1>6, <1>7, <2>1
    <2>2. CASE w # v \/ n # m
      BY <1>2, <1>4, <1>8, <2>2 DEF WaiterInv
    <2> QED
      BY <2>1, <2>2
  <1>10. queue' \in [Waiters -> [Names -> {"none", "open", "closed"}]]
    BY <1>2 DEF WaiterInv
  <1> QED
    BY <1>7, <1>9, <1>10 DEF WaiterInv

LEMMA UnregisterCounts ==
  ASSUME IsFiniteSet(Callers), Closing, CallInv, WaiterInv, NEW c \in Callers, pc[c] = "blocked", ~leaked,
         Unregister(c), pc'[c] # "blocked", \A d \in Callers \ {c} : pc'[d] = pc[d] /\ call'[d] = call[d]
  PROVE  WaiterInv'
  <1>1. PICK v \in Waiters, m \in Names : v = WaiterOf(c) /\ m = Name(c)
    BY CallerAtWork
  <1>2. /\ queue' = [queue EXCEPT ![v][m] = IF ref[v][m] - 1 = 0 THEN "none" ELSE @]
        /\ ref' = [ref EXCEPT ![v][m] = ref[v][m] - 1] /\ UNCHANGED leaked
    BY <1>1 DEF Unregister
  <1>3. Blocked(v, m)' = Blocked(v, m) \ {c} /\ c \in Blocked(v, m)
    BY <1>1 DEF Blocked, WaiterOf, Name
  <1>4. \A w \in Waiters, n \in Names : w # v \/ n # m => Blocked(w, n)' = Blocked(w, n)
    BY <1>1 DEF Blocked, WaiterOf, Name
  <1>5. /\ Cardinality(Blocked(v, m)') = Cardinality(Blocked(v, m)) - 1
        /\ Cardinality(Blocked(v, m)') \in 0..Cardinality(Callers)
    <2>1. Blocked(v, m) \in SUBSET Callers /\ Blocked(v, m)' \in SUBSET Callers
      BY DEF Blocked
    <2>2. Cardinality(Blocked(v, m) \ {c}) = Cardinality(Blocked(v, m)) - 1
      BY <1>3, <2>1, BlockedCallers
    <2>3. Cardinality(Blocked(v, m)') \in 0..Cardinality(Callers)
      BY <2>1, BlockedCallers
    <2> QED
      BY <1>3, <2>2, <2>3
  <1>6. ref[v][m] = Cardinality(Blocked(v, m))
    BY DEF WaiterInv
  <1>7. ref' \in [Waiters -> [Names -> 0..Cardinality(Callers)]] /\ ref'[v][m] = ref[v][m] - 1
    BY <1>2, <1>5, <1>6 DEF WaiterInv
  <1>8. \A w \in Waiters, n \in Names : w # v \/ n # m => ref'[w][n] = ref[w][n]
    BY <1>2 DEF WaiterInv
  <1>9. \A w \in Waiters, n \in Names : ref'[w][n] = Cardinality(Blocked(w, n)')
    <2> TAKE w \in Waiters, n \in Names
    <2>1. CASE w = v /\ n = m
      BY <1>5, <1>6, <1>7, <2>1
    <2>2. CASE w # v \/ n # m
      BY <1>2, <1>4, <1>8, <2>2 DEF WaiterInv
    <2> QED
      BY <2>1, <2>2
  <1>10. queue' \in [Waiters -> [Names -> {"none", "open", "closed"}]]
    BY <1>2 DEF WaiterInv
  <1> QED
    BY <1>7, <1>9, <1>10 DEF WaiterInv

LEMMA CallerCounts ==
  ASSUME ~Timeouts, IsFiniteSet(Callers), Closing, CallInv, WaiterInv, NEW c \in Callers,
         (\E k \in Calls : Begin(c, k)) \/ CallStep(c) \/ TimeOut(c)
  PROVE  WaiterInv'
  <1>1. \A d \in Callers \ {c} : pc'[d] = pc[d] /\ call'[d] = call[d]
    BY OthersStay
  <1>2. ASSUME UNCHANGED waiterVars, UNCHANGED <<pc, call>> \/ (pc[c] # "blocked" /\ pc'[c] # "blocked")
        PROVE  WaiterInv'
    BY <1>1, <1>2, SameCounts
  <1>3. Return(c) => pc'[c] = "idle"
    BY DEF Return, Closing
  <1>4. Finish(c) => pc'[c] \in {"idle", "get"}
    BY <1>3 DEF Finish, Goto, Closing
  <1>5. CASE \E k \in Calls : Begin(c, k)
    BY <1>2, <1>5 DEF Begin, Goto, Closing
  <1>6. CASE CreateObject(c) \/ DeleteObject(c) \/ PatchObject(c)
    BY <1>2, <1>3, <1>6 DEF CreateObject, DeleteObject, PatchObject, WaitFor, Goto, Closing
  <1>7. CASE GetOriginal(c)
    BY <1>2, <1>3, <1>7 DEF GetOriginal, Goto, Closing, callVars
  <1>8. CASE Cancel(c) \/ AwaitEnd(c)
    BY <1>2, <1>3, <1>8 DEF Cancel, AwaitEnd, ReturnClosed, Goto, Closing
  <1>9. CASE ReturnLocked(c)
    BY <1>9 DEF ReturnLocked, WaiterInv
  <1>10. CASE CheckCondition(c)
    BY <1>2, <1>4, <1>9, <1>10, RegisterCounts DEF CheckCondition
  <1>11. CASE WakeUp(c)
    <2>1. CASE Finish(c) /\ Unregister(c)
      BY <1>1, <1>4, <1>11, <2>1, UnregisterCounts DEF WakeUp
    <2>2. CASE leaked' = TRUE /\ UNCHANGED <<queue, ref>>
      BY <2>2 DEF WaiterInv
    <2> QED
      BY <1>9, <1>11, <2>1, <2>2 DEF WakeUp
  <1> QED
    BY <1>5, <1>6, <1>7, <1>8, <1>10, <1>11 DEF CallStep, TimeOut

LEMMA InformerCounts ==
  ASSUME WaiterInv, DataTypes,
         Informer \/ EndInformer \/ Relist \/ \E op \in OtherOps, n \in Names : OtherWrite(op, n)
  PROVE  WaiterInv'
  <1>1. UNCHANGED <<pc, call, leaked, ref>>
    BY DEF Informer, EndInformer, Relist, OtherWrite, LoadList, OpenCloseDone, StartInformer, Deliver, Submit,
           waiterVars, callVars
  <1>2. ASSUME Deliver
        PROVE  queue' \in [Waiters -> [Names -> {"none", "open", "closed"}]]
    <2> DEFINE e == Head(events)
               v == IF e.type = "add" THEN "create" ELSE e.type
    <2>1. e \in EventSet
      <3>1. events # <<>> /\ events \in Seq(EventSet)
        BY <1>2 DEF Deliver, DataTypes
      <3> QED
        BY <3>1
    <2>2. e.name \in Names /\ (e.type # "unknown" => v \in Waiters)
      BY <2>1 DEF EventSet, EventTypes, Waiters
    <2>3. UNCHANGED queue \/ (e.type # "unknown" /\ Submit(v, e.name))
      BY <1>2 DEF Deliver, waiterVars
    <2> HIDE DEF e, v
    <2>4. CASE UNCHANGED queue
      BY <2>4 DEF WaiterInv
    <2>5. ASSUME NEW w \in Waiters, NEW n \in Names, Submit(w, n)
          PROVE  queue' \in [Waiters -> [Names -> {"none", "open", "closed"}]]
      <3>1. queue' = [queue EXCEPT ![w][n] = IF queue[w][n] = "open" THEN "closed" ELSE queue[w][n]]
        BY <2>5 DEF Submit
      <3>2. queue[w][n] \in {"none", "open", "closed"}
        BY DEF WaiterInv
      <3> QED
        BY <3>1, <3>2 DEF WaiterInv
    <2> QED
      BY <2>2, <2>3, <2>4, <2>5
  <1>3. queue' \in [Waiters -> [Names -> {"none", "open", "closed"}]]
    <2>1. CASE ~Deliver
      <3>1. UNCHANGED queue
        BY <2>1 DEF Informer, EndInformer, Relist, OtherWrite, LoadList, OpenCloseDone, StartInformer, waiterVars
      <3> QED
        BY <3>1 DEF WaiterInv
    <2> QED
      BY <1>2, <2>1
  <1>4. \A w \in Waiters, n \in Names : Blocked(w, n)' = Blocked(w, n)
    BY <1>1 DEF Blocked, WaiterOf, Name
  <1> QED
    BY <1>1, <1>3, <1>4 DEF WaiterInv

LEMMA FlagTypes == Flags /\ Next => Flags'
  <1> SUFFICES ASSUME Flags, Next PROVE Flags'
    OBVIOUS
  <1>1. ASSUME NEW c \in Callers, (\E k \in Calls : Begin(c, k)) \/ CallStep(c) \/ TimeOut(c)
        PROVE  Flags'
    BY <1>1 DEF Flags, Begin, CallStep, CreateObject, GetOriginal, DeleteObject, PatchObject, CheckCondition,
       WakeUp, Cancel, AwaitEnd, TimeOut, ReturnClosed, Finish, Register, Unregister, ReturnLocked,
       waiterVars, closeVars
  <1>2. CASE Informer \/ EndInformer \/ Relist \/ \E op \in OtherOps, n \in Names : OtherWrite(op, n)
    BY <1>2 DEF Flags, Informer, EndInformer, Relist, OtherWrite, LoadList, OpenCloseDone, StartInformer, Deliver,
       Submit, waiterVars, closeVars
  <1> QED
    BY <1>1, <1>2 DEF Next

\* Without time-outs the reference counts of the waiters are the numbers of the
\* callers that wait, and so never negative (waiter.go:35-85).
THEOREM ClientTypeCorrect ==
  ASSUME ~Timeouts, IsFiniteSet(Callers)
  PROVE  Spec => []TypeOK
  <1>1. Init => TypeInv
    <2> SUFFICES ASSUME Init PROVE TypeInv
      OBVIOUS
    <2>1. uids \in Nat /\ Cardinality(Callers) \in Nat
      BY ClientAssumption, FS_CardinalityType DEF Init
    <2>2. Nothing \in Store /\ server \in Store
      BY ClientAssumption DEF Init, Nothing, Store
    <2>3. DataTypes
      BY <2>1, <2>2 DEF Init, DataTypes
    <2>4. CallInv
      BY DEF Init, CallInv, CallTypes, Attempts
    <2>5. \A w \in Waiters, n \in Names : Cardinality(Blocked(w, n)) = 0
      <3>1. \A w \in Waiters, n \in Names : Blocked(w, n) = {}
        BY DEF Init, Blocked
      <3> QED
        BY <3>1, FS_EmptySet
    <2>6. WaiterInv
      BY <2>1, <2>5 DEF Init, WaiterInv
    <2> QED
      BY <2>3, <2>4, <2>6 DEF Init, TypeInv, Flags
  <1>2. Inv /\ TypeInv /\ [Next]_vars => TypeInv'
    <2> SUFFICES ASSUME Inv, TypeInv, [Next]_vars PROVE TypeInv'
      OBVIOUS
    <2>1. Closing /\ DataTypes /\ CallInv /\ WaiterInv /\ Flags
      BY DEF Inv, TypeInv
    <2>2. CASE UNCHANGED vars
      <3>1. DataTypes' /\ Flags'
        BY <2>1, <2>2 DEF DataTypes, Flags, vars, apiVars, cacheVars, waiterVars, closeVars
      <3>2. CallInv'
        BY <2>1, <2>2 DEF CallInv, CallTypes, vars, callVars
      <3>3. WaiterInv'
        BY <2>1, <2>2, SameCounts DEF vars, callVars
      <3> QED
        BY <3>1, <3>2, <3>3 DEF TypeInv
    <2>3. ASSUME NEW c \in Callers, (\E k \in Calls : Begin(c, k)) \/ CallStep(c) \/ TimeOut(c)
          PROVE  DataTypes' /\ CallInv' /\ WaiterInv'
      BY <2>1, <2>3, CallerData, CallerTypes, CallerCounts
    <2>4. ASSUME Informer \/ EndInformer \/ Relist \/ \E op \in OtherOps, n \in Names : OtherWrite(op, n)
          PROVE  DataTypes' /\ CallInv' /\ WaiterInv'
      <3>1. DataTypes' /\ WaiterInv'
        BY <2>1, <2>4, InformerData, OtherData, InformerCounts
      <3>2. UNCHANGED <<pc, callVars>>
        BY <2>4 DEF Informer, EndInformer, Relist, OtherWrite, LoadList, OpenCloseDone, StartInformer, Deliver
      <3>3. CallInv'
        BY <2>1, <3>2 DEF CallInv, CallTypes, callVars
      <3> QED
        BY <3>1, <3>3
    <2> QED
      BY <2>1, <2>2, <2>3, <2>4, FlagTypes DEF Next, TypeInv
  <1>3. Inv /\ TypeInv => TypeOK
    BY DEF Inv, Reporting, Closing, TypeInv, DataTypes, CallInv, CallTypes, WaiterInv, Flags, TypeOK
  <1> QED
    BY <1>1, <1>2, <1>3, Invariance, PTL DEF Spec
-----------------------------------------------------------------------------
(* Calls that leave each other's objects alone.                            *)

\* Nobody else writes, and nobody gives up.
Private == OtherWriters = {} /\ ~Timeouts

\* A call is at work on an object.
Busy(c) == pc[c] \notin {"idle", "close", "closing"}

\* Callers are at work on different objects.
Apart == \A c, d \in Callers : c # d /\ Busy(c) /\ Busy(d) => Name(c) # Name(d)

\* The cache has what is on the server, and so it stays.
Settled(n) ==
  /\ objects[n] = server[n]
  /\ \A j \in 1..Len(events) : events[j].name = n => events[j].object = server[n]

\* The cache has the old object.  If the new one is reported, nothing else is
\* reported after it.
InTransit(n, old) ==
  /\ objects[n] = old
  /\ \E i \in 1..(Len(events) + 1) : \A j \in 1..Len(events) :
       events[j].name = n => events[j].object = IF j < i THEN old ELSE server[n]

\* The object that a call replaces.
Replaced(c) == IF call[c].op = "create" THEN NoObject ELSE original[c]

\* A call starts from what is on the server, and waits for what it wrote.
Wrote(c) ==
  /\ pc[c] \in {"patch", "delete"} => original[c] = server[Name(c)] /\ original[c] # NoObject
  /\ pc[c] = "delete" => call[c].op = "delete"
  /\ pc[c] \in {"wait", "blocked"} =>
       /\ call[c].op = "create" => server[Name(c)] # NoObject
       /\ call[c].op = "delete" => server[Name(c)] = NoObject /\ original[c] # NoObject
       /\ call[c].op \in Fields => /\ patched[c] /\ server[Name(c)] # NoObject /\ original[c] # NoObject
                                   /\ target[c].serial = original[c].serial + 1

\* Only the object that a call waits for is behind.
Caught(n) ==
  \/ Settled(n)
  \/ \E c \in Callers : pc[c] \in {"wait", "blocked"} /\ Name(c) = n /\ InTransit(n, Replaced(c))

SyncInv ==
  /\ \A c \in Callers : Wrote(c) /\ (pc[c] # "idle" => phase # "list")
  /\ phase # "list" => \A n \in Names : Caught(n)

\* The other callers stay where they are.
OthersAsBefore(c) ==
  \A d \in Callers \ {c} : /\ pc'[d] = pc[d] /\ call'[d] = call[d] /\ original'[d] = original[d]
                           /\ target'[d] = target[d] /\ patched'[d] = patched[d]

LEMMA OthersAreAsBefore ==
  ASSUME Closing, CallTypes, NEW c \in Callers, (\E k \in Calls : Begin(c, k)) \/ CallStep(c)
  PROVE  OthersAsBefore(c)
  BY DEF Begin, CallStep, CreateObject, GetOriginal, DeleteObject, PatchObject, CheckCondition, WakeUp, Cancel,
         AwaitEnd, ReturnClosed, WaitFor, Finish, Register, ReturnLocked, Return, Goto, callVars,
         Closing, CallTypes, OthersAsBefore

\* An object that a call has yet to write is settled.
LEMMA NotAwaited ==
  ASSUME Apart, SyncInv, phase # "list", NEW c \in Callers, Busy(c), pc[c] \notin {"wait", "blocked"}, Name(c) \in Names
  PROVE  Settled(Name(c))
  BY DEF Apart, Busy, SyncInv, Caught

\* A call is made after the first list.
LEMMA AtWorkSync ==
  ASSUME SyncInv, NEW c \in Callers, pc[c] # "idle"
  PROVE  phase # "list"
  BY DEF SyncInv

\* What the other calls have relied on they still can.
LEMMA OthersWrote ==
  ASSUME SyncInv, NEW c \in Callers, OthersAsBefore(c), NEW d \in Callers \ {c},
         Busy(d) => server'[Name(d)] = server[Name(d)]
  PROVE  Wrote(d)' /\ (pc'[d] # "idle" => phase # "list")
  <1>1. /\ pc'[d] = pc[d] /\ call'[d] = call[d] /\ original'[d] = original[d]
        /\ target'[d] = target[d] /\ patched'[d] = patched[d]
    BY DEF OthersAsBefore
  <1>2. Wrote(d) /\ (pc[d] # "idle" => phase # "list")
    BY DEF SyncInv
  <1>3. Name(d)' = Name(d)
    BY <1>1 DEF Name
  <1>4. pc[d] \in {"patch", "delete", "wait", "blocked"} => server'[Name(d)] = server[Name(d)]
    BY DEF Busy
  <1> QED
    BY <1>1, <1>2, <1>3, <1>4 DEF Wrote

LEMMA OthersWait ==
  ASSUME NEW c \in Callers, OthersAsBefore(c), NEW n \in Names, NEW d \in Callers \ {c},
         pc[d] \in {"wait", "blocked"}, Name(d) = n,
         \A old : InTransit(n, old) => InTransit(n, old)', InTransit(n, Replaced(d))
  PROVE  Caught(n)'
  <1>1. PICK old : old = Replaced(d)
    OBVIOUS
  <1>2. pc'[d] = pc[d] /\ call'[d] = call[d] /\ original'[d] = original[d]
    BY DEF OthersAsBefore
  <1>3. Replaced(d)' = old /\ Name(d)' = n
    BY <1>1, <1>2 DEF Replaced, Name
  <1>4. InTransit(n, old)'
    BY <1>1
  <1>5. InTransit(n, Replaced(d))'
    BY <1>3, <1>4 DEF InTransit
  <1> QED
    BY <1>2, <1>3, <1>5 DEF Caught

\* Nothing is written or reported, and the caller does not wait afterwards.
LEMMA QuietSync ==
  ASSUME SyncInv, NEW c \in Callers, phase # "list", UNCHANGED <<server, objects, events, phase>>,
         OthersAsBefore(c), pc[c] \in {"wait", "blocked"} => Settled(Name(c)), Wrote(c)'
  PROVE  SyncInv'
  <1>1. ASSUME NEW n \in Names PROVE Caught(n)'
    <2>1. CASE Settled(n)
      BY <2>1 DEF Caught, Settled
    <2>2. ASSUME NEW d \in Callers, pc[d] \in {"wait", "blocked"}, Name(d) = n, InTransit(n, Replaced(d)), ~Settled(n)
          PROVE  Caught(n)'
      <3>1. d # c
        BY <2>2
      <3>2. \A old : InTransit(n, old) => InTransit(n, old)'
        BY DEF InTransit
      <3> QED
        BY <2>2, <3>1, <3>2, OthersWait
    <2>3. Caught(n)
      BY DEF SyncInv
    <2> QED
      BY <2>1, <2>2, <2>3 DEF Caught
  <1>2. \A d \in Callers \ {c} : Wrote(d)' /\ (pc'[d] # "idle" => phase # "list")
    BY OthersWrote
  <1> QED
    BY <1>1, <1>2 DEF SyncInv

LEMMA ReturnSync ==
  ASSUME SyncInv, Closing, NEW c \in Callers, phase # "list", UNCHANGED <<server, objects, events, phase>>,
         OthersAsBefore(c), pc[c] \in {"wait", "blocked"} => Settled(Name(c)), Return(c)
  PROVE  SyncInv'
  <1>1. pc'[c] = "idle"
    BY DEF Return, Closing
  <1>2. Wrote(c)'
    BY <1>1 DEF Wrote
  <1> QED
    BY <1>2, QuietSync

LEMMA BeginSync ==
  ASSUME SyncInv, Closing, CallTypes, NEW c \in Callers, NEW k \in Calls, Begin(c, k)
  PROVE  SyncInv'
  <1>1. /\ pc[c] = "idle" /\ phase # "list"
        /\ pc'[c] = IF k.op \in {"create", "close"} THEN k.op ELSE "get"
        /\ UNCHANGED <<server, objects, events, phase>>
    BY ClientAssumption DEF Begin, Goto, Closing, apiVars, cacheVars
  <1>2. Wrote(c)'
    BY <1>1 DEF Wrote
  <1> QED
    BY <1>1, <1>2, OthersAreAsBefore, QuietSync

LEMMA GetSync ==
  ASSUME Apart, SyncInv, Closing, VersionInv, NEW c \in Callers, GetOriginal(c)
  PROVE  SyncInv'
  <1>1. /\ pc[c] = "get" /\ Busy(c) /\ phase # "list"
        /\ UNCHANGED <<server, objects, events, phase>>
    BY AtWorkSync DEF GetOriginal, apiVars, cacheVars, Busy
  <1>2. OthersAsBefore(c)
    BY OthersAreAsBefore DEF CallStep, VersionInv
  <1>3. CASE Return(c)
    BY <1>1, <1>2, <1>3, ReturnSync
  <1>4. CASE UNCHANGED <<pc, callVars>>
    <2>1. Wrote(c)'
      BY <1>1, <1>4 DEF Wrote
    <2> QED
      BY <1>1, <1>2, <2>1, QuietSync
  <1>5. CASE /\ objects[Name(c)] # NoObject
             /\ original' = [original EXCEPT ![c] = objects[Name(c)]]
             /\ Goto(c, IF call[c].op = "delete" THEN "delete" ELSE "patch")
             /\ UNCHANGED <<call, target, patched, tries, crashed>>
    <2>1. PICK n \in Names : n = Name(c)
      BY <1>1, AtWork DEF VersionInv
    <2>2. Settled(n)
      BY <1>1, <2>1, NotAwaited
    <2>3. /\ original'[c] = server[n] /\ original'[c] # NoObject /\ call' = call
          /\ pc'[c] \in {"delete", "patch"} /\ (pc'[c] = "delete" => call[c].op = "delete")
      BY <1>5, <2>1, <2>2 DEF VersionInv, CallTypes, Goto, Closing, Settled
    <2>4. Wrote(c)'
      BY <1>1, <2>1, <2>3 DEF Wrote, Name
    <2> QED
      BY <1>1, <1>2, <2>4, QuietSync
  <1> QED
    BY <1>3, <1>4, <1>5 DEF GetOriginal

\* A write is reported, if it is, behind everything that confirms the version
\* before.
LEMMA WriteSync ==
  ASSUME DataInv, NEW n \in Names, NEW new \in Object \cup {NoObject}, Write(n, new), UNCHANGED objects
  PROVE  /\ server'[n] = new
         /\ \A m \in Names \ {n} : /\ server'[m] = server[m]
                                   /\ Settled(m) => Settled(m)'
                                   /\ \A old : InTransit(m, old) => InTransit(m, old)'
         /\ \A old : old = server[n] /\ Settled(n) => InTransit(n, old)'
  <1> DEFINE e == Event(n, server[n], new)
  <1>1. e \in EventSet /\ e.name = n /\ e.object = new
    BY DEF Event, EventSet, EventTypes
  <1>2. /\ events' = Append(events, e) \/ events' = events
        /\ events \in Seq(EventSet) /\ server'[n] = new /\ \A m \in Names \ {n} : server'[m] = server[m]
    BY DEF Write, Put, DataInv, VersionTypes, Store
  <1> HIDE DEF e
  <1>3. /\ Len(events) \in Nat /\ Len(events') \in Nat /\ Len(events') >= Len(events)
        /\ \A j \in 1..Len(events') : \/ j \in 1..Len(events) /\ events'[j] = events[j]
                                      \/ j = Len(events) + 1 /\ events'[j] = e
    <2>1. CASE events' = events
      BY <1>2, <2>1
    <2>2. CASE events' = Append(events, e)
      BY <1>1, <1>2, <2>2
    <2> QED
      BY <1>2, <2>1, <2>2
  <1>4. ASSUME NEW m \in Names \ {n}, Settled(m)
        PROVE  Settled(m)'
    BY <1>1, <1>2, <1>3, <1>4 DEF Settled
  <1>5. ASSUME NEW m \in Names \ {n}, NEW old, InTransit(m, old)
        PROVE  InTransit(m, old)'
    <2>1. PICK i \in 1..(Len(events) + 1) : \A j \in 1..Len(events) :
            events[j].name = m => events[j].object = IF j < i THEN old ELSE server[m]
      BY <1>5 DEF InTransit
    <2>2. i \in 1..(Len(events') + 1)
      BY <1>3
    <2>3. \A j \in 1..Len(events') : events'[j].name = m => events'[j].object = IF j < i THEN old ELSE server'[m]
      BY <1>1, <1>2, <1>3, <2>1
    <2> QED
      BY <1>5, <2>2, <2>3 DEF InTransit
  <1>6. ASSUME NEW old, old = server[n], Settled(n)
        PROVE  InTransit(n, old)'
    <2>1. objects[n] = old /\ \A j \in 1..Len(events) : events[j].name = n => events[j].object = old
      BY <1>6 DEF Settled
    <2>2. Len(events) + 1 \in 1..(Len(events') + 1)
      BY <1>3
    <2>3. \A j \in 1..Len(events') :
            events'[j].name = n => events'[j].object = IF j < Len(events) + 1 THEN old ELSE server'[n]
      <3> SUFFICES ASSUME NEW j \in 1..Len(events'), events'[j].name = n
                   PROVE  events'[j].object = IF j < Len(events) + 1 THEN old ELSE server'[n]
        OBVIOUS
      <3>1. CASE j \in 1..Len(events) /\ events'[j] = events[j]
        BY <1>3, <2>1, <3>1
      <3>2. CASE j = Len(events) + 1 /\ events'[j] = e
        BY <1>1, <1>2, <1>3, <3>2
      <3> QED
        BY <1>3, <3>1, <3>2
    <2> QED
      BY <2>1, <2>2, <2>3 DEF InTransit
  <1> QED
    BY <1>2, <1>4, <1>5, <1>6

\* The caller begins to wait for what it has written.
LEMMA WaitSync ==
  ASSUME Apart, SyncInv, Closing, VersionInv, NEW c \in Callers, pc[c] \in {"create", "delete", "patch"},
         NEW new \in Object \cup {NoObject}, Write(Name(c), new), NEW t, WaitFor(c, t), OthersAsBefore(c),
         UNCHANGED <<objects, phase>>, Replaced(c) = server[Name(c)], Wrote(c)'
  PROVE  SyncInv'
  <1>1. PICK n \in Names : n = Name(c)
    BY AtWork DEF VersionInv
  <1>2. phase # "list" /\ Busy(c) /\ Settled(n)
    BY <1>1, AtWorkSync, NotAwaited DEF Busy
  <1>3. pc'[c] = "wait" /\ call' = call /\ original' = original
    BY DEF WaitFor, Goto, Closing
  <1>4. /\ \A m \in Names \ {n} : /\ server'[m] = server[m]
                                  /\ Settled(m) => Settled(m)'
                                  /\ \A old : InTransit(m, old) => InTransit(m, old)'
        /\ \A old : old = server[n] /\ Settled(n) => InTransit(n, old)'
    BY <1>1, WriteSync DEF VersionInv
  <1>5. \A d \in Callers \ {c} : Wrote(d)' /\ (pc'[d] # "idle" => phase # "list")
    <2> TAKE d \in Callers \ {c}
    <2>1. ASSUME Busy(d) PROVE server'[Name(d)] = server[Name(d)]
      <3>1. Name(d) \in Names
        BY <2>1, AtWork DEF VersionInv, Busy
      <3>2. Name(d) # n
        BY <1>1, <1>2, <2>1 DEF Apart
      <3> QED
        BY <1>4, <3>1, <3>2
    <2> QED
      BY <2>1, OthersWrote
  <1>6. Caught(n)'
    <2>1. PICK old : old = Replaced(c)
      OBVIOUS
    <2>2. InTransit(n, old)'
      BY <1>1, <1>2, <1>4, <2>1
    <2>3. Replaced(c)' = old /\ Name(c)' = n
      BY <1>1, <1>3, <2>1 DEF Replaced, Name
    <2>4. InTransit(n, Replaced(c))'
      BY <2>2, <2>3 DEF InTransit
    <2> QED
      BY <1>3, <2>3, <2>4 DEF Caught
  <1>7. ASSUME NEW m \in Names \ {n} PROVE Caught(m)'
    <2>1. CASE Settled(m)
      BY <1>4, <2>1 DEF Caught
    <2>2. ASSUME NEW d \in Callers, pc[d] \in {"wait", "blocked"}, Name(d) = m, InTransit(m, Replaced(d))
          PROVE  Caught(m)'
      <3>1. d # c
        BY <1>1, <2>2
      <3>2. \A old : InTransit(m, old) => InTransit(m, old)'
        BY <1>4
      <3> QED
        BY <2>2, <3>1, <3>2, OthersWait
    <2>3. Caught(m)
      BY <1>2 DEF SyncInv
    <2> QED
      BY <2>1, <2>2, <2>3 DEF Caught
  <1> QED
    BY <1>2, <1>5, <1>6, <1>7 DEF SyncInv

LEMMA CreateSync ==
  ASSUME Apart, SyncInv, Closing, VersionInv, NEW c \in Callers, CreateObject(c)
  PROVE  SyncInv'
  <1>0. OthersAsBefore(c)
    BY OthersAreAsBefore DEF CallStep, VersionInv
  <1>1. /\ pc[c] = "create" /\ call[c].op = "create"
        /\ UNCHANGED <<objects, phase>>
    BY DEF CreateObject, cacheVars, VersionInv, CallerOK
  <1>2. CASE Return(c) /\ UNCHANGED apiVars
    BY <1>1, <1>2, <1>0, AtWorkSync, ReturnSync DEF apiVars
  <1>3. CASE server[Name(c)] = NoObject /\ Write(Name(c), NewObject) /\ WaitFor(c, NewObject)
    <2>1. PICK new \in Object : new = NewObject
      <3>1. uids + 1 \in Nat
        BY DEF VersionInv, DataInv, VersionTypes
      <3> QED
        BY <3>1, Versions, ClientAssumption DEF NewObject, Object
    <2>2. Replaced(c) = server[Name(c)]
      BY <1>1, <1>3 DEF Replaced
    <2>3. PICK n \in Names : n = Name(c)
      BY <1>1, AtWork DEF VersionInv
    <2>4. pc'[c] = "wait" /\ call' = call /\ server'[n] = new /\ new # NoObject
      BY <1>3, <2>1, <2>3, ClientAssumption DEF WaitFor, Goto, Closing, Write, Put, VersionInv, DataInv, VersionTypes, Store
    <2>5. Wrote(c)'
      BY <1>1, <2>3, <2>4 DEF Wrote, Name, Fields
    <2> QED
      BY <1>1, <1>3, <2>1, <2>2, <2>5, <1>0, WaitSync
  <1> QED
    BY <1>2, <1>3 DEF CreateObject

LEMMA DeleteSync ==
  ASSUME Apart, SyncInv, Closing, VersionInv, NEW c \in Callers, DeleteObject(c)
  PROVE  SyncInv'
  <1>0. OthersAsBefore(c)
    BY OthersAreAsBefore DEF CallStep, VersionInv
  <1>1. /\ pc[c] = "delete"
        /\ UNCHANGED <<objects, phase>>
    BY DEF DeleteObject, cacheVars
  <1>2. original[c] = server[Name(c)] /\ original[c] # NoObject
    BY <1>1 DEF SyncInv, Wrote
  <1>3. CASE Return(c) /\ UNCHANGED apiVars
    BY <1>1, <1>3, <1>0, AtWorkSync, ReturnSync DEF apiVars
  <1>4. CASE Write(Name(c), NoObject) /\ WaitFor(c, original[c])
    <2>1. call[c].op \in Fields \cup {"delete"}
      BY <1>1 DEF VersionInv, CallerOK
    <2>2. Replaced(c) = server[Name(c)]
      BY <1>2, <2>1 DEF Replaced, Fields
    <2>3. PICK n \in Names : n = Name(c)
      BY <1>1, AtWork DEF VersionInv
    <2>4. pc'[c] = "wait" /\ call' = call /\ original' = original /\ server'[n] = NoObject
      BY <1>4, <2>3 DEF WaitFor, Goto, Closing, Write, Put, VersionInv, DataInv, VersionTypes, Store
    <2>5. call[c].op = "delete"
      BY <1>1 DEF SyncInv, Wrote
    <2>6. Wrote(c)'
      BY <1>2, <2>3, <2>4, <2>5 DEF Wrote, Name, Fields
    <2> QED
      BY <1>1, <1>4, <2>2, <2>6, <1>0, WaitSync
  <1> QED
    BY <1>3, <1>4 DEF DeleteObject

LEMMA PatchSync ==
  ASSUME Apart, SyncInv, Closing, VersionInv, NoWrap, NEW c \in Callers, PatchObject(c)
  PROVE  SyncInv'
  <1>0. OthersAsBefore(c)
    BY OthersAreAsBefore DEF CallStep, VersionInv
  <1> DEFINE new == Mutate(original[c], call[c])
             written == [new EXCEPT !.uid = server[Name(c)].uid]
  <1>1. /\ pc[c] = "patch" /\ call[c].op \in Fields
        /\ UNCHANGED <<objects, phase>>
    BY DEF PatchObject, cacheVars, VersionInv, CallerOK
  <1>2. PICK n \in Names : n = Name(c) /\ call[c].value \in Values \cup {Blank}
    BY <1>1, AtWork DEF VersionInv
  <1>3. original[c] = server[n] /\ server[n] \in Object /\ server[n] # NoObject /\ server[n].serial < SerialModulus - 1
    BY <1>1, <1>2 DEF SyncInv, Wrote, VersionInv, DataInv, VersionTypes, Store, NoWrap
  <1>4. new \in Object /\ new.serial = original[c].serial + 1
    BY <1>2, <1>3, Mutated
  <1>5. CASE Return(c) /\ UNCHANGED apiVars
    BY <1>1, <1>5, <1>0, AtWorkSync, ReturnSync DEF apiVars
  <1>6. CASE Write(Name(c), written) /\ WaitFor(c, new) /\ patched' = [patched EXCEPT ![c] = TRUE]
    <2>1. PICK t \in Object : t = new
      BY <1>4
    <2>2. PICK w \in Object : w = written
      <3> HIDE DEF new
      <3> QED
        BY <1>2, <1>3, <1>4 DEF Object
    <2>3. Replaced(c) = server[Name(c)]
      BY <1>1, <1>2, <1>3 DEF Replaced, Fields
    <2> HIDE DEF new, written
    <2>4. /\ pc'[c] = "wait" /\ call' = call /\ original' = original /\ server'[n] = w /\ w # NoObject
          /\ target'[c] = t /\ patched'[c]
      BY <1>2, <1>6, <2>1, <2>2, Versions
         DEF WaitFor, Goto, Closing, Write, Put, VersionInv, DataInv, VersionTypes, Store, CallTypes
    <2>5. Wrote(c)'
      BY <1>1, <1>2, <1>3, <1>4, <2>1, <2>4 DEF Wrote, Name, Fields
    <2> QED
      BY <1>1, <1>2, <1>6, <2>1, <2>2, <2>3, <2>5, <1>0, WaitSync
  <1>7. CASE server[Name(c)].serial # original[c].serial
    BY <1>2, <1>3, <1>7
  <1> QED
    BY <1>5, <1>6, <1>7 DEF PatchObject

\* The condition does not hold before the write is reported, nor fail.
LEMMA ConditionSync ==
  ASSUME Apart, SyncInv, VersionInv, NEW c \in Callers, pc[c] \in {"wait", "blocked"}
  PROVE  /\ ~ConditionFails(c)
         /\ ConditionHolds(c) => Settled(Name(c))
         /\ WaiterOf(c) = "update" => patched[c]
  <1>1. PICK n \in Names : n = Name(c)
    BY AtWork DEF VersionInv
  <1>2. call[c].op \in Fields \cup {"create", "delete"} /\ phase # "list"
    BY AtWork, AtWorkSync DEF VersionInv, CallerOK
  <1>3. WaiterOf(c) = "update" <=> call[c].op \in Fields
    BY <1>2 DEF WaiterOf, Fields
  <1>4. Settled(n) \/ InTransit(n, Replaced(c))
    BY <1>1, <1>2 DEF SyncInv, Caught, Apart, Busy
  <1>6. WaiterOf(c) = "update" => /\ patched[c] /\ server[n] # NoObject /\ original[c] # NoObject
                                  /\ target[c].serial = original[c].serial + 1
    BY <1>1, <1>3 DEF SyncInv, Wrote
  <1>7. ~ConditionFails(c)
    BY <1>1, <1>3, <1>4, <1>6 DEF ConditionFails, Settled, InTransit, Replaced, Fields
  <1>8. ASSUME ConditionHolds(c), InTransit(n, Replaced(c))
        PROVE  FALSE
    <2>1. objects[n] = Replaced(c)
      BY <1>8 DEF InTransit
    <2>2. CASE call[c].op = "create"
      BY <1>1, <1>8, <2>1, <2>2 DEF Replaced, ConditionHolds, WaiterOf
    <2>3. CASE call[c].op = "delete"
      BY <1>1, <1>8, <2>1, <2>3 DEF Replaced, ConditionHolds, WaiterOf, SyncInv, Wrote
    <2>4. CASE call[c].op \in Fields
      <3>1. objects[n].serial >= target[c].serial /\ objects[n] = original[c]
        BY <1>1, <1>3, <1>8, <2>1, <2>4 DEF Replaced, ConditionHolds, Fields
      <3>2. original[c].serial \in Nat
        BY <1>3, <1>6, <2>4, Records DEF VersionInv, CallTypes
      <3> QED
        BY <1>3, <1>6, <2>4, <3>1, <3>2
    <2> QED
      BY <1>2, <2>2, <2>3, <2>4
  <1> QED
    BY <1>1, <1>4, <1>6, <1>7, <1>8

\* The caller goes on waiting.
LEMMA StillSync ==
  ASSUME SyncInv, NEW c \in Callers, OthersAsBefore(c), UNCHANGED <<apiVars, objects, phase, callVars>>,
         pc[c] \in {"wait", "blocked"}, pc'[c] \in {"wait", "blocked"}
  PROVE  SyncInv'
  <1>1. Wrote(c)'
    BY DEF SyncInv, Wrote, Name, apiVars, callVars
  <1>2. \A d \in Callers \ {c} : Wrote(d)' /\ (pc'[d] # "idle" => phase # "list")
    BY OthersWrote DEF apiVars
  <1>3. \A n \in Names : Caught(n)'
    <2> TAKE n \in Names
    <2>1. CASE Settled(n)
      BY <2>1 DEF Caught, Settled, apiVars
    <2>2. CASE Name(c) = n /\ InTransit(n, Replaced(c))
      BY <2>2 DEF Caught, InTransit, Replaced, Name, apiVars, callVars
    <2>3. ASSUME NEW d \in Callers \ {c}, pc[d] \in {"wait", "blocked"}, Name(d) = n, InTransit(n, Replaced(d))
          PROVE  Caught(n)'
      <3>1. \A old : InTransit(n, old) => InTransit(n, old)'
        BY DEF InTransit, apiVars
      <3> QED
        BY <2>3, <3>1, OthersWait
    <2>4. Caught(n)
      BY AtWorkSync DEF SyncInv
    <2> QED
      BY <2>1, <2>2, <2>3, <2>4 DEF Caught
  <1> QED
    BY <1>1, <1>2, <1>3, AtWorkSync DEF SyncInv

LEMMA WaitingSync ==
  ASSUME Apart, SyncInv, Closing, VersionInv, NEW c \in Callers, CheckCondition(c) \/ WakeUp(c)
  PROVE  SyncInv'
  <1>0. OthersAsBefore(c)
    BY OthersAreAsBefore DEF CallStep, VersionInv
  <1>1. /\ pc[c] \in {"wait", "blocked"} /\ ~ConditionFails(c)
        /\ UNCHANGED <<apiVars, objects, phase>>
    BY ConditionSync DEF CheckCondition, WakeUp, cacheVars
  <1>2. CASE ConditionHolds(c) /\ Finish(c)
    <2>1. Return(c)
      BY <1>1, <1>2, ConditionSync DEF Finish
    <2> QED
      BY <1>0, <1>1, <1>2, <2>1, AtWorkSync, ConditionSync, ReturnSync DEF apiVars
  <1>3. CASE Register(c)
    <2>1. pc'[c] = "blocked" /\ UNCHANGED callVars
      BY <1>3 DEF Register, Goto, Closing
    <2> QED
      BY <1>0, <1>1, <2>1, StillSync
  <1>4. CASE UNCHANGED <<pc, callVars>>
    BY <1>0, <1>1, <1>4, StillSync
  <1> QED
    BY <1>1, <1>2, <1>3, <1>4 DEF CheckCondition, WakeUp

LEMMA CloseSync ==
  ASSUME SyncInv, Closing, CallTypes, NEW c \in Callers, Cancel(c) \/ AwaitEnd(c)
  PROVE  SyncInv'
  <1>1. /\ UNCHANGED <<server, objects, events, phase>>
        /\ pc[c] \in {"close", "closing"} /\ phase # "list"
    BY DEF Cancel, AwaitEnd, apiVars, cacheVars, Closing
  <1>2. OthersAsBefore(c)
    BY OthersAreAsBefore DEF CallStep
  <1>3. CASE Return(c)
    BY <1>1, <1>2, <1>3, ReturnSync
  <1>4. CASE Goto(c, "closing")
    <2>1. pc'[c] = "closing"
      BY <1>4 DEF Goto, Closing
    <2>2. Wrote(c)'
      BY <2>1 DEF Wrote
    <2> QED
      BY <1>1, <1>2, <2>2, QuietSync
  <1> QED
    BY <1>3, <1>4 DEF Cancel, AwaitEnd, ReturnClosed

\* The first list: all callers are idle still.
LEMMA LoadSync ==
  ASSUME SyncInv, Reporting, LoadList
  PROVE  SyncInv'
  <1>1. /\ phase = "list" /\ phase' = "watch" /\ objects' = server
        /\ UNCHANGED <<server, events, pc, callVars>> /\ events = <<>>
    BY DEF LoadList, Reporting, apiVars
  <1>2. \A c \in Callers : pc[c] = "idle"
    BY <1>1 DEF SyncInv
  <1>3. \A c \in Callers : Wrote(c)'
    BY <1>1, <1>2 DEF Wrote
  <1>4. \A n \in Names : Caught(n)'
    BY <1>1 DEF Caught, Settled
  <1> QED
    BY <1>1, <1>3, <1>4 DEF SyncInv

\* Neither the server nor the cache changes, and what there is to report is
\* what is on the server, or was to be reported before.
LEMMA ReportSync ==
  ASSUME SyncInv, UNCHANGED <<server, objects, pc, callVars>>, phase # "list", phase' # "list",
         \A n \in Names : Settled(n) => Settled(n)',
         \A n \in Names : \A old : InTransit(n, old) => InTransit(n, old)'
  PROVE  SyncInv'
  <1>1. \A c \in Callers : Wrote(c)'
    BY DEF SyncInv, Wrote, Name, callVars
  <1>2. \A n \in Names : Caught(n)'
    <2> TAKE n \in Names
    <2>1. CASE Settled(n)
      BY <2>1 DEF Caught
    <2>2. ASSUME NEW c \in Callers, pc[c] \in {"wait", "blocked"}, Name(c) = n, InTransit(n, Replaced(c))
          PROVE  Caught(n)'
      <3>1. PICK old : old = Replaced(c)
        OBVIOUS
      <3>2. Replaced(c)' = old /\ Name(c)' = n /\ pc'[c] \in {"wait", "blocked"}
        BY <2>2, <3>1 DEF Replaced, Name, callVars
      <3>3. InTransit(n, old)'
        BY <2>2, <3>1
      <3>4. InTransit(n, Replaced(c))'
        BY <3>2, <3>3 DEF InTransit
      <3> QED
        BY <3>2, <3>4 DEF Caught
    <2>3. Caught(n)
      BY DEF SyncInv
    <2> QED
      BY <2>1, <2>2, <2>3 DEF Caught
  <1> QED
    BY <1>1, <1>2 DEF SyncInv

\* What the informer forgets is not missed but by the call that waits for it.
LEMMA IdleSync ==
  ASSUME SyncInv, DataInv, OpenCloseDone \/ EndInformer
  PROVE  SyncInv'
  <1>1. /\ UNCHANGED <<server, objects, pc, callVars>> /\ phase # "list" /\ phase' # "list"
        /\ events' = events \/ events' = <<>>
    BY DEF OpenCloseDone, EndInformer, apiVars
  <1>2. \A n \in Names : Settled(n) => Settled(n)'
    BY <1>1 DEF Settled
  <1>3. ASSUME NEW n \in Names, NEW old, InTransit(n, old)
        PROVE  InTransit(n, old)'
    <2>1. CASE events' = events
      BY <1>1, <1>3, <2>1 DEF InTransit
    <2>2. CASE events' = <<>>
      BY <1>1, <1>3, <2>2 DEF InTransit
    <2> QED
      BY <1>1, <2>1, <2>2
  <1> QED
    BY <1>1, <1>2, <1>3, ReportSync

\* The informer's own list has what is on the server.
LEMMA StartSync ==
  ASSUME SyncInv, DataInv, StartInformer
  PROVE  SyncInv'
  <1> DEFINE present == {n \in Names : server[n] # NoObject}
  <1>1. PICK order \in [1..Cardinality(present) -> present] :
          events' = [i \in DOMAIN order |-> Event(order[i], NoObject, server[order[i]])]
    BY DEF StartInformer
  <1>2. Cardinality(present) \in Nat
    <2>1. IsFiniteSet(present)
      BY ClientAssumption, FS_Subset
    <2> QED
      BY <2>1, FS_CardinalityType
  <1>3. phase # "list" /\ phase' # "list" /\ UNCHANGED <<server, objects, pc, callVars>>
    BY DEF StartInformer
  <1> HIDE DEF present
  <1>4. Len(events') \in Nat /\ \A i \in 1..Len(events') : events'[i].object = server[events'[i].name]
    <2>1. events' = [i \in 1..Cardinality(present) |-> Event(order[i], NoObject, server[order[i]])]
      BY <1>1
    <2>2. Len(events') = Cardinality(present)
      BY <1>2, <2>1
    <2>3. ASSUME NEW i \in 1..Len(events')
          PROVE  events'[i].object = server[events'[i].name]
      <3>1. events'[i] = Event(order[i], NoObject, server[order[i]])
        BY <2>1, <2>2
      <3> QED
        BY <3>1 DEF Event
    <2> QED
      BY <1>2, <2>2, <2>3
  <1>5. \A n \in Names : Settled(n) => Settled(n)'
    BY <1>3, <1>4 DEF Settled
  <1>6. ASSUME NEW n \in Names, NEW old, InTransit(n, old)
        PROVE  InTransit(n, old)'
    <2>1. 1 \in 1..(Len(events') + 1) /\ \A j \in 1..Len(events') : ~(j < 1)
      BY <1>4
    <2>2. \A j \in 1..Len(events') : events'[j].name = n => events'[j].object = server'[n]
      BY <1>3, <1>4
    <2> QED
      BY <1>3, <1>6, <2>1, <2>2 DEF InTransit
  <1> QED
    BY <1>3, <1>5, <1>6, ReportSync

\* A new list reports what is on the server behind what is to be reported
\* still, or nothing.
LEMMA RelistSync ==
  ASSUME SyncInv, DataInv, Relist
  PROVE  SyncInv'
  <1>1. /\ UNCHANGED <<server, objects, pc, callVars, phase>> /\ events \in Seq(EventSet) /\ phase # "list"
    BY DEF Relist, cacheVars, DataInv, VersionTypes
  <1>2. PICK k \in 0..Len(events), m \in Names, e \in EventSet :
          /\ e.name = m /\ e.object = server[m]
          /\ events' = SubSeq(events, 1, k) \/ events' = Append(SubSeq(events, 1, k), e)
    <2> DEFINE Found(n, known) ==
                 [Event(n, known, server[n]) EXCEPT !.type = IF @ = "delete" THEN "unknown" ELSE @]
    <2>1. PICK k \in 0..Len(events), n \in Names :
            \E known : events' = SubSeq(events, 1, k) \/ events' = Append(SubSeq(events, 1, k), Found(n, known))
      BY DEF Relist
    <2>2. server[n] \in Object \cup {NoObject}
      BY DEF DataInv, VersionTypes, Store
    <2>3. \A known : Found(n, known) \in EventSet /\ Found(n, known).name = n /\ Found(n, known).object = server[n]
      BY <2>2 DEF Event, EventSet, EventTypes
    <2> HIDE DEF Found
    <2> QED
      BY <2>1, <2>3
  <1>3. /\ SubSeq(events, 1, k) \in Seq(EventSet) /\ Len(SubSeq(events, 1, k)) = k
        /\ \A i \in 1..k : i \in 1..Len(events) /\ SubSeq(events, 1, k)[i] = events[i]
    BY <1>1
  <1>4. /\ Len(events') \in {k, k + 1} /\ k \in Nat
        /\ \A j \in 1..Len(events') : \/ j \in 1..k /\ j \in 1..Len(events) /\ events'[j] = events[j]
                                      \/ j = k + 1 /\ events'[j] = e
    <2> DEFINE kept == SubSeq(events, 1, k)
    <2>1. kept \in Seq(EventSet) /\ Len(kept) = k /\ k \in Nat /\ (events' = kept \/ events' = Append(kept, e))
      BY <1>2, <1>3
    <2>2. \A i \in 1..k : i \in 1..Len(events) /\ kept[i] = events[i]
      BY <1>3
    <2> HIDE DEF kept
    <2>3. CASE events' = kept
      BY <2>1, <2>2, <2>3
    <2>4. CASE events' = Append(kept, e)
      <3>1. Len(events') = k + 1 /\ events'[k + 1] = e /\ \A i \in 1..k : events'[i] = kept[i]
        BY <2>1, <2>4
      <3> QED
        BY <2>1, <2>2, <3>1
    <2> QED
      BY <2>1, <2>3, <2>4
  <1>5. \A n \in Names : Settled(n) => Settled(n)'
    BY <1>1, <1>2, <1>4 DEF Settled
  <1>6. ASSUME NEW n \in Names, NEW old, InTransit(n, old)
        PROVE  InTransit(n, old)'
    <2>1. PICK i \in 1..(Len(events) + 1) : \A j \in 1..Len(events) :
            events[j].name = n => events[j].object = IF j < i THEN old ELSE server[n]
      BY <1>6 DEF InTransit
    <2>2. PICK h \in 1..(k + 1) : h = IF i <= k THEN i ELSE k + 1
      BY <1>4
    <2>3. \A j \in 1..Len(events') : events'[j].name = n => events'[j].object = IF j < h THEN old ELSE server'[n]
      <3> SUFFICES ASSUME NEW j \in 1..Len(events'), events'[j].name = n
                   PROVE  events'[j].object = IF j < h THEN old ELSE server'[n]
        OBVIOUS
      <3>1. CASE j \in 1..k /\ j \in 1..Len(events) /\ events'[j] = events[j]
        <4>1. j < h <=> j < i
          BY <2>2, <3>1
        <4> QED
          BY <1>1, <2>1, <3>1, <4>1
      <3>2. CASE j = k + 1 /\ events'[j] = e
        <4>1. ~(j < h)
          BY <2>2, <3>2
        <4> QED
          BY <1>1, <1>2, <3>2, <4>1
      <3> QED
        BY <1>4, <3>1, <3>2
    <2>4. h \in 1..(Len(events') + 1)
      BY <1>4, <2>2
    <2> QED
      BY <1>1, <1>6, <2>3, <2>4 DEF InTransit
  <1> QED
    BY <1>1, <1>5, <1>6, ReportSync

\* What is reported is the version that the cache has, or the awaited one.
LEMMA DeliverSync ==
  ASSUME SyncInv, DataInv, phase # "list", Deliver
  PROVE  SyncInv'
  <1> DEFINE e == Head(events)
  <1>1. /\ events # <<>> /\ events \in Seq(EventSet) /\ events' = Tail(events)
        /\ UNCHANGED <<server, phase, pc, callVars>>
        /\ UNCHANGED objects \/ objects' = [objects EXCEPT ![e.name] = e.object]
    BY DEF Deliver, DataInv, VersionTypes
  <1>2. /\ 1 \in 1..Len(events) /\ e = events[1] /\ events[1] \in EventSet
        /\ Len(events) \in Nat /\ Len(events) = Len(events') + 1
        /\ \A i \in 1..Len(events') : i + 1 \in 1..Len(events) /\ events'[i] = events[i + 1]
    BY <1>1
  <1>3. e.name \in Names
    BY <1>2 DEF EventSet
  <1> HIDE DEF e
  <1>4. \A n \in Names : objects'[n] = objects[n] \/ (n = e.name /\ objects'[n] = e.object)
    BY <1>1, <1>3 DEF DataInv, VersionTypes, Store
  <1>5. ASSUME NEW n \in Names, Settled(n)
        PROVE  Settled(n)'
    <2>1. objects'[n] = server[n]
      BY <1>2, <1>4, <1>5 DEF Settled
    <2> QED
      BY <1>1, <1>2, <1>5, <2>1 DEF Settled
  <1>6. ASSUME NEW n \in Names, NEW old, InTransit(n, old)
        PROVE  Settled(n)' \/ InTransit(n, old)'
    <2>1. PICK i \in 1..(Len(events) + 1) : \A j \in 1..Len(events) :
            events[j].name = n => events[j].object = IF j < i THEN old ELSE server[n]
      BY <1>6 DEF InTransit
    <2>2. objects[n] = old
      BY <1>6 DEF InTransit
    <2>3. PICK h \in 1..(Len(events') + 1) : h = IF i = 1 THEN 1 ELSE i - 1
      BY <1>2
    <2>4. \A j \in 1..Len(events') : events'[j].name = n => events'[j].object = IF j < h THEN old ELSE server[n]
      <3> TAKE j \in 1..Len(events')
      <3>1. j + 1 \in 1..Len(events) /\ events'[j] = events[j + 1] /\ (j + 1 < i <=> j < h)
        BY <1>2, <2>3
      <3> QED
        BY <2>1, <3>1
    <2>5. CASE objects'[n] = old
      BY <1>1, <2>3, <2>4, <2>5 DEF InTransit
    <2>6. CASE objects'[n] # old
      <3>1. events[1].name = n /\ objects'[n] = events[1].object
        BY <1>2, <1>4, <2>2, <2>6
      <3>2. ~(1 < i) /\ objects'[n] = server[n]
        BY <1>2, <2>1, <2>6, <3>1
      <3>3. \A j \in 1..Len(events') : ~(j < h)
        BY <2>3, <3>2
      <3> QED
        BY <1>1, <2>4, <3>2, <3>3 DEF Settled
    <2> QED
      BY <2>5, <2>6
  <1>7. \A c \in Callers : Wrote(c)'
    BY <1>1 DEF SyncInv, Wrote, Name, callVars
  <1>8. \A n \in Names : Caught(n)'
    <2> TAKE n \in Names
    <2>1. CASE Settled(n)
      BY <1>5, <2>1 DEF Caught
    <2>2. ASSUME NEW c \in Callers, pc[c] \in {"wait", "blocked"}, Name(c) = n, InTransit(n, Replaced(c))
          PROVE  Caught(n)'
      <3>1. PICK old : old = Replaced(c)
        OBVIOUS
      <3>2. Replaced(c)' = old /\ Name(c)' = n /\ pc'[c] \in {"wait", "blocked"}
        BY <1>1, <2>2, <3>1 DEF Replaced, Name, callVars
      <3>3. Settled(n)' \/ InTransit(n, old)'
        BY <1>6, <2>2, <3>1
      <3>4. CASE InTransit(n, old)'
        <4>1. InTransit(n, Replaced(c))'
          BY <3>2, <3>4 DEF InTransit
        <4> QED
          BY <3>2, <4>1 DEF Caught
      <3> QED
        BY <3>3, <3>4 DEF Caught
    <2>3. Caught(n)
      BY DEF SyncInv
    <2> QED
      BY <2>1, <2>2, <2>3 DEF Caught
  <1> QED
    BY <1>1, <1>7, <1>8 DEF SyncInv

LEMMA SyncStep ==
  ASSUME Private, Apart, Inv, VersionInv, NoWrap, SyncInv, [Next]_vars
  PROVE  SyncInv'
  <1>1. Closing /\ Reporting /\ DataInv /\ CallTypes
    BY DEF Inv, VersionInv
  <1>2. CASE UNCHANGED vars
    <2>1. UNCHANGED <<apiVars, cacheVars, pc, callVars>>
      BY <1>2 DEF vars
    <2> QED
      BY <2>1 DEF SyncInv, Wrote, Caught, Settled, InTransit, Replaced, Name, apiVars, cacheVars, callVars
  <1>3. ASSUME NEW c \in Callers, CallStep(c)
        PROVE  SyncInv'
    BY <1>1, <1>3, CreateSync, GetSync, DeleteSync, PatchSync, WaitingSync, CloseSync DEF CallStep
  <1>4. \A c \in Callers : ~TimeOut(c)
    BY DEF TimeOut, Private
  <1>5. Deliver => phase # "list"
    BY <1>1 DEF Deliver, Reporting
  <1>6. \A op \in OtherOps, n \in Names : ~OtherWrite(op, n)
    BY DEF OtherWrite, Private
  <1> QED
    BY <1>1, <1>2, <1>3, <1>4, <1>5, <1>6, BeginSync, LoadSync, IdleSync, StartSync, DeliverSync, RelistSync
       DEF Next, Informer

\* An object that no call is at work on is in the cache as it is on the server.
ZonesSynchronous ==
  phase # "list" =>
    \A n \in Names : (\A c \in Callers : Busy(c) => Name(c) # n) => objects[n] = server[n]

\* However many callers there are, if the calls on one object come one after the
\* other and nobody else writes, then every call that has returned has left the
\* cache with what is on the server, until serials wrap around: whatever other
\* calls are under way, whenever the calls are made, and however often the
\* watch breaks, neither reports of earlier versions or of other objects nor a
\* list that misses a change satisfy a condition or make it fail
\* (object_crud.go:45-54, waiter.go:35-85).
THEOREM SynchronousZones ==
  ASSUME Private
  PROVE  Spec /\ []NoWrap /\ []Apart => []ZonesSynchronous
  <1>1. Init => SyncInv
    BY DEF Init, SyncInv, Wrote
  <1>2. Apart /\ Inv /\ VersionInv /\ NoWrap /\ SyncInv /\ [Next]_vars => SyncInv'
    BY SyncStep
  <1>3. SyncInv => ZonesSynchronous
    BY DEF SyncInv, Caught, Settled, Busy, ZonesSynchronous
  <1> QED
    BY <1>1, <1>2, <1>3, Invariance, VersionInvariance, PTL DEF Spec

\* With one caller, and nobody else who writes, the cache has all that is on the
\* server as soon as a call has returned, until serials wrap around
\* (object_crud.go:45-54, waiter.go:35-85).
THEOREM SynchronousCalls ==
  ASSUME Private, \A c, d \in Callers : c = d
  PROVE  Spec /\ []NoWrap => []CallsSynchronous
  <1>1. Apart
    BY DEF Apart
  <1>2. VersionInv /\ ZonesSynchronous => CallsSynchronous
    <2> SUFFICES ASSUME VersionInv, ZonesSynchronous, \A c \in Callers : pc[c] = "idle", phase # "list"
                 PROVE  objects = server
      BY DEF CallsSynchronous
    <2>1. \A n \in Names : objects[n] = server[n]
      BY DEF ZonesSynchronous, Busy
    <2> QED
      BY <2>1 DEF VersionInv, DataInv, VersionTypes, Store
  <1> QED
    BY <1>1, <1>2, SynchronousZones, VersionInvariance, PTL
=============================================================================
