------------------------- MODULE KeyBindingsProofs -------------------------
(***************************************************************************)
(* Proofs about KeyBindings, for every set of callers, keys and zones, and *)
(* every bound.                                                            *)
(***************************************************************************)
EXTENDS KeyBindings, FiniteSetTheorems, TLAPS

Waiting == {"wait", "blocked", "woken"}
Steps   == AllOps \cup {"idle", "next", "delete", "stuck"} \cup Waiting

Events == [name : Names, object : Binding \cup {NoBinding}, type : {"add", "update", "delete"}]

DataTypes ==
  /\ server \in Store /\ cache \in Store /\ acked \in Store /\ index \in [Keys -> Store]
  /\ made \in 0..MaxBindings /\ changed \subseteq 1..made /\ granted \subseteq Binding
  /\ events \in Seq(Events) /\ listed \in BOOLEAN /\ (~listed => events = <<>>)
  /\ informer \in {"idle", "locked", "pending"} /\ (informer # "idle" => events # <<>>)

Reported == {events[i] : i \in 1..Len(events)}

\* What the informer has yet to report was on the server once, and still is
\* unless it was deleted or edited.
EventOK(e) ==
  /\ e.type = "delete" <=> e.object = NoBinding
  /\ e.object # NoBinding => e.object \in granted
  /\ e.name \notin changed => e.object # NoBinding /\ e.object = server[e.name]

\* Server, cache and index have a binding in the same version, or not yet,
\* until it is deleted or edited; an acknowledged one is in the index.
NameOK(n) ==
  /\ server[n] # NoBinding => n <= made /\ server[n] \in granted
  /\ cache[n] # NoBinding => cache[n] \in granted /\ (n \notin changed => cache[n] = server[n])
  /\ \A k \in Keys : index[k][n] # NoBinding =>
       /\ index[k][n].key = k /\ index[k][n] \in granted
       /\ n \notin changed => index[k][n] = server[n]
  /\ acked[n] # NoBinding /\ n \notin changed =>
       server[n] = acked[n] /\ index[acked[n].key][n] = acked[n]

Indexed(n) == cache[n] # NoBinding => index[cache[n].key][n] = cache[n]

\* In the callback the index lags behind the cache for the binding that is
\* reported, and for no other.
CallbackOK ==
  /\ informer = "idle" => \A n \in Names : Indexed(n)
  /\ informer # "idle" =>
       /\ cache[Head(events).name] = Head(events).object
       /\ \A n \in Names \ {Head(events).name} : Indexed(n)

DataInv ==
  /\ DataTypes /\ CallbackOK
  /\ \A e \in Reported : EventOK(e)
  /\ \A n \in Names : NameOK(n)

Wanted(c) == [key |-> call[c].key, zone |-> call[c].zone]

CallerTypes ==
  /\ pc \in [Callers -> Steps] /\ call \in [Callers -> Call \cup {NoCall}]
  /\ todo \in [Callers -> SUBSET Names] /\ name \in [Callers -> Names \cup {NoName}]
  /\ readers \subseteq Callers /\ leaked \in BOOLEAN /\ crashed \in BOOLEAN

\* A BindKey that waits has created the binding its call asks for.
CallerOK(c) ==
  /\ pc[c] = "idle" <=> call[c] = NoCall
  /\ pc[c] \in AllOps => call[c].op = pc[c]
  /\ pc[c] \in {"next", "delete"} \/ c \in readers => call[c].op = "UnbindKey"
  /\ pc[c] \in {"delete"} \cup Waiting => name[c] \in Names
  /\ pc[c] \in Waiting /\ call[c].op = "BindKey" /\ name[c] \notin changed =>
       server[name[c]] = Wanted(c)

Inv == DataInv /\ CallerTypes /\ \A c \in Callers : CallerOK(c)

-----------------------------------------------------------------------------
(* The server, the cache and the index.                                    *)

LEMMA CallRecords ==
  /\ NoCall \notin Call
  /\ \A k \in Call : k.op \in AllOps /\ k.key \in Keys /\ k.zone \in Zones
  BY DEF Call, NoCall, AllOps

\* What is written for a name: it is created, or something is done to it.
Writes(n, b) ==
  /\ n \in Names /\ Write(n, b)
  /\ \/ server[n] = NoBinding /\ b \in Binding /\ n = made + 1 /\ made' = made + 1
     \/ server[n] # NoBinding /\ b \in Binding \cup {NoBinding} /\ made' = made

\* What a step may do to the bindings on the server.
Keeps ==
  /\ changed \subseteq changed'
  /\ \A n \in Names : server[n] # NoBinding /\ n \notin changed' => server'[n] = server[n]

LEMMA WriteData ==
  ASSUME DataInv, NEW n, NEW b, Writes(n, b), UNCHANGED <<indexVars, acked>>
  PROVE  DataInv' /\ Keeps
  <1> USE BindingAssumption DEF DataInv, DataTypes, Writes, Write, indexVars
  <1> DEFINE e == Event(n, server[n], b)
  <1>1. /\ server' \in Store /\ server'[n] = b
        /\ \A m \in Names \ {n} : server'[m] = server[m]
    BY DEF Store
  <1>2. /\ changed \subseteq changed' /\ changed' \subseteq 1..made' /\ changed' \subseteq changed \cup {n}
        /\ n \notin changed' => server[n] = NoBinding /\ b # NoBinding
        /\ granted \subseteq granted' /\ granted' \subseteq Binding
        /\ b # NoBinding => b \in granted'
        /\ made' \in 0..MaxBindings /\ made' >= made
    <2>1. server[n] # NoBinding => n <= made
      BY DEF NameOK
    <2> QED
      BY <2>1 DEF Names
  <1>3. e \in Events /\ \A f \in Events : f = e => EventOK(f)'
    BY <1>1, <1>2 DEF Event, Events, EventOK
  <1>4. /\ events' \in Seq(Events) /\ (~listed' => events' = <<>>)
        /\ events # <<>> => events' # <<>> /\ Head(events') = Head(events)
        /\ Reported' \subseteq Reported \cup {e}
    BY <1>3 DEF Reported
  <1> HIDE DEF e
  <1>5. \A f \in Reported' : EventOK(f)'
    <2> TAKE f \in Reported'
    <2>1. f \in Events
      BY <1>4 DEF Reported
    <2>2. CASE f = e
      BY <1>3, <2>1, <2>2
    <2>3. CASE f \in Reported /\ f.name = n
      <3>1. EventOK(f)
        BY <2>3
      <3>2. n \in changed'
        BY <2>3, <3>1, <1>2 DEF EventOK
      <3> QED
        BY <1>2, <2>3, <3>1, <3>2 DEF EventOK
    <2>4. CASE f \in Reported /\ f.name # n
      <3>1. EventOK(f) /\ f.name \in Names
        BY <2>1, <2>4 DEF Events
      <3> QED
        BY <1>1, <1>2, <2>4, <3>1 DEF EventOK
    <2> QED
      BY <1>4, <2>2, <2>3, <2>4
  <1>6. \A m \in Names : NameOK(m)'
    <2> TAKE m \in Names
    <2>0. NameOK(m)
      OBVIOUS
    <2>1. CASE m = n
      <3>1. n \notin changed' => server[n] = NoBinding /\ n \notin changed
        BY <1>2
      <3>2. acked[n] # NoBinding => n \in changed'
        BY <2>0, <2>1, <3>1 DEF NameOK
      <3>3. cache[n] # NoBinding => n \in changed'
        BY <2>0, <2>1, <3>1 DEF NameOK
      <3>4. \A k \in Keys : index[k][n] # NoBinding => n \in changed'
        BY <2>0, <2>1, <3>1 DEF NameOK
      <3>5. server'[n] # NoBinding => n <= made' /\ server'[n] \in granted'
        BY <1>1, <1>2, <2>0, <2>1 DEF NameOK, Names
      <3> QED
        BY <1>2, <2>0, <2>1, <3>2, <3>3, <3>4, <3>5 DEF NameOK
    <2>2. CASE m # n
      <3>1. server'[m] = server[m] /\ (m \in changed' <=> m \in changed)
        BY <1>1, <1>2, <2>2
      <3> QED
        BY <1>2, <2>0, <3>1 DEF NameOK, Names
    <2> QED
      BY <2>1, <2>2
  <1>7. CallbackOK'
    BY <1>4 DEF CallbackOK, Indexed
  <1>8. Keeps
    BY <1>1, <1>2 DEF Keeps
  <1>9. DataTypes'
    BY <1>1, <1>2, <1>4
  <1> QED
    BY <1>5, <1>6, <1>7, <1>8, <1>9

LEMMA QuietData ==
  ASSUME DataInv, UNCHANGED <<serverVars, indexVars, acked>>
  PROVE  DataInv' /\ Keeps
  BY DEF DataInv, DataTypes, CallbackOK, EventOK, Reported, NameOK, Indexed, Keeps, serverVars, indexVars

LEMMA StartData ==
  ASSUME DataInv, StartInformer
  PROVE  DataInv' /\ Keeps
  <1> USE DEF DataInv, DataTypes
  <1>1. events = <<>> /\ informer = "idle"
    BY DEF StartInformer
  <1> DEFINE present == {n \in Names : server[n] # NoBinding}
  <1>2. PICK order \in [1..Cardinality(present) -> present] :
          events' = [i \in DOMAIN order |-> Event(order[i], NoBinding, server[order[i]])]
    BY DEF StartInformer
  <1>3. Cardinality(present) \in Nat
    <2>1. IsFiniteSet(Names)
      BY BindingAssumption, FS_Interval DEF Names
    <2>2. IsFiniteSet(present)
      BY <2>1, FS_Subset
    <2> QED
      BY <2>2, FS_CardinalityType
  <1>4. ASSUME NEW n \in present
        PROVE  LET f == Event(n, NoBinding, server[n]) IN
               /\ f \in Events /\ f.type = "add" /\ f.name = n /\ f.object = server[n]
               /\ f.object # NoBinding /\ f.object \in granted
    <2>1. n \in Names /\ server[n] # NoBinding /\ server[n] \in granted /\ server[n] \in Binding
      BY <1>4 DEF NameOK
    <2> QED
      BY <2>1 DEF Event, Events
  <1>5. /\ events' \in Seq(Events)
        /\ \A f \in Reported' : f \in Events /\ \E n \in present : f = Event(n, NoBinding, server[n])
    <2> HIDE DEF present
    <2>1. \A i \in 1..Cardinality(present) : order[i] \in present
      OBVIOUS
    <2>2. events' = [i \in 1..Cardinality(present) |-> Event(order[i], NoBinding, server[order[i]])]
      BY <1>2
    <2>3. \A i \in 1..Cardinality(present) : Event(order[i], NoBinding, server[order[i]]) \in Events
      BY <1>4, <2>1
    <2>4. events' \in Seq(Events) /\ Len(events') = Cardinality(present)
      BY <1>3, <2>2, <2>3
    <2> QED
      BY <2>1, <2>2, <2>3, <2>4 DEF Reported
  <1>6. \A f \in Reported' : EventOK(f)'
    <2> TAKE f \in Reported'
    <2>1. PICK n \in present : f = Event(n, NoBinding, server[n])
      BY <1>5
    <2>2. f.type = "add" /\ f.name = n /\ f.object = server[n] /\ f.object # NoBinding /\ f.object \in granted
      BY <1>4, <2>1
    <2> QED
      BY <2>2 DEF EventOK, StartInformer
  <1> HIDE DEF present
  <1>7. DataTypes' /\ CallbackOK' /\ Keeps
    BY <1>1, <1>5 DEF StartInformer, CallbackOK, Indexed, Keeps
  <1> QED
    BY <1>6, <1>7 DEF StartInformer, NameOK

\* What is reported next.
LEMMA NextEvent ==
  ASSUME DataInv, events # <<>>
  PROVE  Head(events) \in Events /\ EventOK(Head(events)) /\ Head(events).name \in Names
         /\ Head(events).object \in Binding \cup {NoBinding}
  <1>1. Head(events) \in Reported /\ Head(events) \in Events
    BY DEF DataInv, DataTypes, Reported
  <1> QED
    BY <1>1 DEF DataInv, Events

LEMMA CacheData ==
  ASSUME DataInv, UpdateCache
  PROVE  DataInv' /\ Keeps
  <1> DEFINE e == Head(events)
  <1>1. e \in Events /\ EventOK(e) /\ e.name \in Names /\ e.object \in Binding \cup {NoBinding}
    BY NextEvent DEF UpdateCache
  <1> USE DEF DataInv, DataTypes, UpdateCache, serverVars
  <1>2. cache' \in Store /\ cache'[e.name] = e.object /\ \A n \in Names \ {e.name} : cache'[n] = cache[n]
    BY <1>1 DEF Store
  <1>3. \A n \in Names : NameOK(n)'
    <2> TAKE n \in Names
    <2> HIDE DEF e
    <2>1. CASE n = e.name
      BY <1>1, <1>2, <2>1 DEF NameOK, EventOK
    <2>2. CASE n # e.name
      BY <1>2, <2>2 DEF NameOK
    <2> QED
      BY <2>1, <2>2
  <1>4. CallbackOK'
    BY <1>2 DEF CallbackOK, Indexed, ClientFree
  <1> QED
    BY <1>2, <1>3, <1>4 DEF EventOK, Keeps, Reported

LEMMA LockData ==
  ASSUME DataInv, LockIndex
  PROVE  DataInv' /\ Keeps
  BY DEF DataInv, DataTypes, LockIndex, CallbackOK, EventOK, Reported, NameOK, Indexed, Keeps, serverVars

\* The index has the binding that is reported, under its key.
LEMMA Reindexed ==
  ASSUME DataInv, NEW e \in Events
  PROVE  /\ Reindex(e) \in [Keys -> Store]
         /\ \A k \in Keys : \A n \in Names \ {e.name} : Reindex(e)[k][n] = index[k][n]
         /\ \A k \in Keys : \/ Reindex(e)[k][e.name] = index[k][e.name]
                            \/ k = e.object.key /\ Reindex(e)[k][e.name] = e.object /\ e.type # "delete"
         /\ e.type # "delete" /\ e.object \in Binding => Reindex(e)[e.object.key][e.name] = e.object
  <1> USE DEF DataInv, DataTypes, Reindex, Store, Events
  <1>1. CASE e.type = "delete"
    BY <1>1
  <1>2. CASE e.type # "delete"
    <2> DEFINE new == [index EXCEPT ![e.object.key][e.name] = e.object]
    <2>1. Reindex(e) = new
      BY <1>2
    <2>2. new \in [Keys -> Store]
      OBVIOUS
    <2>3. /\ \A k \in Keys : \A n \in Names \ {e.name} : new[k][n] = index[k][n]
          /\ \A k \in Keys \ {e.object.key} : new[k] = index[k]
          /\ e.object.key \in Keys => new[e.object.key][e.name] = e.object
      OBVIOUS
    <2>4. e.object \in Binding => e.object.key \in Keys
      BY DEF Binding
    <2> QED
      BY <1>2, <2>1, <2>2, <2>3, <2>4
  <1> QED
    BY <1>1, <1>2

LEMMA IndexData ==
  ASSUME DataInv, UpdateIndex
  PROVE  DataInv' /\ Keeps
  <1> DEFINE e == Head(events)
  <1>1. events # <<>> /\ informer = "pending"
    BY DEF DataInv, DataTypes, UpdateIndex
  <1>2. e \in Events /\ EventOK(e) /\ e.name \in Names /\ e.object \in Binding \cup {NoBinding}
    BY <1>1, NextEvent
  <1>3. index' = Reindex(e) /\ events' = Tail(events) /\ informer' = "idle"
    BY DEF UpdateIndex
  <1>4. cache[e.name] = e.object /\ \A n \in Names \ {e.name} : Indexed(n)
    BY <1>1 DEF DataInv, CallbackOK
  <1>5. /\ index' \in [Keys -> Store]
        /\ \A k \in Keys : \A n \in Names \ {e.name} : index'[k][n] = index[k][n]
        /\ \A k \in Keys : \/ index'[k][e.name] = index[k][e.name]
                           \/ k = e.object.key /\ index'[k][e.name] = e.object /\ e.type # "delete"
        /\ e.type # "delete" /\ e.object \in Binding => index'[e.object.key][e.name] = e.object
    BY <1>2, <1>3, Reindexed
  <1>6. /\ UNCHANGED <<server, made, granted, changed, cache, acked, listed>>
        /\ \A n \in Names : NameOK(n) /\ cache[n] \in Binding \cup {NoBinding}
    BY DEF UpdateIndex, DataInv, DataTypes, Store
  <1>7. /\ events' \in Seq(Events) /\ (~listed' => events' = <<>>)
        /\ Reported' \subseteq Reported
    BY <1>1, <1>3, <1>6 DEF DataInv, DataTypes, Reported
  <1> HIDE DEF e
  <1>8. \A f \in Reported' : EventOK(f)'
    BY <1>6, <1>7 DEF DataInv, EventOK
  <1>9. \A n \in Names : NameOK(n)'
    <2> TAKE n \in Names
    <2>1. CASE n = e.name
      <3>1. ASSUME NEW k \in Keys, index'[k][n] # NoBinding
            PROVE  /\ index'[k][n].key = k /\ index'[k][n] \in granted
                   /\ n \notin changed => index'[k][n] = server[n]
        BY <1>2, <1>5, <1>6, <2>1, <3>1 DEF NameOK, EventOK
      <3>2. ASSUME acked[n] # NoBinding, n \notin changed
            PROVE  index'[acked[n].key][n] = acked[n]
        <4>1. server[n] = acked[n] /\ index[acked[n].key][n] = acked[n] /\ e.object = server[n]
          BY <1>2, <1>6, <2>1, <3>2 DEF NameOK, EventOK
        <4>2. acked[n].key \in Keys
          BY <3>2 DEF DataInv, DataTypes, Store, Binding
        <4> QED
          BY <1>5, <2>1, <4>1, <4>2
      <3> QED
        BY <1>6, <3>1, <3>2 DEF NameOK
    <2>2. CASE n # e.name
      <3>1. acked[n] # NoBinding => acked[n].key \in Keys
        BY DEF DataInv, DataTypes, Store, Binding
      <3> QED
        BY <1>5, <1>6, <2>2, <3>1 DEF NameOK
    <2> QED
      BY <2>1, <2>2
  <1>10. \A n \in Names : Indexed(n)'
    <2> TAKE n \in Names
    <2>1. CASE n = e.name
      BY <1>2, <1>4, <1>5, <1>6, <2>1 DEF Indexed, EventOK
    <2>2. CASE n # e.name
      <3>1. cache[n] # NoBinding => cache[n].key \in Keys
        BY <1>6 DEF Binding
      <3> QED
        BY <1>4, <1>5, <1>6, <2>2, <3>1 DEF Indexed
    <2> QED
      BY <2>1, <2>2
  <1>11. DataTypes'
    BY <1>3, <1>5, <1>6, <1>7 DEF DataInv, DataTypes
  <1>12. CallbackOK' /\ Keeps
    BY <1>3, <1>6, <1>10 DEF CallbackOK, Keeps
  <1> QED
    BY <1>8, <1>9, <1>11, <1>12 DEF DataInv

\* BuildFull reads everything that is on the server.
LEMMA RestartData ==
  ASSUME DataInv, Restart
  PROVE  DataInv' /\ Keeps
  <1> USE DEF DataInv, DataTypes, Restart
  <1>1. /\ index' \in [Keys -> Store]
        /\ \A k \in Keys : \A n \in Names :
             index'[k][n] = IF server[n] # NoBinding /\ server[n].key = k THEN server[n] ELSE NoBinding
    BY DEF IndexOf, Store
  <1>2. Reported' = {} /\ events' \in Seq(Events)
    BY DEF Reported
  <1>3. \A n \in Names : NameOK(n)'
    <2> TAKE n \in Names
    <2>1. NameOK(n) /\ (acked[n] # NoBinding => acked[n].key \in Keys /\ acked[n] \in Binding)
      BY DEF Store, Binding
    <2> QED
      BY <1>1, <2>1 DEF NameOK
  <1>4. \A n \in Names : Indexed(n)'
    <2> TAKE n \in Names
    <2>1. server[n] # NoBinding => server[n].key \in Keys
      BY DEF Store, Binding
    <2> QED
      BY <1>1, <2>1 DEF Indexed
  <1> QED
    BY <1>1, <1>2, <1>3, <1>4 DEF CallbackOK, Keeps

\* An acknowledged binding is in the cache, and so it is in the index.
LEMMA AckData ==
  ASSUME DataInv, CallerTypes, NEW c \in Callers, CallerOK(c), pc[c] \in Waiting, call[c].op = "BindKey",
         ClientFree, ConditionHolds(c), acked' = [acked EXCEPT ![name[c]] = Wanted(c)],
         UNCHANGED <<serverVars, indexVars>>
  PROVE  DataInv'
  <1> DEFINE m == name[c]
  <1>1. m \in Names /\ cache[m] # NoBinding /\ (m \notin changed => server[m] = Wanted(c))
    BY DEF CallerOK, ConditionHolds
  <1>2. call[c] \in Call /\ Wanted(c) \in Binding
    <2>1. call[c] # NoCall
      BY DEF NoCall
    <2> QED
      BY <2>1, CallRecords DEF CallerTypes, Wanted, Binding
  <1>3. acked' \in Store /\ acked'[m] = Wanted(c) /\ \A n \in Names \ {m} : acked'[n] = acked[n]
    BY <1>1, <1>2 DEF DataInv, DataTypes, Store
  <1>4. NameOK(m) /\ Indexed(m)
    BY <1>1 DEF DataInv, ClientFree, CallbackOK
  <1> HIDE DEF m
  <1>5. ASSUME m \notin changed
        PROVE  server[m] = Wanted(c) /\ index[Wanted(c).key][m] = Wanted(c)
    BY <1>1, <1>4, <1>5 DEF NameOK, Indexed
  <1>6. \A n \in Names : NameOK(n)'
    <2> TAKE n \in Names
    <2>0. UNCHANGED <<server, made, granted, changed, cache, index>>
      BY DEF serverVars, indexVars
    <2>1. CASE n = m
      <3>1. acked'[n] # NoBinding /\ n \notin changed =>
              server[n] = acked'[n] /\ index[acked'[n].key][n] = acked'[n]
        BY <1>3, <1>5, <2>1
      <3> QED
        BY <1>4, <2>0, <2>1, <3>1 DEF NameOK
    <2>2. CASE n # m
      <3>1. NameOK(n) /\ acked'[n] = acked[n]
        BY <1>3, <2>2 DEF DataInv
      <3> QED
        BY <2>0, <3>1 DEF NameOK
    <2> QED
      BY <2>1, <2>2
  <1> QED
    BY <1>3, <1>6 DEF DataInv, DataTypes, CallbackOK, Indexed, Reported, EventOK, serverVars, indexVars

-----------------------------------------------------------------------------
(* Callers.                                                                *)

\* A caller that does not take part, or that is woken.
Stays(d) ==
  /\ call'[d] = call[d] /\ name'[d] = name[d] /\ (d \in readers' <=> d \in readers)
  /\ pc'[d] = pc[d] \/ (pc[d] = "blocked" /\ pc'[d] = "woken")

LEMMA CallerStays ==
  ASSUME Inv, Keeps, NEW d \in Callers, Stays(d)
  PROVE  CallerOK(d)'
  <1>1. CallerOK(d) /\ call[d] \in Call \cup {NoCall}
    BY DEF Inv, CallerTypes
  <1>2. ASSUME pc'[d] \in Waiting, call[d].op = "BindKey", name[d] \notin changed'
        PROVE  server'[name[d]] = Wanted(d)
    <2>1. pc[d] \in Waiting /\ name[d] \notin changed
      BY <1>2 DEF Stays, Waiting, Keeps
    <2>2. server[name[d]] = Wanted(d) /\ name[d] \in Names
      BY <1>1, <1>2, <2>1 DEF CallerOK
    <2>3. Wanted(d) \in Binding
      <3>1. call[d] # NoCall
        BY <1>2 DEF NoCall
      <3> QED
        BY <1>1, <3>1, CallRecords DEF Wanted, Binding
    <2> QED
      BY <1>2, <2>2, <2>3, BindingAssumption DEF Keeps
  <1>3. Wanted(d)' = Wanted(d)
    BY DEF Stays, Wanted
  <1> QED
    BY <1>1, <1>2, <1>3 DEF CallerOK, Stays, Waiting, AllOps

\* A step of one caller: the others stay.
StepOf(c) ==
  /\ CallerTypes' /\ CallerOK(c)'
  /\ \A d \in Callers \ {c} : Stays(d)

LEMMA CallerStep ==
  ASSUME Inv, Keeps, DataInv', NEW c \in Callers, StepOf(c)
  PROVE  Inv'
  BY CallerStays DEF StepOf, Inv

LEMMA Returned ==
  ASSUME Inv, NEW c \in Callers, Return(c), leaked' \in BOOLEAN, crashed' \in BOOLEAN
  PROVE  StepOf(c)
  <1>1. CallerTypes
    BY DEF Inv
  <1>2. CallerTypes' /\ pc'[c] = "idle" /\ call'[c] = NoCall /\ c \notin readers'
    BY <1>1 DEF Return, Goto, CallerTypes, Steps
  <1>3. \A d \in Callers \ {c} : Stays(d)
    BY <1>1 DEF Return, Goto, CallerTypes, Stays
  <1> QED
    BY <1>2, <1>3 DEF StepOf, CallerOK, NoCall, AllOps, Waiting

\* A caller goes on with its call, at a step that needs no more than it had.
LEMMA GoesOn ==
  ASSUME Inv, Keeps, NEW c \in Callers, NEW step \in Steps, Goto(c, step), pc[c] # "idle", UNCHANGED <<call, readers>>,
         todo' \in [Callers -> SUBSET Names], name' \in [Callers -> Names \cup {NoName}],
         \A d \in Callers \ {c} : name'[d] = name[d],
         leaked' \in BOOLEAN, crashed' \in BOOLEAN,
         step \in {"next", "delete"} \cup Waiting \cup {"stuck"},
         step \in {"next", "delete"} => call[c].op = "UnbindKey",
         step \in {"delete"} \cup Waiting => name'[c] \in Names,
         step \in Waiting /\ call[c].op = "BindKey" /\ name'[c] \notin changed' => server'[name'[c]] = Wanted(c)
  PROVE  StepOf(c)
  <1>1. CallerTypes /\ CallerOK(c)
    BY DEF Inv
  <1>2. CallerTypes' /\ pc'[c] = step /\ call'[c] = call[c] /\ readers' = readers
    BY <1>1 DEF Goto, CallerTypes
  <1>3. \A d \in Callers \ {c} : Stays(d)
    BY <1>1 DEF Goto, CallerTypes, Stays
  <1>4. Wanted(c)' = Wanted(c)
    BY <1>2 DEF Wanted
  <1>5. CallerOK(c)'
    BY <1>1, <1>2, <1>4 DEF CallerOK, AllOps, Waiting
  <1> QED
    BY <1>2, <1>3, <1>5 DEF StepOf

LEMMA BindStep ==
  ASSUME Inv, NEW c \in Callers, BindKey(c)
  PROVE  Inv'
  <1>1. CallerTypes /\ CallerOK(c) /\ DataInv
    BY DEF Inv
  <1>2. call[c].op = "BindKey" /\ call[c] \in Call /\ pc[c] # "idle"
    BY <1>1, CallRecords DEF BindKey, CallerOK, CallerTypes, AllOps, NoCall
  <1>3. CASE Return(c) /\ UNCHANGED serverVars
    BY <1>1, <1>3, QuietData, Returned, CallerStep DEF BindKey, CallerTypes
  <1>4. CASE /\ CreateBinding(Wanted(c)) /\ name' = [name EXCEPT ![c] = made + 1]
             /\ Goto(c, "wait") /\ UNCHANGED <<call, todo, readers>>
    <2>1. made + 1 \in Names /\ Wanted(c) \in Binding /\ server[made + 1] = NoBinding /\ made + 1 \notin changed
      <3>1. made \in 0..MaxBindings /\ made < MaxBindings /\ changed \subseteq 1..made
        BY <1>1, <1>4 DEF DataInv, DataTypes, CreateBinding
      <3>2. made + 1 \in Names
        BY <3>1, BindingAssumption DEF Names
      <3> QED
        BY <1>1, <1>2, <3>1, <3>2, CallRecords DEF DataInv, NameOK, Wanted, Binding
    <2>2. Writes(made + 1, Wanted(c))
      BY <1>4, <2>1 DEF Writes, CreateBinding
    <2>3. DataInv' /\ Keeps
      BY <1>1, <2>2, WriteData DEF BindKey
    <2>4. server'[made + 1] = Wanted(c)
      BY <1>1, <1>4, <2>1 DEF CreateBinding, Write, DataInv, DataTypes, Store
    <2>5. name' \in [Callers -> Names \cup {NoName}] /\ name'[c] = made + 1
          /\ \A d \in Callers \ {c} : name'[d] = name[d]
      BY <1>1, <1>4, <2>1 DEF CallerTypes
    <2>6. StepOf(c)
      BY <1>1, <1>2, <1>4, <2>1, <2>3, <2>4, <2>5, GoesOn DEF BindKey, Steps, Waiting, CallerTypes
    <2> QED
      BY <2>3, <2>6, CallerStep
  <1> QED
    BY <1>3, <1>4 DEF BindKey, Wanted, serverVars

LEMMA UnbindStep ==
  ASSUME Inv, NEW c \in Callers, UnbindKey(c)
  PROVE  Inv'
  <1>1. CallerTypes /\ CallerOK(c) /\ DataInv
    BY DEF Inv
  <1>2. call[c].op = "UnbindKey" /\ call[c] # NoCall
    BY <1>1 DEF UnbindKey, CallerOK, AllOps
  <1>3. CallerTypes'
    BY <1>1 DEF UnbindKey, Goto, CallerTypes, Steps
  <1>4. CallerOK(c)'
    BY <1>1, <1>2 DEF UnbindKey, Goto, CallerOK, CallerTypes, AllOps, Waiting
  <1>5. \A d \in Callers \ {c} : Stays(d)
    BY <1>1 DEF UnbindKey, Goto, CallerTypes, Stays
  <1>6. DataInv' /\ Keeps
    BY <1>1, QuietData DEF UnbindKey
  <1> QED
    BY <1>3, <1>4, <1>5, <1>6, CallerStep DEF StepOf

\* The next binding, or none is left.
LEMMA NextStep ==
  ASSUME Inv, NEW c \in Callers, NextBinding(c)
  PROVE  Inv'
  <1>1. CallerTypes /\ CallerOK(c) /\ DataInv
    BY DEF Inv
  <1>2. DataInv' /\ Keeps
    BY <1>1, QuietData DEF NextBinding
  <1>3. call[c].op = "UnbindKey" /\ leaked' \in BOOLEAN /\ pc[c] = "next"
    BY <1>1 DEF NextBinding, CallerOK, CallerTypes
  <1>4. CASE Return(c) /\ UNCHANGED crashed
    BY <1>1, <1>2, <1>3, <1>4, Returned, CallerStep DEF CallerTypes
  <1>5. ASSUME NEW n \in todo[c], cache[n] = NoBinding, crashed' = TRUE, UNCHANGED callVars
        PROVE  Inv'
    <2>1. StepOf(c)
      BY <1>1, <1>2, <1>3, <1>5 DEF StepOf, Stays, CallerTypes, CallerOK, callVars, Waiting
    <2> QED
      BY <1>2, <2>1, CallerStep
  <1>6. ASSUME NEW n \in todo[c], name' = [name EXCEPT ![c] = n], Goto(c, "delete"),
               UNCHANGED <<call, todo, readers, crashed>>
        PROVE  Inv'
    <2>1. n \in Names
      BY <1>1, <1>6 DEF CallerTypes
    <2>2. name' \in [Callers -> Names \cup {NoName}] /\ name'[c] = n /\ \A d \in Callers \ {c} : name'[d] = name[d]
      BY <1>1, <1>6, <2>1 DEF CallerTypes
    <2>3. StepOf(c)
      BY <1>1, <1>2, <1>3, <1>6, <2>1, <2>2, GoesOn DEF Steps, Waiting, CallerTypes
    <2> QED
      BY <1>2, <2>3, CallerStep
  <1> QED
    BY <1>4, <1>5, <1>6 DEF NextBinding

LEMMA DeletedStep ==
  ASSUME Inv, Keeps, NEW c \in Callers, Deleted(c), call[c].op = "UnbindKey", pc[c] # "idle",
         leaked' \in BOOLEAN, crashed' \in BOOLEAN
  PROVE  StepOf(c)
  <1>1. CallerTypes
    BY DEF Inv
  <1>2. /\ todo' \in [Callers -> SUBSET Names] /\ name' \in [Callers -> Names \cup {NoName}]
        /\ \A d \in Callers \ {c} : name'[d] = name[d]
    BY <1>1 DEF Deleted, CallerTypes
  <1> QED
    BY <1>2, GoesOn DEF Deleted, Steps, Waiting

LEMMA DeleteStep ==
  ASSUME Inv, NEW c \in Callers, DeleteBinding(c)
  PROVE  Inv'
  <1>1. CallerTypes /\ CallerOK(c) /\ DataInv
    BY DEF Inv
  <1>2. /\ call[c].op = "UnbindKey" /\ pc[c] = "delete" /\ name[c] \in Names
        /\ leaked' \in BOOLEAN /\ crashed' \in BOOLEAN
    BY <1>1 DEF DeleteBinding, CallerOK, CallerTypes
  <1>3. CASE Deleted(c) /\ UNCHANGED serverVars
    <2>1. DataInv' /\ Keeps
      BY <1>1, <1>3, QuietData DEF DeleteBinding
    <2> QED
      BY <1>2, <1>3, <2>1, DeletedStep, CallerStep
  <1>4. CASE /\ server[name[c]] # NoBinding /\ Write(name[c], NoBinding) /\ UNCHANGED made
             /\ Goto(c, "wait") /\ UNCHANGED <<call, todo, name, readers>>
    <2>1. Writes(name[c], NoBinding)
      BY <1>2, <1>4 DEF Writes
    <2>2. DataInv' /\ Keeps
      BY <1>1, <2>1, WriteData DEF DeleteBinding
    <2>3. StepOf(c)
      BY <1>1, <1>2, <1>4, <2>2, GoesOn DEF Steps, Waiting, CallerTypes
    <2> QED
      BY <2>2, <2>3, CallerStep
  <1> QED
    BY <1>3, <1>4 DEF DeleteBinding

\* The end of a wait, with or without success.
LEMMA FinishStep ==
  ASSUME Inv, NEW c \in Callers, pc[c] \in Waiting, ClientFree, ConditionHolds(c), Finish(c),
         UNCHANGED <<serverVars, indexVars, leaked, crashed>>
  PROVE  Inv'
  <1>1. CallerTypes /\ CallerOK(c) /\ DataInv /\ pc[c] # "idle" /\ leaked' \in BOOLEAN /\ crashed' \in BOOLEAN
    BY DEF Inv, CallerTypes, Waiting
  <1>2. CASE call[c].op = "UnbindKey" /\ Deleted(c) /\ UNCHANGED acked
    <2>1. DataInv' /\ Keeps
      BY <1>1, <1>2, QuietData
    <2> QED
      BY <1>1, <1>2, <2>1, DeletedStep, CallerStep
  <1>3. CASE call[c].op = "BindKey" /\ Return(c) /\ acked' = [acked EXCEPT ![name[c]] = Wanted(c)]
    <2>1. DataInv'
      BY <1>1, <1>3, AckData
    <2>2. Keeps
      BY DEF Keeps, serverVars
    <2> QED
      BY <1>1, <1>3, <2>1, <2>2, Returned, CallerStep
  <1> QED
    BY <1>2, <1>3 DEF Finish, Wanted

LEMMA WaitStep ==
  ASSUME Inv, NEW c \in Callers, CheckCondition(c) \/ WakeUp(c)
  PROVE  Inv'
  <1>1. CallerTypes /\ CallerOK(c) /\ DataInv /\ pc[c] \in Waiting /\ pc[c] # "idle" /\ ClientFree
    BY DEF Inv, CheckCondition, WakeUp, Waiting
  <1>2. UNCHANGED <<serverVars, indexVars, crashed>>
    BY DEF CheckCondition, WakeUp
  <1>3. CASE ConditionHolds(c) /\ Finish(c) /\ UNCHANGED leaked
    BY <1>1, <1>2, <1>3, FinishStep
  <1>4. ASSUME NEW step \in {"blocked", "stuck"}, Goto(c, step), UNCHANGED <<call, todo, name, readers, acked>>,
               leaked' \in BOOLEAN
        PROVE  Inv'
    <2>1. DataInv' /\ Keeps
      BY <1>1, <1>2, <1>4, QuietData
    <2>2. UNCHANGED server /\ UNCHANGED changed
      BY <1>2 DEF serverVars
    <2>3. /\ name[c] \in Names
          /\ call[c].op = "BindKey" /\ name[c] \notin changed => server[name[c]] = Wanted(c)
      BY <1>1 DEF CallerOK
    <2>4. StepOf(c)
      BY <1>1, <1>2, <1>4, <2>1, <2>2, <2>3, GoesOn DEF Steps, Waiting, CallerTypes
    <2> QED
      BY <2>1, <2>4, CallerStep
  <1>5. leaked \in BOOLEAN
    BY <1>1 DEF CallerTypes
  <1>6. CASE CheckCondition(c)
    BY <1>3, <1>4, <1>5, <1>6 DEF CheckCondition
  <1>7. CASE WakeUp(c)
    BY <1>3, <1>4, <1>7 DEF WakeUp
  <1> QED
    BY <1>6, <1>7

-----------------------------------------------------------------------------
(* Every step.                                                             *)

LEMMA BeginStep ==
  ASSUME Inv, NEW c \in Callers, NEW k \in Calls, Begin(c, k)
  PROVE  Inv'
  <1>1. CallerTypes /\ CallerOK(c) /\ DataInv
    BY DEF Inv
  <1>2. k \in Call /\ k.op \in AllOps /\ k # NoCall
    BY BindingAssumption, CallRecords
  <1>3. CallerTypes'
    BY <1>1, <1>2 DEF Begin, Goto, CallerTypes, Steps
  <1>4. CallerOK(c)'
    <2>1. c \notin readers
      BY <1>1 DEF Begin, CallerOK, NoCall
    <2> QED
      BY <1>1, <1>2, <2>1 DEF Begin, Goto, CallerOK, CallerTypes, AllOps, Waiting
  <1>5. \A d \in Callers \ {c} : Stays(d)
    BY <1>1 DEF Begin, Goto, CallerTypes, Stays
  <1>6. DataInv' /\ Keeps
    BY <1>1, QuietData DEF Begin
  <1> QED
    BY <1>3, <1>4, <1>5, <1>6, CallerStep DEF StepOf

LEMMA ReturnStep ==
  ASSUME Inv, NEW c \in Callers, GetKey(c) \/ TimeOut(c)
  PROVE  Inv'
  <1>1. DataInv' /\ Keeps
    BY QuietData DEF Inv, GetKey, TimeOut
  <1>2. Return(c) /\ leaked' \in BOOLEAN /\ crashed' \in BOOLEAN
    BY DEF Inv, CallerTypes, GetKey, TimeOut
  <1> QED
    BY <1>1, <1>2, Returned, CallerStep

\* A step without a caller.
LEMMA NobodysStep ==
  ASSUME Inv, Keeps, DataInv', CallerTypes', \A d \in Callers : Stays(d)
  PROVE  Inv'
  BY CallerStays DEF Inv

LEMMA InformerStep ==
  ASSUME Inv, Informer
  PROVE  Inv'
  <1>1. DataInv /\ CallerTypes
    BY DEF Inv
  <1>2. DataInv' /\ Keeps
    BY <1>1, StartData, CacheData, LockData, IndexData DEF Informer
  <1>3. UNCHANGED <<call, todo, name, readers, leaked, crashed>>
    BY DEF Informer, StartInformer, UpdateCache, LockIndex, UpdateIndex, callVars
  <1>4. /\ pc' \in [Callers -> Steps]
        /\ \A d \in Callers : pc'[d] = pc[d] \/ (pc[d] = "blocked" /\ pc'[d] = "woken")
    <2>1. CASE UNCHANGED pc
      BY <1>1, <2>1 DEF CallerTypes
    <2>2. CASE UpdateIndex
      BY <1>1, <2>2 DEF CallerTypes, UpdateIndex, Woken, Steps, Waiting
    <2> QED
      BY <2>1, <2>2 DEF Informer, StartInformer, UpdateCache, LockIndex, callVars
  <1> QED
    BY <1>1, <1>2, <1>3, <1>4, NobodysStep DEF CallerTypes, Stays

LEMMA OtherStep ==
  ASSUME Inv, NEW op \in OtherOps, OtherWrite(op)
  PROVE  Inv'
  <1>1. DataInv /\ CallerTypes
    BY DEF Inv
  <1>2. PICK n, b : Writes(n, b)
    <2>1. ASSUME NEW b \in Binding, CreateBinding(b)
          PROVE  Writes(made + 1, b)
      <3>1. made \in 0..MaxBindings /\ made < MaxBindings
        BY <1>1, <2>1 DEF DataInv, DataTypes, CreateBinding
      <3>2. made + 1 \in Names /\ server[made + 1] = NoBinding
        BY <1>1, <3>1, BindingAssumption DEF Names, DataInv, NameOK
      <3> QED
        BY <2>1, <3>2 DEF Writes, CreateBinding
    <2>2. ASSUME NEW n \in Names, NEW b \in Binding \cup {NoBinding}, server[n] # NoBinding, Write(n, b), UNCHANGED made
          PROVE  Writes(n, b)
      BY <2>2 DEF Writes
    <2> QED
      BY <2>1, <2>2 DEF OtherWrite
  <1>3. UNCHANGED <<indexVars, acked>> /\ UNCHANGED <<callVars, leaked, crashed>>
    BY DEF OtherWrite
  <1>4. DataInv' /\ Keeps
    BY <1>1, <1>2, <1>3, WriteData
  <1> QED
    BY <1>1, <1>3, <1>4, NobodysStep DEF CallerTypes, Stays, callVars

LEMMA RestartStep ==
  ASSUME Inv, Restart
  PROVE  Inv'
  <1>1. DataInv'
    BY RestartData DEF Inv
  <1>2. CallerTypes'
    BY DEF Restart, CallerTypes, Steps
  <1>3. \A c \in Callers : CallerOK(c)'
    BY DEF Restart, CallerOK, NoCall, AllOps, Waiting
  <1> QED
    BY <1>1, <1>2, <1>3 DEF Inv

LEMMA Step == Inv /\ [Next]_vars => Inv'
  <1> SUFFICES ASSUME Inv, [Next]_vars PROVE Inv'
    OBVIOUS
  <1>1. ASSUME NEW c \in Callers, CallStep(c)
        PROVE  Inv'
    BY <1>1, BindStep, UnbindStep, ReturnStep, NextStep, DeleteStep, WaitStep DEF CallStep
  <1>2. CASE UNCHANGED vars
    <2>1. DataInv' /\ Keeps
      BY <1>2, QuietData DEF Inv, vars
    <2> QED
      BY <1>2, <2>1, NobodysStep DEF Inv, vars, callVars, CallerTypes, Stays
  <1> QED
    BY <1>1, <1>2, BeginStep, ReturnStep, InformerStep, OtherStep, RestartStep DEF Next

LEMMA Start == Init => Inv
  <1> SUFFICES ASSUME Init PROVE Inv
    OBVIOUS
  <1> USE BindingAssumption DEF Init
  <1>1. DataTypes /\ Reported = {}
    <2>1. Nothing \in Store /\ \A n \in Names : Nothing[n] = NoBinding
      BY DEF Nothing, Store
    <2>2. IndexOf(Nothing) \in [Keys -> Store]
      BY <2>1 DEF IndexOf, Store
    <2>3. <<>> \in Seq(Events) /\ Len(<<>>) = 0
      OBVIOUS
    <2>4. changed \subseteq 1..made /\ granted \subseteq Binding /\ made \in 0..MaxBindings
      OBVIOUS
    <2>5. Reported = {}
      BY <2>3 DEF Reported
    <2> QED
      BY <2>1, <2>2, <2>3, <2>4, <2>5 DEF DataTypes
  <1>2. CallbackOK /\ \A n \in Names : NameOK(n)
    BY DEF CallbackOK, Indexed, NameOK, Nothing, IndexOf
  <1>3. CallerTypes /\ \A c \in Callers : CallerOK(c)
    BY DEF CallerTypes, CallerOK, Steps, NoCall, AllOps, Waiting
  <1> QED
    BY <1>1, <1>2, <1>3 DEF Inv, DataInv

LEMMA Invariance == Spec => []Inv
  BY Start, Step, PTL DEF Spec

\* Cache, index and events hold bindings, and every caller is where its call
\* can be.
THEOREM BindingsTypeCorrect == Spec => []TypeOK
  <1>1. Inv => TypeOK
    BY DEF Inv, DataInv, DataTypes, CallerTypes, CallerOK, TypeOK, Steps, Waiting
  <1> QED
    BY <1>1, Invariance, PTL

\* GetKey authorises only zones that somebody has bound the key to, although
\* the index keeps what was deleted.
THEOREM ZonesWereBound == Spec => []OnlyBoundZones
  <1>1. Inv => OnlyBoundZones
    <2> SUFFICES ASSUME Inv, NEW k \in Keys, NEW n \in Names, index[k][n] # NoBinding
                 PROVE  [key |-> k, zone |-> index[k][n].zone] \in granted
      BY DEF OnlyBoundZones, Authorised
    <2>1. index[k][n].key = k /\ index[k][n] \in granted /\ index[k][n] \in Binding
      BY DEF Inv, DataInv, DataTypes, NameOK
    <2>2. index[k][n] = [key |-> k, zone |-> index[k][n].zone]
      BY <2>1 DEF Binding
    <2> QED
      BY <2>1, <2>2
  <1> QED
    BY <1>1, Invariance, PTL

\* When no callback runs, every cached binding is in the index in the version
\* of the cache.
THEOREM CacheIndexed == Spec => []CachedBindingsIndexed
  <1>1. Inv => CachedBindingsIndexed
    BY DEF Inv, DataInv, CallbackOK, Indexed, CachedBindingsIndexed
  <1> QED
    BY <1>1, Invariance, PTL

\* What BindKey has acknowledged is authorised until the binding is deleted or
\* edited, across restarts.
THEOREM AcknowledgedAuthorise == Spec => []AcknowledgedBinds
  <1>1. Inv => AcknowledgedBinds
    <2> SUFFICES ASSUME Inv, NEW n \in Names, acked[n] # NoBinding, n \notin changed
                 PROVE  acked[n].zone \in Authorised(acked[n].key)
      BY DEF AcknowledgedBinds
    <2>1. index[acked[n].key][n] = acked[n]
      BY DEF Inv, DataInv, NameOK
    <2> QED
      BY <2>1 DEF Authorised
  <1> QED
    BY <1>1, Invariance, PTL
=============================================================================
