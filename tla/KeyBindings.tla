---------------------------- MODULE KeyBindings ----------------------------
(***************************************************************************)
(* The bindings of update keys to zones in the Kubernetes backend          *)
(* (provider.go, with the object client of the bindings in object_crud.go  *)
(* and waiter.go).                                                         *)
(*                                                                         *)
(* BindKey creates an object with a generated name and waits until the     *)
(* informer has reported it.  The informer's callback holds the mutex of   *)
(* the object client while it updates the cache, then the index of the     *)
(* bindings by key, under a mutex of its own, and then wakes those who     *)
(* wait.  GetKey authorises from the index alone.  UnbindKey holds the     *)
(* index's mutex for reading while it deletes bindings and waits.          *)
(*                                                                         *)
(* ObjectClient models the object client with its channels and reference   *)
(* counts; here a name is created and deleted once, so that a caller that  *)
(* is woken is the only one on its channel.                                *)
(***************************************************************************)
EXTENDS Naturals, Sequences, FiniteSets

CONSTANTS
  Callers,      \* goroutines that use the provider
  Keys, Zones,
  NoBinding,
  MaxBindings,  \* bound: bindings ever created
  Calls,        \* bound: the calls a caller may make, a set of Call
  MaxCalls,     \* bound: calls made in a behaviour
  Timeouts,     \* bound: whether the context of a caller may end
  OtherWriters, \* bound: what others do on the API server, a subset of OtherOps
  MaxOther,     \* bound: how often
  MaxRestarts   \* bound: restarts of the process

VARIABLES
  server,       \* the bindings on the API server
  made,         \* number of bindings created so far, whose names are 1..made
  events,       \* what the informer has yet to report
  listed,       \* the informer has made its own first list
  cache,        \* objects of the object client
  index,        \* keyBindingsByKey: for each key its bindings by name
  informer,     \* "idle", or in a callback, with the client's mutex: "locked",
                \* then "pending" on, or with, the index's mutex
  readers,      \* callers that hold the index's mutex for reading
  leaked,       \* a caller holds the client's mutex and waits for it
  pc, call,     \* where each caller is in which call
  todo,         \* names an UnbindKey has yet to delete
  name,         \* the binding a caller creates or deletes
  called, others, restarts,  \* counters of the bounds
  crashed,      \* a goroutine has panicked
  acked,        \* history: what BindKey has acknowledged
  changed,      \* history: names that were deleted or edited since
  granted       \* history: every binding there ever was on the server

serverVars == <<server, made, events, granted, changed>>
indexVars  == <<cache, index, informer, listed>>
callVars   == <<pc, call, todo, name, readers>>
boundVars  == <<called, others, restarts>>
vars == <<serverVars, indexVars, callVars, leaked, boundVars, crashed, acked>>

Names    == 1..MaxBindings
Binding  == [key : Keys, zone : Zones]
AllOps   == {"BindKey", "UnbindKey", "GetKey"}
Call     == [op : AllOps, key : Keys, zone : Zones]
OtherOps == {"create", "edit", "delete"}
NoCall   == [op |-> "none"]
NoName   == 0

ASSUME BindingAssumption ==
  /\ MaxBindings \in Nat /\ MaxCalls \in Nat /\ MaxOther \in Nat /\ MaxRestarts \in Nat
  /\ Timeouts \in BOOLEAN /\ Calls \subseteq Call /\ OtherWriters \subseteq OtherOps
  /\ NoBinding \notin Binding

Nothing == [n \in Names |-> NoBinding]

\* The index that onAdd builds from the bindings of a list.
IndexOf(bindings) ==
  [k \in Keys |-> [n \in Names |->
     IF bindings[n] # NoBinding /\ bindings[n].key = k THEN bindings[n] ELSE NoBinding]]

Init ==
  /\ server = Nothing /\ made = 0 /\ events = <<>> /\ granted = {} /\ changed = {}
  /\ cache = Nothing /\ index = IndexOf(Nothing) /\ informer = "idle" /\ listed = FALSE
  /\ pc = [c \in Callers |-> "idle"] /\ call = [c \in Callers |-> NoCall]
  /\ todo = [c \in Callers |-> {}] /\ name = [c \in Callers |-> NoName]
  /\ readers = {} /\ leaked = FALSE
  /\ called = 0 /\ others = 0 /\ restarts = 0
  /\ crashed = FALSE
  /\ acked = Nothing

-----------------------------------------------------------------------------
(* The API server (external).                                              *)

Event(n, old, new) ==
  [name |-> n, object |-> new,
   type |-> IF old = NoBinding THEN "add" ELSE IF new = NoBinding THEN "delete" ELSE "update"]

Write(n, b) ==
  /\ server' = [server EXCEPT ![n] = b]
  /\ events' = IF listed THEN Append(events, Event(n, server[n], b)) ELSE events
  /\ granted' = granted \cup ({b} \ {NoBinding})
  /\ changed' = IF server[n] = NoBinding THEN changed ELSE changed \cup {n}

\* A name that was never used is generated for the binding.
CreateBinding(b) == made < MaxBindings /\ made' = made + 1 /\ Write(made + 1, b)

-----------------------------------------------------------------------------
(* Calls.                                                                  *)

Goto(c, step) == pc' = [pc EXCEPT ![c] = step]

\* Mutant of Return: the index's mutex is not released.
Return_KeepReader(c) ==
  /\ Goto(c, "idle")
  /\ call' = [call EXCEPT ![c] = NoCall]
  /\ todo' = [todo EXCEPT ![c] = {}]
  /\ name' = [name EXCEPT ![c] = NoName]
  /\ UNCHANGED readers

\* With the deferred RUnlock of UnbindKey.
Return(c) ==
  /\ Goto(c, "idle")
  /\ call' = [call EXCEPT ![c] = NoCall]
  /\ todo' = [todo EXCEPT ![c] = {}]
  /\ name' = [name EXCEPT ![c] = NoName]
  /\ readers' = readers \ {c}

Begin(c, k) ==
  /\ pc[c] = "idle" /\ called < MaxCalls
  /\ called' = called + 1
  /\ call' = [call EXCEPT ![c] = k]
  /\ Goto(c, k.op)
  /\ UNCHANGED <<serverVars, indexVars, todo, name, readers, leaked, others, restarts, crashed, acked>>

\* The call returns at once when the key or the zone is not in its cache.
BindKey(c) ==
  /\ pc[c] = "BindKey"
  /\ \/ Return(c) /\ UNCHANGED <<server, made, events, granted, changed>>
     \/ /\ CreateBinding([key |-> call[c].key, zone |-> call[c].zone])
        /\ name' = [name EXCEPT ![c] = made + 1]
        /\ Goto(c, "wait") /\ UNCHANGED <<call, todo, readers>>
  /\ UNCHANGED <<indexVars, leaked, boundVars, crashed, acked>>

\* A reader of the index does not overtake a writer that waits.
IndexReadable == informer # "pending"

\* Mutant of GetKey: the bindings are read under the client's mutex.
GetKey_ClientLock(c) ==
  /\ pc[c] = "GetKey" /\ IndexReadable /\ informer = "idle" /\ ~leaked
  /\ Return(c)
  /\ UNCHANGED <<serverVars, indexVars, leaked, boundVars, crashed, acked>>

\* The end of GetKey, which reads the zones of the key under the index's mutex.
\* What comes before, the reads of the key and of its secret through their own
\* clients (provider.go:118,133), is over: those may wait for ever for the mutex
\* of their client (waiter.go:41,73), as ObjectClient shows.
GetKey(c) ==
  /\ pc[c] = "GetKey" /\ IndexReadable
  /\ Return(c)
  /\ UNCHANGED <<serverVars, indexVars, leaked, boundVars, crashed, acked>>

UnbindKey(c) ==
  /\ pc[c] = "UnbindKey" /\ IndexReadable
  /\ readers' = readers \cup {c}
  /\ todo' = [todo EXCEPT ![c] =
       {n \in Names : index[call[c].key][n] # NoBinding /\ index[call[c].key][n].zone = call[c].zone}]
  /\ Goto(c, "next")
  /\ UNCHANGED <<serverVars, indexVars, call, name, leaked, boundVars, crashed, acked>>

ClientFree == informer = "idle" /\ ~leaked

\* delete looks the binding up in the cache; without it, it asks the nil
\* object for its name.
NextBinding(c) ==
  /\ pc[c] = "next"
  /\ \/ todo[c] = {} /\ Return(c) /\ UNCHANGED crashed
     \/ /\ ClientFree
        /\ \E n \in todo[c] :
             \/ cache[n] = NoBinding /\ crashed' = TRUE /\ UNCHANGED callVars
             \/ /\ cache[n] # NoBinding
                /\ name' = [name EXCEPT ![c] = n]
                /\ Goto(c, "delete") /\ UNCHANGED <<call, todo, readers, crashed>>
  /\ UNCHANGED <<serverVars, indexVars, leaked, boundVars, acked>>

Deleted(c) ==
  /\ todo' = [todo EXCEPT ![c] = @ \ {name[c]}]
  /\ name' = [name EXCEPT ![c] = NoName]
  /\ Goto(c, "next") /\ UNCHANGED <<call, readers>>

DeleteBinding(c) ==
  /\ pc[c] = "delete"
  /\ \/ server[name[c]] = NoBinding /\ Deleted(c) /\ UNCHANGED serverVars
     \/ /\ server[name[c]] # NoBinding /\ Write(name[c], NoBinding) /\ UNCHANGED made
        /\ Goto(c, "wait") /\ UNCHANGED <<call, todo, name, readers>>
  /\ UNCHANGED <<indexVars, leaked, boundVars, crashed, acked>>

ConditionHolds(c) == (cache[name[c]] # NoBinding) = (call[c].op = "BindKey")

\* The wait succeeds: BindKey returns, UnbindKey goes on with its next binding.
Finish(c) ==
  \/ call[c].op = "UnbindKey" /\ Deleted(c) /\ UNCHANGED acked
  \/ /\ call[c].op = "BindKey" /\ Return(c)
     /\ acked' = [acked EXCEPT ![name[c]] = [key |-> call[c].key, zone |-> call[c].zone]]

\* Mutant of CheckCondition: the cache is read without the client's mutex.
CheckCondition_Unlocked(c) ==
  /\ pc[c] = "wait"
  /\ \/ ConditionHolds(c) /\ Finish(c)
     \/ ~ConditionHolds(c) /\ Goto(c, "blocked") /\ UNCHANGED <<call, todo, name, readers, acked>>
  /\ UNCHANGED <<serverVars, indexVars, leaked, boundVars, crashed>>

CheckCondition(c) ==
  /\ pc[c] = "wait" /\ ClientFree
  /\ \/ ConditionHolds(c) /\ Finish(c)
     \/ ~ConditionHolds(c) /\ Goto(c, "blocked") /\ UNCHANGED <<call, todo, name, readers, acked>>
  /\ UNCHANGED <<serverVars, indexVars, leaked, boundVars, crashed>>

\* If the condition does not hold the client's mutex is taken a second time.
WakeUp(c) ==
  /\ pc[c] = "woken" /\ ClientFree
  /\ \/ ConditionHolds(c) /\ Finish(c) /\ UNCHANGED leaked
     \/ /\ ~ConditionHolds(c) /\ leaked' = TRUE
        /\ Goto(c, "stuck") /\ UNCHANGED <<call, todo, name, readers, acked>>
  /\ UNCHANGED <<serverVars, indexVars, boundVars, crashed>>

\* The context ends while the caller waits for its channel, or when the channel
\* was just closed as well.
TimeOut(c) ==
  /\ Timeouts /\ pc[c] \in {"blocked", "woken"}
  /\ Return(c)
  /\ UNCHANGED <<serverVars, indexVars, leaked, boundVars, crashed, acked>>

-----------------------------------------------------------------------------
(* The informer, and its callback updateKeyBindingIndex.                   *)

\* The informer's own list: an addition for every binding there is.
StartInformer ==
  /\ ~listed /\ listed' = TRUE
  /\ LET present == {n \in Names : server[n] # NoBinding}
     IN \E order \in [1..Cardinality(present) -> present] :
          /\ \A n \in present : \E i \in DOMAIN order : order[i] = n
          /\ events' = [i \in DOMAIN order |-> Event(order[i], NoBinding, server[order[i]])]
  /\ UNCHANGED <<server, made, granted, changed, cache, index, informer, callVars, leaked, boundVars,
                 crashed, acked>>

\* onAdd, onUpdate and onDelete up to the callback of the provider.
UpdateCache ==
  /\ events # <<>> /\ ClientFree
  /\ cache' = [cache EXCEPT ![Head(events).name] = Head(events).object]
  /\ informer' = "locked"
  /\ UNCHANGED <<serverVars, index, listed, callVars, leaked, boundVars, crashed, acked>>

LockIndex ==
  /\ informer = "locked" /\ informer' = "pending"
  /\ UNCHANGED <<serverVars, cache, index, listed, callVars, leaked, boundVars, crashed, acked>>

\* Mutant of Reindex: an update is filed under the key of the old binding.
Reindex_OldKey(e) ==
  IF e.type = "delete" THEN index
  ELSE [k \in Keys |-> [n \in Names |->
          IF n = e.name /\ (IF e.type = "add" THEN k = e.object.key ELSE index[k][n] # NoBinding)
            THEN e.object ELSE index[k][n]]]

\* Mutant of Reindex: a binding whose zone was edited keeps the old one.
Reindex_IgnoreUpdate(e) ==
  IF e.type # "add" THEN index ELSE [index EXCEPT ![e.object.key][e.name] = e.object]

\* What is left of a binding stays: the removal does something only for a key
\* that has no bindings in the index.
Reindex(e) ==
  IF e.type = "delete" THEN index ELSE [index EXCEPT ![e.object.key][e.name] = e.object]

\* submit, for those who wait for an event of this type.
Woken(e, c) ==
  /\ pc[c] = "blocked" /\ name[c] = e.name
  /\ e.type = IF call[c].op = "BindKey" THEN "add" ELSE "delete"

\* The callback gets the index's mutex, and the client's mutex is released.
UpdateIndex ==
  LET e == Head(events) IN
  /\ informer = "pending" /\ readers = {}
  /\ informer' = "idle" /\ events' = Tail(events)
  /\ index' = Reindex(e)
  /\ pc' = [c \in Callers |-> IF Woken(e, c) THEN "woken" ELSE pc[c]]
  /\ UNCHANGED <<server, made, granted, changed, cache, listed, call, todo, name, readers, leaked,
                 boundVars, crashed, acked>>

\* Administrators, other replicas, and the collection of bindings whose key or
\* zone is gone.
OtherWrite(op) ==
  /\ op \in OtherWriters /\ others < MaxOther
  /\ others' = others + 1
  /\ \/ op = "create" /\ \E b \in Binding : CreateBinding(b)
     \/ /\ op = "edit" /\ UNCHANGED made
        /\ \E n \in Names : server[n] # NoBinding /\ \E b \in Binding \ {server[n]} : Write(n, b)
     \/ /\ op = "delete" /\ UNCHANGED made
        /\ \E n \in Names : server[n] # NoBinding /\ Write(n, NoBinding)
  /\ UNCHANGED <<indexVars, callVars, leaked, called, restarts, crashed, acked>>

\* The process ends, by a panic or otherwise, and loads the bindings again.
Restart ==
  /\ restarts < MaxRestarts /\ restarts' = restarts + 1
  /\ cache' = server /\ index' = IndexOf(server) /\ informer' = "idle" /\ listed' = FALSE
  /\ events' = <<>>
  /\ pc' = [c \in Callers |-> "idle"] /\ call' = [c \in Callers |-> NoCall]
  /\ todo' = [c \in Callers |-> {}] /\ name' = [c \in Callers |-> NoName]
  /\ readers' = {} /\ leaked' = FALSE /\ crashed' = FALSE
  /\ UNCHANGED <<server, made, granted, changed, called, others, acked>>

-----------------------------------------------------------------------------
CallStep(c) ==
  \/ BindKey(c) \/ UnbindKey(c) \/ GetKey(c) \/ NextBinding(c) \/ DeleteBinding(c)
  \/ CheckCondition(c) \/ WakeUp(c)

Informer == StartInformer \/ UpdateCache \/ LockIndex \/ UpdateIndex

Next ==
  \/ ~crashed /\ \E c \in Callers : (\E k \in Calls : Begin(c, k)) \/ CallStep(c) \/ TimeOut(c)
  \/ ~crashed /\ Informer
  \/ \E op \in OtherOps : OtherWrite(op)
  \/ Restart

Spec == Init /\ [][Next]_vars

\* Goroutines are scheduled, the API server reports what it has accepted, and
\* the contexts of the callers end.
Fairness ==
  /\ \A c \in Callers : WF_vars(~crashed /\ CallStep(c)) /\ WF_vars(~crashed /\ pc[c] = "blocked" /\ TimeOut(c))
  /\ WF_vars(~crashed /\ Informer)
FairSpec == Spec /\ Fairness

-----------------------------------------------------------------------------
(* Properties.                                                             *)

Store == [Names -> Binding \cup {NoBinding}]

TypeOK ==
  /\ server \in Store /\ cache \in Store /\ acked \in Store
  /\ index \in [Keys -> Store]
  /\ informer \in {"idle", "locked", "pending"} /\ (informer # "idle" => events # <<>>)
  /\ pc \in [Callers -> AllOps \cup {"idle", "next", "delete", "wait", "blocked", "woken", "stuck"}]
  /\ call \in [Callers -> Call \cup {NoCall}]
  /\ todo \in [Callers -> SUBSET Names] /\ name \in [Callers -> Names \cup {NoName}]
  /\ readers \subseteq {c \in Callers : call[c].op = "UnbindKey"}
  /\ changed \subseteq 1..made /\ granted \subseteq Binding
  /\ leaked \in BOOLEAN /\ crashed \in BOOLEAN

\* The zones GetKey returns for the key.
Authorised(k) == {index[k][n].zone : n \in {m \in Names : index[k][m] # NoBinding}}

\* When BindKey has returned, the key authorises the zone until somebody
\* deletes or edits the binding, across restarts: the cache that BindKey waits
\* for changes together with the index (object_crud.go:381-394).
AcknowledgedBinds ==
  \A n \in Names : acked[n] # NoBinding /\ n \notin changed => acked[n].zone \in Authorised(acked[n].key)

\* A key authorises only zones that somebody has bound it to at some time
\* (provider.go:407-431).
OnlyBoundZones == \A k \in Keys : \A z \in Authorised(k) : [key |-> k, zone |-> z] \in granted

\* Outside the callback the index covers the cache, in the version the cache
\* has, whatever was edited in which order (object_crud.go:397-419).
CachedBindingsIndexed ==
  informer = "idle" => \A n \in Names : cache[n] # NoBinding => index[cache[n].key][n] = cache[n]

\* Once GetKey has read the key and its secret it returns as long as nobody
\* unbinds, even if a caller of the bindings' client has kept that client's mutex
\* for ever: it looks the zones up in the index alone (provider.go:171-185).
\* The reads before, through the clients of keys and secrets, are not covered.
LookupsReturn ==
  \A c \in Callers : pc[c] = "GetKey" ~> (pc[c] # "GetKey" \/ readers # {} \/ crashed)

\* Claimed: UnbindKey removes the bindings and returns, at the latest when the
\* context of its caller ends (backend/provider.go:18).
UnbindReturns == \A c \in Callers : pc[c] = "UnbindKey" ~> (pc[c] = "idle" \/ crashed)

\* Claimed: once everything has been reported, a key authorises no zone it is
\* not bound to (backend/provider.go:18).
OnlyPresentBindings ==
  listed /\ events = <<>> =>
    \A k \in Keys : \A z \in Authorised(k) : \E n \in Names : server[n] = [key |-> k, zone |-> z]
=============================================================================
