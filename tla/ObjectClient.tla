---------------------------- MODULE ObjectClient ----------------------------
(***************************************************************************)
(* The cached Kubernetes client of the zones (object_crud.go and waiter.go *)
(* of backend/kubernetes, with the patches of crd_zone.go).                *)
(*                                                                         *)
(* Reads come from a local cache that an informer keeps up to date; writes *)
(* go to the API server, and the caller then waits until the informer has  *)
(* brought the change back: it registers a channel for the object in the   *)
(* waiter of the operation (createWait, updateWait, deleteWait), which the *)
(* informer's callback closes.  Cache and waiters share one mutex; every   *)
(* critical section ends before another step of its goroutine, except that *)
(* two paths return with the mutex held or take it twice (leaked).         *)
(*                                                                         *)
(* The API server and the informer are external: writes to one object are  *)
(* serialised, watch events arrive in order, and when the watch breaks the *)
(* informer lists again and reports the differences it finds.              *)
(***************************************************************************)
EXTENDS Naturals, Sequences, FiniteSets

CONSTANTS
  Callers,      \* goroutines that write through this client
  Names,        \* names of objects
  Values,       \* values of the fields of a zone
  Blank,        \* value of the fields of a new zone
  NoObject,
  SerialModulus,  \* 2^32 in the code (uint32)
  Calls,        \* bound: the calls a caller may make, a set of Call
  MaxCalls,     \* bound: calls made in a behaviour
  CallsFrom,    \* bound: the phases of the informer in which calls are made
  DeletesKnown, \* bound: whether only objects in the cache are deleted
  OtherWriters, \* bound: what others do on the API server, a subset of OtherOps
  MaxOther,     \* bound: how often
  Timeouts,     \* bound: whether the context of a caller may end
  MaxRelists,   \* bound: how often the watch breaks
  InitialObjects

VARIABLES
  server,       \* the objects on the API server
  uids,         \* number of objects created so far
  phase,        \* of loadAndWatch: "list"; then of the goroutine of the informer:
                \* "watch", "open" once it has made closeDone, "running" once it has
                \* listed, "ended" once it has closed closeDone
  cancelled,    \* the context of that goroutine has been cancelled
  closed,       \* history: a close has returned
  events,       \* what the informer has yet to report
  manual,       \* history: per name, whether its serial tells its versions apart
  reported,     \* the objects as the informer has reported them
  objects,      \* the cache
  leaked,       \* the mutex is held for ever
  queue, ref,   \* per waiter and name: the channel and the reference count
  pc, call,     \* where each caller is in which call
  original,     \* the cached object the call started from
  target,       \* the object the call waits for
  patched,      \* the patch of a set was accepted
  tries,        \* attempts of a set
  called, others, relists,  \* counters of the bounds
  acked,        \* history: the last version of each object a call has acknowledged
  crashed       \* a goroutine has panicked

apiVars    == <<server, uids, events, manual>>
cacheVars  == <<objects, reported, phase>>
closeVars  == <<cancelled, closed>>
waiterVars == <<leaked, queue, ref>>
callVars   == <<call, original, target, patched, tries>>
boundVars  == <<called, others, relists>>
vars == <<apiVars, cacheVars, closeVars, waiterVars, pc, callVars, boundVars, acked, crashed>>

Waiters  == {"create", "update", "delete"}
Fields   == {"answers", "debug"}
Attempts == 3
Object == [uid : Nat, serial : 0..(SerialModulus - 1), answers : Values \cup {Blank}, debug : Values \cup {Blank}]
\* create, delete, SetZone ("answers"), SetZoneDebug ("debug") and close.
Call == [op : {"create", "delete", "answers", "debug", "close"}, name : Names, value : Values \cup {Blank}]
OtherOps == {"create", "set", "delete", "edit", "reset"}

ASSUME ClientAssumption ==
  /\ SerialModulus \in Nat \ {0} /\ NoObject \notin Object /\ Blank \notin Values
  /\ Calls \subseteq Call /\ MaxCalls \in Nat /\ CallsFrom \subseteq {"watch", "open", "running"}
  /\ OtherWriters \subseteq OtherOps /\ MaxOther \in Nat /\ MaxRelists \in Nat
  /\ Timeouts \in BOOLEAN /\ DeletesKnown \in BOOLEAN
  /\ IsFiniteSet(Names) /\ InitialObjects \subseteq [Names -> Object \cup {NoObject}]
  /\ \A initial \in InitialObjects : \A n \in Names :
       initial[n] # NoObject => initial[n].uid <= Cardinality(Names)

Nothing == [n \in Names |-> NoObject]
NoCall  == [op |-> "none"]

Init ==
  /\ server \in InitialObjects
  /\ uids = Cardinality(Names)
  /\ manual = [n \in Names |-> "none"]
  /\ phase = "list" /\ events = <<>> /\ reported = Nothing /\ objects = Nothing
  /\ leaked = FALSE /\ cancelled = FALSE /\ closed = FALSE
  /\ queue = [w \in Waiters |-> [n \in Names |-> "none"]]
  /\ ref = [w \in Waiters |-> [n \in Names |-> 0]]
  /\ pc = [c \in Callers |-> "idle"]
  /\ call = [c \in Callers |-> NoCall]
  /\ original = [c \in Callers |-> NoObject] /\ target = [c \in Callers |-> NoObject]
  /\ patched = [c \in Callers |-> FALSE] /\ tries = [c \in Callers |-> 0]
  /\ called = 0 /\ others = 0 /\ relists = 0
  /\ acked = Nothing
  /\ crashed = FALSE

-----------------------------------------------------------------------------
(* The API server (external).                                              *)

Event(n, old, new) ==
  [name |-> n, object |-> new,
   type |-> IF old = NoObject THEN "add" ELSE IF new = NoObject THEN "delete" ELSE "update"]

\* Object n becomes new; the informer hears of it once it watches.
Put(n, new) ==
  /\ server' = [server EXCEPT ![n] = new]
  /\ events' = IF phase = "running" THEN Append(events, Event(n, server[n], new)) ELSE events

\* Who writes like this client makes a new object or counts the serial up.
Write(n, new) ==
  /\ Put(n, new)
  /\ manual' = [manual EXCEPT ![n] = IF @ = "reset" THEN @ ELSE "none"]

\* An administrator changes debug by hand (manifests/06_domain.yml:8) and leaves
\* the serial, or applies the manifest again, with its serial of zero.
EditByHand(n, serial, debug) ==
  /\ server[n] # NoObject
  /\ [server[n] EXCEPT !.serial = serial, !.debug = debug] # server[n]
  /\ Put(n, [server[n] EXCEPT !.serial = serial, !.debug = debug])
  /\ manual' = [manual EXCEPT ![n] = IF @ = "reset" \/ serial # server[n].serial THEN "reset" ELSE "edited"]

NewObject == [uid |-> uids + 1, serial |-> 0, answers |-> Blank, debug |-> Blank]

\* zone.mutate with the mutators of SetZone and SetZoneDebug.
Mutate(object, k) ==
  [object EXCEPT !.serial = (object.serial + 1) % SerialModulus,
                 !.answers = IF k.op = "answers" THEN k.value ELSE object.answers,
                 !.debug = IF k.op = "debug" THEN k.value ELSE object.debug]

-----------------------------------------------------------------------------
(* Calls.                                                                  *)

Name(c) == call[c].name

Return(c) ==
  /\ pc' = [pc EXCEPT ![c] = "idle"]
  /\ call' = [call EXCEPT ![c] = NoCall]
  /\ original' = [original EXCEPT ![c] = NoObject]
  /\ target' = [target EXCEPT ![c] = NoObject]
  /\ patched' = [patched EXCEPT ![c] = FALSE]
  /\ tries' = [tries EXCEPT ![c] = 0]

Goto(c, step) == pc' = [pc EXCEPT ![c] = step]

\* waiter.wait for the object t.
WaitFor(c, t) ==
  /\ Goto(c, "wait")
  /\ target' = [target EXCEPT ![c] = t]
  /\ UNCHANGED <<call, original, tries>>

Begin(c, k) ==
  /\ pc[c] = "idle" /\ called < MaxCalls
  /\ IF k.op = "close" THEN phase # "list" ELSE phase \in CallsFrom
  /\ k.op = "delete" /\ DeletesKnown => objects[k.name] # NoObject
  /\ called' = called + 1
  /\ call' = [call EXCEPT ![c] = k]
  /\ Goto(c, IF k.op \in {"create", "close"} THEN k.op ELSE "get")
  /\ UNCHANGED <<apiVars, cacheVars, closeVars, waiterVars, original, target, patched, tries, others, relists,
                 acked, crashed>>

\* create: an object that exists is a conflict.
CreateObject(c) ==
  /\ pc[c] = "create"
  /\ \/ /\ server[Name(c)] # NoObject
        /\ Return(c) /\ UNCHANGED apiVars
     \/ /\ server[Name(c)] = NoObject
        /\ Write(Name(c), NewObject) /\ uids' = uids + 1
        /\ WaitFor(c, NewObject) /\ UNCHANGED patched
  /\ UNCHANGED <<cacheVars, closeVars, waiterVars, boundVars, acked, crashed>>

\* get, as set and delete call it.  Without the object, set returns the error
\* and delete asks the nil object for its name.
GetOriginal(c) ==
  /\ pc[c] = "get" /\ ~leaked
  /\ \/ /\ objects[Name(c)] # NoObject
        /\ original' = [original EXCEPT ![c] = objects[Name(c)]]
        /\ Goto(c, IF call[c].op = "delete" THEN "delete" ELSE "patch")
        /\ UNCHANGED <<call, target, patched, tries, crashed>>
     \/ /\ objects[Name(c)] = NoObject /\ call[c].op # "delete"
        /\ Return(c) /\ UNCHANGED crashed
     \/ /\ objects[Name(c)] = NoObject /\ call[c].op = "delete"
        /\ crashed' = TRUE /\ UNCHANGED <<pc, callVars>>
  /\ UNCHANGED <<apiVars, cacheVars, closeVars, waiterVars, boundVars, acked>>

DeleteObject(c) ==
  /\ pc[c] = "delete"
  /\ \/ server[Name(c)] = NoObject /\ Return(c) /\ UNCHANGED apiVars
     \/ /\ server[Name(c)] # NoObject
        /\ Write(Name(c), NoObject) /\ UNCHANGED uids
        /\ WaitFor(c, original[c]) /\ UNCHANGED patched
  /\ UNCHANGED <<cacheVars, closeVars, waiterVars, boundVars, acked, crashed>>

\* Mutant of PatchObject: the patch does not test the serial.
PatchObject_NoTest(c) ==
  LET new == Mutate(original[c], call[c]) IN
  /\ pc[c] = "patch"
  /\ \/ server[Name(c)] = NoObject /\ Return(c) /\ UNCHANGED apiVars
     \/ /\ server[Name(c)] # NoObject
        /\ Write(Name(c), [new EXCEPT !.uid = server[Name(c)].uid]) /\ UNCHANGED uids
        /\ WaitFor(c, new) /\ patched' = [patched EXCEPT ![c] = TRUE]
  /\ UNCHANGED <<cacheVars, closeVars, waiterVars, boundVars, acked, crashed>>

\* The JSON patch tests the serial and replaces all fields of the spec.  A
\* failed test is followed by a wait for the object the call started from.
PatchObject(c) ==
  LET new == Mutate(original[c], call[c]) IN
  /\ pc[c] = "patch"
  /\ \/ server[Name(c)] = NoObject /\ Return(c) /\ UNCHANGED apiVars
     \/ /\ server[Name(c)] # NoObject /\ server[Name(c)].serial = original[c].serial
        /\ Write(Name(c), [new EXCEPT !.uid = server[Name(c)].uid]) /\ UNCHANGED uids
        /\ WaitFor(c, new) /\ patched' = [patched EXCEPT ![c] = TRUE]
     \/ /\ server[Name(c)] # NoObject /\ server[Name(c)].serial # original[c].serial
        /\ WaitFor(c, original[c]) /\ UNCHANGED <<apiVars, patched>>
  /\ UNCHANGED <<cacheVars, closeVars, waiterVars, boundVars, acked, crashed>>

-----------------------------------------------------------------------------
(* waiter.wait.                                                            *)

WaiterOf(c) == IF call[c].op \in {"create", "delete"} THEN call[c].op ELSE "update"

\* The condition is an error: the object of an update is gone.
ConditionFails(c) == WaiterOf(c) = "update" /\ objects[Name(c)] = NoObject

ConditionHolds(c) ==
  CASE WaiterOf(c) = "create" -> objects[Name(c)] # NoObject
    [] WaiterOf(c) = "delete" -> objects[Name(c)] = NoObject
    [] WaiterOf(c) = "update" -> objects[Name(c)] # NoObject /\ objects[Name(c)].serial >= target[c].serial

Acknowledge(c) ==
  LET old == acked[Name(c)] IN
  acked' = IF /\ WaiterOf(c) = "create" \/ patched[c]
              /\ old = NoObject \/ old.uid # target[c].uid \/ old.serial < target[c].serial
             THEN [acked EXCEPT ![Name(c)] = target[c]] ELSE acked

\* The wait succeeds; a set whose patch was refused tries again.
Finish(c) ==
  IF WaiterOf(c) = "update" /\ ~patched[c] /\ tries[c] + 1 < Attempts
    THEN /\ Goto(c, "get") /\ tries' = [tries EXCEPT ![c] = @ + 1]
         /\ UNCHANGED <<call, original, target, patched, acked>>
    ELSE Return(c) /\ Acknowledge(c)

Register(c) ==
  /\ queue' = [queue EXCEPT ![WaiterOf(c)][Name(c)] = IF @ = "none" THEN "open" ELSE @]
  /\ ref' = [ref EXCEPT ![WaiterOf(c)][Name(c)] = @ + 1]
  /\ Goto(c, "blocked")
  /\ UNCHANGED <<callVars, acked, leaked>>

Unregister(c) ==
  LET left == ref[WaiterOf(c)][Name(c)] - 1 IN
  /\ ref' = [ref EXCEPT ![WaiterOf(c)][Name(c)] = left]
  /\ queue' = [queue EXCEPT ![WaiterOf(c)][Name(c)] = IF left = 0 THEN "none" ELSE @]
  /\ UNCHANGED leaked

\* Returns without releasing the mutex.
ReturnLocked(c) == leaked' = TRUE /\ Return(c) /\ UNCHANGED <<queue, ref, acked>>

\* Mutant of CheckCondition: the call does not wait.
CheckCondition_NoWait(c) ==
  /\ pc[c] = "wait" /\ ~leaked
  /\ Finish(c) /\ UNCHANGED waiterVars
  /\ UNCHANGED <<apiVars, cacheVars, closeVars, boundVars, crashed>>

CheckCondition(c) ==
  /\ pc[c] = "wait" /\ ~leaked
  /\ \/ ConditionFails(c) /\ ReturnLocked(c)
     \/ ConditionHolds(c) /\ Finish(c) /\ UNCHANGED waiterVars
     \/ ~ConditionFails(c) /\ ~ConditionHolds(c) /\ Register(c)
  /\ UNCHANGED <<apiVars, cacheVars, closeVars, boundVars, crashed>>

\* Mutant of WakeUp: the reference count is not decremented.
WakeUp_KeepRef(c) ==
  /\ pc[c] = "blocked" /\ queue[WaiterOf(c)][Name(c)] = "closed" /\ ~leaked
  /\ \/ ConditionFails(c) /\ ReturnLocked(c)
     \/ /\ ConditionHolds(c) /\ Finish(c)
        /\ queue' = [queue EXCEPT ![WaiterOf(c)][Name(c)] = "none"] /\ UNCHANGED <<ref, leaked>>
     \/ /\ ~ConditionFails(c) /\ ~ConditionHolds(c)
        /\ leaked' = TRUE /\ UNCHANGED <<pc, callVars, queue, ref, acked>>
  /\ UNCHANGED <<apiVars, cacheVars, closeVars, boundVars, crashed>>

\* The channel is closed.  If the condition still does not hold the mutex is
\* taken a second time: the caller never goes on, and nobody gets the mutex.
WakeUp(c) ==
  /\ pc[c] = "blocked" /\ queue[WaiterOf(c)][Name(c)] = "closed" /\ ~leaked
  /\ \/ ConditionFails(c) /\ ReturnLocked(c)
     \/ ConditionHolds(c) /\ Finish(c) /\ Unregister(c)
     \/ /\ ~ConditionFails(c) /\ ~ConditionHolds(c)
        /\ leaked' = TRUE /\ UNCHANGED <<pc, callVars, queue, ref, acked>>
  /\ UNCHANGED <<apiVars, cacheVars, closeVars, boundVars, crashed>>

\* The registration stays behind.
TimeOut(c) ==
  /\ Timeouts /\ pc[c] = "blocked"
  /\ Return(c)
  /\ UNCHANGED <<apiVars, cacheVars, closeVars, waiterVars, boundVars, acked, crashed>>

-----------------------------------------------------------------------------
(* close.  Its context is not looked at.                                   *)

ReturnClosed(c) == Return(c) /\ closed' = TRUE

\* Mutant of Cancel: the end of the informer is not awaited.
Cancel_NoWait(c) ==
  /\ pc[c] = "close" /\ ~leaked
  /\ cancelled' = TRUE /\ ReturnClosed(c)
  /\ UNCHANGED <<apiVars, cacheVars, waiterVars, boundVars, acked, crashed>>

\* Before the goroutine has made closeDone there is nothing to wait for.
Cancel(c) ==
  /\ pc[c] = "close" /\ ~leaked
  /\ cancelled' = TRUE
  /\ \/ phase = "watch" /\ ReturnClosed(c)
     \/ phase # "watch" /\ Goto(c, "closing") /\ UNCHANGED <<callVars, closed>>
  /\ UNCHANGED <<apiVars, cacheVars, waiterVars, boundVars, acked, crashed>>

AwaitEnd(c) ==
  /\ pc[c] = "closing" /\ phase = "ended"
  /\ ReturnClosed(c)
  /\ UNCHANGED <<apiVars, cacheVars, cancelled, waiterVars, boundVars, acked, crashed>>

-----------------------------------------------------------------------------
(* loadAndWatch and the callbacks of the informer.                         *)

LoadList ==
  /\ phase = "list"
  /\ objects' = server /\ phase' = "watch"
  /\ UNCHANGED <<apiVars, reported, closeVars, waiterVars, pc, callVars, boundVars, acked, crashed>>

OpenCloseDone ==
  /\ phase = "watch" /\ ~leaked /\ phase' = "open"
  /\ UNCHANGED <<apiVars, objects, reported, closeVars, waiterVars, pc, callVars, boundVars, acked, crashed>>

\* The informer's own first list: an addition for every object there is.
StartInformer ==
  /\ phase = "open" /\ ~cancelled
  /\ phase' = "running"
  /\ LET present == {n \in Names : server[n] # NoObject}
     IN \E order \in [1..Cardinality(present) -> present] :
          /\ \A n \in present : \E i \in DOMAIN order : order[i] = n
          /\ events' = [i \in DOMAIN order |-> Event(order[i], NoObject, server[order[i]])]
  /\ UNCHANGED <<server, uids, manual, objects, reported, closeVars, waiterVars, pc, callVars, boundVars, acked,
                 crashed>>

\* waiter.submit: closing a closed channel panics.
Submit(w, n) ==
  /\ queue' = [queue EXCEPT ![w][n] = IF @ = "open" THEN "closed" ELSE @]
  /\ crashed' = (queue[w][n] = "closed")
  /\ UNCHANGED <<leaked, ref>>

\* Mutant of Deliver: deletions do not reach the cache.
Deliver_KeepDeleted ==
  LET e == Head(events) IN
  /\ events # <<>> /\ ~leaked
  /\ events' = Tail(events)
  /\ reported' = [reported EXCEPT ![e.name] = e.object]
  /\ objects' = [objects EXCEPT ![e.name] = IF e.type = "delete" THEN @ ELSE e.object]
  /\ Submit(IF e.type = "add" THEN "create" ELSE e.type, e.name)
  /\ UNCHANGED <<server, uids, manual, phase, closeVars, pc, callVars, boundVars, acked>>

\* Mutant of Deliver: updates wake those who wait for a creation.
Deliver_WrongWaiter ==
  LET e == Head(events) IN
  /\ events # <<>> /\ ~leaked
  /\ events' = Tail(events)
  /\ reported' = [reported EXCEPT ![e.name] = e.object]
  /\ objects' = [objects EXCEPT ![e.name] = e.object]
  /\ Submit(IF e.type = "delete" THEN "delete" ELSE "create", e.name)
  /\ UNCHANGED <<server, uids, manual, phase, closeVars, pc, callVars, boundVars, acked>>

\* onAdd, onUpdate, onDelete.  The cache has every object of which a deletion
\* is reported, so that deleteWait.submit never gets the nil object.  An object
\* whose deletion was found out by listing is reported in a type that onDelete
\* does not expect.
Deliver ==
  LET e == Head(events) IN
  /\ events # <<>> /\ ~leaked
  /\ events' = Tail(events)
  /\ reported' = [reported EXCEPT ![e.name] = e.object]
  /\ \/ /\ e.type # "unknown"
        /\ objects' = [objects EXCEPT ![e.name] = e.object]
        /\ Submit(IF e.type = "add" THEN "create" ELSE e.type, e.name)
     \/ /\ e.type = "unknown"
        /\ crashed' = TRUE /\ UNCHANGED <<objects, waiterVars>>
  /\ UNCHANGED <<server, uids, manual, phase, closeVars, pc, callVars, boundVars, acked>>

\* The informer returns.  What it has not reported it never reports, and one
\* whose context has ended before does not list.
EndInformer ==
  /\ phase \in {"open", "running"} /\ cancelled /\ ~leaked
  /\ phase' = "ended" /\ events' = <<>>
  /\ UNCHANGED <<server, uids, manual, objects, reported, closeVars, waiterVars, pc, callVars, boundVars, acked,
                 crashed>>

\* The watch breaks after some of the events: the informer lists again.
Relist ==
  /\ phase = "running" /\ ~cancelled /\ relists < MaxRelists
  /\ relists' = relists + 1
  /\ \E k \in 0..Len(events), n \in Names :
       LET kept    == SubSeq(events, 1, k)
           last    == {i \in 1..k : events[i].name = n /\ \A j \in (i + 1)..k : events[j].name # n}
           known   == IF last = {} THEN reported[n] ELSE events[CHOOSE i \in last : TRUE].object
           found   == [Event(n, known, server[n]) EXCEPT !.type = IF @ = "delete" THEN "unknown" ELSE @]
       IN  /\ \A i \in (k + 1)..Len(events) : events[i].name = n
           /\ events' = IF known = server[n] THEN kept ELSE Append(kept, found)
  /\ UNCHANGED <<server, uids, manual, cacheVars, closeVars, waiterVars, pc, callVars, called, others, acked,
                 crashed>>

\* Other replicas, which count the serial up like set, and administrators, who
\* may not.
OtherWrite(op, n) ==
  /\ op \in OtherWriters /\ others < MaxOther
  /\ others' = others + 1
  /\ \/ op = "create" /\ server[n] = NoObject /\ Write(n, NewObject) /\ uids' = uids + 1
     \/ /\ op = "set" /\ server[n] # NoObject /\ UNCHANGED uids
        /\ \E f \in Fields, v \in Values :
             Write(n, Mutate(server[n], [op |-> f, name |-> n, value |-> v]))
     \/ op = "delete" /\ server[n] # NoObject /\ Write(n, NoObject) /\ UNCHANGED uids
     \/ /\ op = "edit" /\ UNCHANGED uids
        /\ \E v \in Values \cup {Blank} : EditByHand(n, server[n].serial, v)
     \/ /\ op = "reset" /\ UNCHANGED uids
        /\ \E v \in Values \cup {Blank} : EditByHand(n, 0, v)
  /\ UNCHANGED <<cacheVars, closeVars, waiterVars, pc, callVars, called, relists, acked, crashed>>

-----------------------------------------------------------------------------
CallStep(c) ==
  \/ CreateObject(c) \/ GetOriginal(c) \/ DeleteObject(c) \/ PatchObject(c)
  \/ CheckCondition(c) \/ WakeUp(c) \/ Cancel(c) \/ AwaitEnd(c)

Informer == LoadList \/ OpenCloseDone \/ StartInformer \/ Deliver

\* A panic ends the process.
Next ==
  /\ ~crashed
  /\ \/ \E c \in Callers : (\E k \in Calls : Begin(c, k)) \/ CallStep(c) \/ TimeOut(c)
     \/ Informer \/ EndInformer
     \/ Relist
     \/ \E op \in OtherOps, n \in Names : OtherWrite(op, n)

Spec == Init /\ [][Next]_vars

\* Goroutines are scheduled and the API server reports what it has accepted.
Fairness ==
  /\ \A c \in Callers : WF_vars(~crashed /\ CallStep(c))
  /\ WF_vars(~crashed /\ Informer) /\ WF_vars(~crashed /\ EndInformer)
FairSpec == Spec /\ Fairness

-----------------------------------------------------------------------------
(* Properties.                                                             *)

Store == [Names -> Object \cup {NoObject}]

TypeOK ==
  /\ server \in Store /\ objects \in Store /\ reported \in Store /\ acked \in Store
  /\ manual \in [Names -> {"none", "edited", "reset"}]
  /\ phase \in {"list", "watch", "open", "running", "ended"}
  /\ queue \in [Waiters -> [Names -> {"none", "open", "closed"}]]
  /\ ref \in [Waiters -> [Names -> 0..Cardinality(Callers)]]
  /\ pc \in [Callers -> {"idle", "create", "get", "delete", "patch", "wait", "blocked", "close", "closing"}]
  /\ call \in [Callers -> Call \cup {NoCall}]
  /\ original \in [Callers -> Object \cup {NoObject}] /\ target \in [Callers -> Object \cup {NoObject}]
  /\ patched \in [Callers -> BOOLEAN] /\ tries \in [Callers -> 0..(Attempts - 1)]
  /\ leaked \in BOOLEAN /\ crashed \in BOOLEAN /\ cancelled \in BOOLEAN /\ closed \in BOOLEAN

\* An acknowledged version never disappears from the cache again: whatever
\* is cached of that object is at least as new, unless an administrator has set
\* its serial back by hand (object_crud.go:182,299).
AcknowledgedCached ==
  \A n \in Names :
    /\ manual[n] # "reset"
    /\ acked[n] # NoObject /\ objects[n] # NoObject /\ objects[n].uid = acked[n].uid
    => objects[n].serial >= acked[n].serial

\* With one caller, what is on the server is in the cache as soon as the call
\* has returned, until the serial wraps around: create, set and delete wait
\* for the informer (object_crud.go:45-54).
CallsSynchronous == (\A c \in Callers : pc[c] = "idle") /\ phase # "list" => objects = server

\* The patch carries every field, yet changes only the one that was set: it
\* amounts to the mutation of the object that is on the server at that moment,
\* whichever replicas have updated it meanwhile.  What it may lose is an
\* administrator's change of debug since the serial was last counted up, which
\* the test of the serial does not see, and nothing but that.  Excepted are zones
\* deleted and created again, and those whose serial was set back by hand
\* (crd_zone.go:37-60, object_crud.go:253-291).
PatchesAtomic ==
  [][\A c \in Callers :
       LET n     == Name(c)
           right == Mutate(server[n], call[c])
       IN  /\ pc[c] = "patch" /\ patched'[c] /\ ~patched[c]
           /\ server[n].uid = original[c].uid /\ manual[n] # "reset"
           => \/ server'[n] = right
              \/ manual[n] = "edited" /\ server'[n] = [right EXCEPT !.debug = original[c].debug]]_vars

\* When close has returned the cache does not change any more, also if it was
\* called before the informer's goroutine had made the channel that close
\* waits for (object_crud.go:342-373).
ClosedIsQuiet == [][closed => UNCHANGED objects]_vars

\* Every call returns, and close, whatever the informer has yet to report,
\* unless a close ends the informer that the call waits for (waiter.go:35-85,
\* object_crud.go:356-373).
CallsReturn ==
  \A c \in Callers : pc[c] # "idle" ~> (pc[c] = "idle" \/ (cancelled /\ call[c].op # "close"))

\* The cache catches up with the server (object_crud.go:312-445) until close.
CacheConverges == <>cancelled \/ <>[](objects = server)
=============================================================================
