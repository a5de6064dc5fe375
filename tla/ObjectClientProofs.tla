------------------------- MODULE ObjectClientProofs -------------------------
(***************************************************************************)
(* What close guarantees in ObjectClient, for every set of callers, names  *)
(* and values, and every bound.                                            *)
(***************************************************************************)
EXTENDS ObjectClient, FiniteSetTheorems, TLAPS

\* Something is to be reported only while the informer runs.
Reporting ==
  /\ phase \in {"list", "watch", "open", "running", "ended"}
  /\ phase # "running" => events = <<>>

\* A close comes after the first list; when it waits, the channel it waits for
\* has been made.
Closing ==
  /\ pc \in [Callers -> {"idle", "create", "get", "delete", "patch", "wait", "blocked", "close", "closing"}]
  /\ \A c \in Callers :
       /\ pc[c] = "close" => phase # "list"
       /\ pc[c] = "closing" => cancelled /\ phase \notin {"list", "watch"}

\* After a close the informer has ended, or has yet to find out that its
\* context has ended before it lists.
Quiet == closed => cancelled /\ phase \in {"watch", "open", "ended"}

Inv == Reporting /\ Closing /\ Quiet

\* No step of a caller moves the phase of the informer, and none but a close
\* says that the client is closed.
LEMMA CallerPhase ==
  ASSUME NEW c \in Callers, (\E k \in Calls : Begin(c, k)) \/ CallStep(c) \/ TimeOut(c)
  PROVE  UNCHANGED cacheVars /\ (UNCHANGED closeVars \/ Cancel(c) \/ AwaitEnd(c))
  BY DEF Begin, CallStep, CreateObject, GetOriginal, DeleteObject, PatchObject, CheckCondition, WakeUp,
         Cancel, AwaitEnd, TimeOut

\* Where a caller is after its step.
Went(c, steps) == \E step \in steps : pc' = [pc EXCEPT ![c] = step]

LEMMA CallerGoes ==
  ASSUME NEW c \in Callers, (\E k \in Calls : Begin(c, k)) \/ CallStep(c) \/ TimeOut(c)
  PROVE  \/ UNCHANGED pc
         \/ Went(c, {"idle", "create", "get", "delete", "patch", "wait", "blocked"})
         \/ Went(c, {"close"}) /\ phase # "list"
         \/ Went(c, {"closing"}) /\ Cancel(c) /\ phase # "watch"
  <1>1. ASSUME NEW k \in Calls, Begin(c, k)
        PROVE  \/ Went(c, {"create", "get"})
               \/ Went(c, {"close"}) /\ phase # "list"
    BY <1>1 DEF Begin, Goto, Went
  <1>2. CASE CallStep(c) /\ ~Cancel(c)
    BY <1>2 DEF CallStep, CreateObject, GetOriginal, DeleteObject, PatchObject, CheckCondition, WakeUp,
                AwaitEnd, ReturnClosed, WaitFor, Finish, Register, ReturnLocked, Return, Goto, Went
  <1>3. CASE Cancel(c)
    BY <1>3 DEF Cancel, ReturnClosed, Return, Goto, Went
  <1>4. CASE TimeOut(c)
    BY <1>4 DEF TimeOut, Return, Went
  <1> QED
    BY <1>1, <1>2, <1>3, <1>4 DEF Went

\* A call writes to the server and leaves the events to the informer.
LEMMA CallerReports ==
  ASSUME NEW c \in Callers, (\E k \in Calls : Begin(c, k)) \/ CallStep(c) \/ TimeOut(c),
         phase # "running"
  PROVE  UNCHANGED events
  BY DEF Begin, CallStep, CreateObject, GetOriginal, DeleteObject, PatchObject, CheckCondition, WakeUp,
         Cancel, AwaitEnd, TimeOut, Write, Put, apiVars

LEMMA CallerStep ==
  ASSUME Inv, NEW c \in Callers, (\E k \in Calls : Begin(c, k)) \/ CallStep(c) \/ TimeOut(c)
  PROVE  Inv'
  <1>1. UNCHANGED phase /\ (UNCHANGED closeVars \/ Cancel(c) \/ AwaitEnd(c))
    BY CallerPhase DEF cacheVars
  <1>2. Reporting'
    BY <1>1, CallerReports DEF Inv, Reporting
  <1>3. cancelled => cancelled'
    BY <1>1 DEF closeVars, Cancel, AwaitEnd
  <1>4. Closing'
    <2>1. ASSUME NEW step \in {"idle", "create", "get", "delete", "patch", "wait", "blocked", "close", "closing"},
                 pc' = [pc EXCEPT ![c] = step],
                 step = "close" => phase # "list",
                 step = "closing" => cancelled' /\ phase \notin {"list", "watch"}
          PROVE  Closing'
      BY <1>1, <1>3, <2>1 DEF Inv, Closing
    <2>2. Cancel(c) => cancelled' /\ phase # "list"
      BY DEF Cancel, Inv, Closing
    <2> QED
      BY <1>1, <1>3, <2>1, <2>2, CallerGoes DEF Went, Inv, Closing
  <1>5. Quiet'
    <2>1. CASE UNCHANGED closeVars
      BY <1>1, <2>1 DEF Inv, Quiet, closeVars
    <2>2. CASE Cancel(c)
      BY <1>1, <2>2 DEF Inv, Quiet, Cancel, ReturnClosed
    <2>3. CASE AwaitEnd(c)
      BY <1>1, <2>3 DEF Inv, Quiet, Closing, AwaitEnd, ReturnClosed
    <2> QED
      BY <1>1, <2>1, <2>2, <2>3
  <1> QED
    BY <1>2, <1>4, <1>5 DEF Inv

\* The informer does not start to run after a close, since its context has
\* been cancelled.
LEMMA InformerStep ==
  ASSUME Inv, Informer \/ EndInformer \/ Relist
  PROVE  Inv'
  <1>1. UNCHANGED <<pc, closeVars>>
    BY DEF Informer, EndInformer, Relist, LoadList, OpenCloseDone, StartInformer, Deliver
  <1>2. CASE LoadList
    BY <1>1, <1>2 DEF LoadList, Inv, Reporting, Closing, Quiet, closeVars, apiVars
  <1>3. CASE OpenCloseDone
    BY <1>1, <1>3 DEF OpenCloseDone, Inv, Reporting, Closing, Quiet, closeVars, apiVars
  <1>4. CASE StartInformer
    BY <1>1, <1>4 DEF StartInformer, Inv, Reporting, Closing, Quiet, closeVars
  <1>5. CASE Deliver
    BY <1>1, <1>5 DEF Deliver, Inv, Reporting, Closing, Quiet, closeVars
  <1>6. CASE EndInformer
    BY <1>1, <1>6 DEF EndInformer, Inv, Reporting, Closing, Quiet, closeVars
  <1>7. CASE Relist
    <2>1. phase = "running" /\ UNCHANGED phase
      BY <1>7 DEF Relist, cacheVars
    <2> QED
      BY <1>1, <2>1 DEF Inv, Reporting, Closing, Quiet, closeVars
  <1> QED
    BY <1>2, <1>3, <1>4, <1>5, <1>6, <1>7 DEF Informer

LEMMA OtherStep ==
  ASSUME Inv, NEW op \in OtherOps, NEW n \in Names, OtherWrite(op, n)
  PROVE  Inv'
  <1>1. UNCHANGED <<phase, pc, cancelled, closed>> /\ (phase # "running" => UNCHANGED events)
    BY DEF OtherWrite, Write, EditByHand, Put, cacheVars, closeVars
  <1> QED
    BY <1>1 DEF Inv, Reporting, Closing, Quiet

LEMMA Invariance == Spec => []Inv
  <1>1. Init => Inv
    BY DEF Init, Inv, Reporting, Closing, Quiet
  <1>2. Inv /\ [Next]_vars => Inv'
    <2> SUFFICES ASSUME Inv, [Next]_vars PROVE Inv'
      OBVIOUS
    <2>1. CASE UNCHANGED vars
      BY <2>1 DEF Inv, Reporting, Closing, Quiet, vars, apiVars, cacheVars, closeVars
    <2> QED
      BY <2>1, CallerStep, InformerStep, OtherStep DEF Next
  <1> QED
    BY <1>1, <1>2, PTL DEF Spec

\* When close has returned the cache changes no more, wherever the informer's
\* goroutine was when close was called, and whatever else the client does.
THEOREM QuietAfterClose == Spec => ClosedIsQuiet
  <1>1. Inv /\ [Next]_vars => [closed => UNCHANGED objects]_vars
    <2> SUFFICES ASSUME Inv, Next, closed PROVE UNCHANGED objects
      BY DEF vars, cacheVars
    <2>1. phase \in {"watch", "open", "ended"} /\ cancelled /\ events = <<>>
      BY DEF Inv, Quiet, Reporting
    <2>2. ASSUME NEW c \in Callers, (\E k \in Calls : Begin(c, k)) \/ CallStep(c) \/ TimeOut(c)
          PROVE  UNCHANGED objects
      BY <2>2, CallerPhase DEF cacheVars
    <2>3. CASE Informer \/ EndInformer \/ Relist
      BY <2>1, <2>3 DEF Informer, EndInformer, Relist, LoadList, OpenCloseDone, StartInformer, Deliver
    <2>4. ASSUME NEW op \in OtherOps, NEW n \in Names, OtherWrite(op, n)
          PROVE  UNCHANGED objects
      BY <2>4 DEF OtherWrite, cacheVars
    <2> QED
      BY <2>2, <2>3, <2>4 DEF Next
  <1> QED
    BY <1>1, Invariance, PTL DEF Spec, ClosedIsQuiet

-----------------------------------------------------------------------------
(* The versions of an object: on the server, on the way, in the cache.     *)

\* Until its serial wraps around.
NoWrap == \A n \in Names : server[n] # NoObject => server[n].serial < SerialModulus - 1

\* The serials of name n have only ever been counted up.
Counted(n) == manual[n] # "reset"

\* Version p of an object is o, or was written after it, or differs from o only
\* by an edit of debug, which the serial does not tell.
Follows(o, p) ==
  o.uid < p.uid \/ (o.uid = p.uid /\ (o.serial < p.serial \/ (o.serial = p.serial /\ o.answers = p.answers)))

\* As long as nobody has edited it, the serial tells the object on the server.
Told(n, o) ==
  manual[n] = "none" /\ server[n] # NoObject /\ o.uid = server[n].uid /\ o.serial = server[n].serial
    => o = server[n]

\* What the cache has of name n or may have without another write.
Coming(n) ==
  ({server[n], objects[n]} \cup {events[i].object : i \in {j \in 1..Len(events) : events[j].name = n}})
    \ {NoObject}

EventTypes == {"add", "update", "delete", "unknown"}
EventSet   == [name : Names, object : Object \cup {NoObject}, type : EventTypes]

VersionTypes ==
  /\ server \in Store /\ objects \in Store /\ acked \in Store /\ uids \in Nat
  /\ events \in Seq(EventSet) /\ manual \in [Names -> {"none", "edited", "reset"}]

\* The informer reports the versions in the order in which they were written.
EventsOrdered ==
  \A n \in Names : Counted(n) =>
    \A i, j \in 1..Len(events) :
      i < j /\ events[i].name = n /\ events[j].name = n /\ events[i].object # NoObject /\ events[j].object # NoObject
        => Follows(events[i].object, events[j].object)

\* An acknowledged version is not followed by an older one.
Covers(n, a) == \A p \in Coming(n) : p.uid = a.uid => p.serial >= a.serial

NameOK(n) ==
  Counted(n) =>
    /\ \A p \in Coming(n) :
         /\ p.uid <= uids
         /\ server[n] # NoObject => Follows(p, server[n])
         /\ objects[n] # NoObject => Follows(objects[n], p)
         /\ Told(n, p)
    /\ acked[n] # NoObject => acked[n].uid <= uids /\ Covers(n, acked[n])

DataInv == VersionTypes /\ EventsOrdered /\ \A n \in Names : NameOK(n)

CallTypes ==
  /\ call \in [Callers -> Call \cup {NoCall}] /\ patched \in [Callers -> BOOLEAN]
  /\ original \in [Callers -> Object \cup {NoObject}] /\ target \in [Callers -> Object \cup {NoObject}]

Precedes(n, o) ==
  Counted(n) => o.uid <= uids /\ Told(n, o) /\ \A p \in Coming(n) : Follows(o, p)

\* A call starts from a version that everything to come follows, and waits for
\* a version of the same object.
CallerOK(c) ==
  /\ pc[c] = "idle" <=> call[c] = NoCall
  /\ pc[c] = "idle" => original[c] = NoObject
  /\ pc[c] \in {"idle", "create", "get", "delete", "patch", "close", "closing"} => ~patched[c]
  /\ pc[c] = "create" => call[c].op = "create"
  /\ pc[c] \in {"get", "delete"} => call[c].op \in Fields \cup {"delete"}
  /\ pc[c] = "patch" => call[c].op \in Fields /\ original[c] # NoObject
  /\ pc[c] \in {"wait", "blocked"} => call[c].op # "close"
  /\ original[c] # NoObject => Precedes(call[c].name, original[c])
  /\ patched[c] => call[c].op \in Fields /\ original[c] # NoObject /\ target[c] # NoObject /\ target[c].uid = original[c].uid
  /\ pc[c] \in {"wait", "blocked"} /\ call[c].op = "create" =>
       target[c] # NoObject /\ target[c].serial = 0 /\ target[c].uid <= uids

VersionInv == DataInv /\ CallTypes /\ \A c \in Callers : CallerOK(c)

LEMMA Records ==
  /\ NoCall \notin Call
  /\ \A k \in Call : /\ k.name \in Names /\ k.value \in Values \cup {Blank}
                      /\ k.op \in Fields \cup {"create", "delete", "close"}
  /\ \A o \in Object : o.uid \in Nat /\ o.serial \in Nat
  BY ClientAssumption DEF Call, NoCall, Object, Fields

LEMMA FollowsItself == \A o : Follows(o, o)
  BY DEF Follows

LEMMA FollowsOn ==
  ASSUME NEW o \in Object, NEW p \in Object, NEW q \in Object, Follows(o, p), Follows(p, q)
  PROVE  Follows(o, q)
  BY Records DEF Follows

LEMMA ComingObjects ==
  ASSUME VersionTypes, NEW n \in Names
  PROVE  Coming(n) \subseteq Object
  <1>1. \A i \in 1..Len(events) : events[i] \in EventSet
    BY DEF VersionTypes
  <1>2. \A i \in 1..Len(events) : events[i].object \in Object \cup {NoObject}
    BY <1>1 DEF EventSet
  <1>3. server[n] \in Object \cup {NoObject} /\ objects[n] \in Object \cup {NoObject}
    BY DEF VersionTypes, Store
  <1> QED
    BY <1>2, <1>3 DEF Coming

\* What is left of a mutation that started from an edited object.
LEMMA Edited ==
  ASSUME NEW o \in Object, NEW p \in Object, o.uid = p.uid, o.serial = p.serial, o.answers = p.answers,
         NEW k, k.op \in Fields
  PROVE  \/ Mutate(o, k) = Mutate(p, k)
         \/ Mutate(o, k) = [Mutate(p, k) EXCEPT !.debug = o.debug]
  BY DEF Object, Mutate, Fields

\* A mutation changes the serial and the fields, never the identity.
LEMMA Mutated ==
  ASSUME NEW o \in Object, NEW k, k.value \in Values \cup {Blank}
  PROVE  /\ Mutate(o, k) \in Object /\ Mutate(o, k).uid = o.uid
         /\ o.serial < SerialModulus - 1 => Mutate(o, k).serial = o.serial + 1
  <1>1. (o.serial + 1) % SerialModulus \in 0..(SerialModulus - 1)
    BY ClientAssumption DEF Object
  <1>2. o.serial < SerialModulus - 1 => (o.serial + 1) % SerialModulus = o.serial + 1
    BY ClientAssumption DEF Object
  <1> QED
    BY <1>1, <1>2 DEF Mutate, Object

-----------------------------------------------------------------------------
(* Steps of the server and the informer.                                   *)

\* What follows a version goes on to follow it.
Onward ==
  /\ uids' >= uids
  /\ \A n \in Names : \A o \in Object : Precedes(n, o) => Precedes(n, o)'

\* A new version of name n: none, a new object, or the next of the same one.
NewVersion(n, new) ==
  \/ new = NoObject /\ uids' = uids
  \/ server[n] = NoObject /\ new = NewObject /\ uids' = uids + 1
  \/ /\ server[n] # NoObject /\ new \in Object /\ uids' = uids
     /\ new.uid = server[n].uid /\ new.serial = server[n].serial + 1

\* The version of name n with another debug.
EditedVersion(n, new) ==
  /\ server[n] # NoObject /\ new \in Object /\ uids' = uids
  /\ new.uid = server[n].uid /\ new.serial = server[n].serial /\ new.answers = server[n].answers

\* The history says what has been written.
Marked(n, new, mark) ==
  /\ manual' = [manual EXCEPT ![n] = mark] /\ mark \in {"none", "edited", "reset"}
  /\ manual[n] = "reset" => mark = "reset"
  /\ mark # "reset" => NewVersion(n, new) \/ (mark = "edited" /\ EditedVersion(n, new))

LEMMA PutVersions ==
  ASSUME DataInv, NEW n \in Names, NEW new \in Object \cup {NoObject}, NEW mark, Put(n, new), Marked(n, new, mark),
         uids' \in {uids, uids + 1}, UNCHANGED <<objects, acked>>
  PROVE  DataInv' /\ Onward
  <1> USE DEF DataInv
  <1>1. uids' \in Nat /\ uids' >= uids
    BY DEF VersionTypes
  <1>2. /\ server' \in Store /\ server'[n] = new
        /\ \A m \in Names \ {n} : server'[m] = server[m]
    BY DEF Put, Store, VersionTypes
  <1>3. Event(n, server[n], new) \in EventSet /\ Event(n, server[n], new).object = new
        /\ Event(n, server[n], new).name = n
    BY DEF Event, EventSet, EventTypes
  <1>14. /\ manual' \in [Names -> {"none", "edited", "reset"}] /\ manual'[n] = mark
         /\ \A m \in Names \ {n} : manual'[m] = manual[m]
         /\ \A m \in Names : Counted(m)' => Counted(m)
    BY DEF Marked, VersionTypes, Counted
  <1>4. VersionTypes'
    BY <1>1, <1>2, <1>3, <1>14 DEF Put, VersionTypes
  <1>5. \A i \in 1..Len(events') :
          \/ i \in 1..Len(events) /\ events'[i] = events[i]
          \/ /\ i = Len(events) + 1 /\ Len(events') = Len(events) + 1
             /\ events'[i].name = n /\ events'[i].object = new
    BY <1>3 DEF Put, VersionTypes
  <1>6. \A m \in Names \ {n} : \A p \in Coming(m)' : p \in Coming(m)
    BY <1>2, <1>5 DEF Coming
  <1>7. \A p \in Coming(n)' : p \in Coming(n) \/ p = new
    BY <1>2, <1>5 DEF Coming
  <1>8. server[n] # NoObject => server[n] \in Coming(n) /\ server[n] \in Object
    BY DEF Coming, VersionTypes, Store
  <1>15. Counted(n)' => NewVersion(n, new) \/ (manual'[n] = "edited" /\ EditedVersion(n, new))
    BY <1>14 DEF Marked, Counted
  <1>16. ASSUME Counted(n)', NEW o \in Object, o.uid <= uids, server[n] # NoObject => Follows(o, server[n])
         PROVE  (new # NoObject => Follows(o, new)) /\ Told(n, o)'
    <2>1. o.uid \in Nat /\ o.serial \in Nat /\ (new # NoObject => new.uid \in Nat /\ new.serial \in Nat)
      BY Records
    <2>2. CASE new = NoObject
      BY <1>2, <2>2 DEF Told
    <2>3. CASE server[n] = NoObject /\ new = NewObject /\ uids' = uids + 1
      BY <1>2, <1>16, <2>1, <2>3 DEF NewObject, Follows, Told, VersionTypes
    <2>4. CASE /\ server[n] # NoObject /\ new \in Object
               /\ new.uid = server[n].uid /\ new.serial = server[n].serial + 1
      BY <1>2, <1>8, <1>16, <2>1, <2>4, Records DEF Follows, Told
    <2>5. CASE manual'[n] = "edited" /\ EditedVersion(n, new)
      BY <1>8, <1>16, <2>1, <2>5, Records DEF Follows, Told, EditedVersion
    <2> QED
      BY <1>15, <1>16, <2>2, <2>3, <2>4, <2>5 DEF NewVersion
  <1>9. ASSUME Counted(n)', new # NoObject
        PROVE  /\ new.uid <= uids'
               /\ \A o \in Object : Precedes(n, o) => Follows(o, new)
    <2>1. new.uid <= uids'
      <3>1. server[n] # NoObject => server[n].uid <= uids
        BY <1>8, <1>9, <1>14 DEF NameOK
      <3> QED
        BY <1>1, <1>8, <1>9, <1>15, <3>1, Records DEF NewVersion, NewObject, EditedVersion, VersionTypes
    <2>2. ASSUME NEW o \in Object, Precedes(n, o) PROVE Follows(o, new)
      <3>1. o.uid <= uids /\ (server[n] # NoObject => Follows(o, server[n]))
        BY <1>8, <1>9, <1>14, <2>2 DEF Precedes
      <3> QED
        BY <1>9, <1>16, <3>1
    <2> QED
      BY <2>1, <2>2
  <1>10. ASSUME Counted(n)', NEW p \in Coming(n)
         PROVE  p \in Object /\ p.uid \in Nat /\ p.uid <= uids /\ (new # NoObject => Follows(p, new)) /\ Told(n, p)'
    <2>1. p \in Object /\ p.uid \in Nat /\ p.uid <= uids /\ (server[n] # NoObject => Follows(p, server[n]))
      BY <1>10, <1>14, ComingObjects, Records DEF NameOK
    <2>2. PICK o \in Object : o = p
      BY <2>1
    <2> QED
      BY <1>10, <1>16, <2>1, <2>2
  <1>11. Onward
    <2> SUFFICES ASSUME NEW m \in Names, NEW o \in Object, Precedes(m, o), Counted(m)'
                 PROVE  o.uid <= uids' /\ Told(m, o)' /\ (\A p \in Coming(m)' : Follows(o, p))
      BY <1>1 DEF Onward, Precedes
    <2>1. o.uid <= uids /\ o.uid <= uids' /\ \A p \in Coming(m) : Follows(o, p)
      BY <1>1, <1>14, Records DEF Precedes, VersionTypes
    <2>2. CASE m = n
      <3>1. Told(n, o)'
        BY <1>8, <1>16, <2>1, <2>2
      <3>2. \A p \in Coming(n)' : Follows(o, p)
        <4> TAKE p \in Coming(n)'
        <4>1. p # NoObject
          BY DEF Coming
        <4> QED
          BY <1>7, <1>9, <2>1, <2>2, <4>1
      <3> QED
        BY <2>1, <2>2, <3>1, <3>2
    <2>3. CASE m # n
      <3>1. Told(m, o)
        BY <1>14 DEF Precedes
      <3> QED
        BY <1>2, <1>6, <1>14, <2>1, <2>3, <3>1 DEF Told
    <2> QED
      BY <2>2, <2>3
  <1>12. EventsOrdered'
    <2> SUFFICES ASSUME NEW m \in Names, Counted(m)',
                        NEW i \in 1..Len(events'), NEW j \in 1..Len(events'), i < j,
                        events'[i].name = m, events'[j].name = m,
                        events'[i].object # NoObject, events'[j].object # NoObject
                 PROVE  Follows(events'[i].object, events'[j].object)
      BY DEF EventsOrdered
    <2>1. i \in 1..Len(events) /\ events'[i] = events[i] /\ Len(events) \in Nat
      BY <1>5 DEF VersionTypes
    <2>2. CASE j \in 1..Len(events) /\ events'[j] = events[j]
      BY <1>14, <2>1, <2>2 DEF EventsOrdered
    <2>3. CASE events'[j].name = n /\ events'[j].object = new
      <3>1. events[i].object \in Coming(n) /\ m = n
        BY <2>1, <2>3 DEF Coming
      <3> QED
        BY <1>10, <2>1, <2>3, <3>1
    <2> QED
      BY <1>5, <2>2, <2>3
  <1>13. \A m \in Names : NameOK(m)'
    <2> TAKE m \in Names
    <2>1. ASSUME m # n PROVE NameOK(m)'
      <3>1. server'[m] = server[m] /\ manual'[m] = manual[m]
        BY <1>2, <1>14, <2>1
      <3>2. Coming(m) \subseteq Object
        BY ComingObjects
      <3>3. \A p \in Coming(m)' : p \in Coming(m) /\ p.uid \in Nat
        BY <1>6, <2>1, <3>2, Records
      <3>4. acked[m] # NoObject => acked[m].uid \in Nat
        BY Records DEF VersionTypes, Store
      <3> QED
        BY <1>1, <3>1, <3>3, <3>4 DEF NameOK, Covers, VersionTypes, Counted, Told
    <2>2. ASSUME m = n PROVE NameOK(m)'
      <3> SUFFICES ASSUME Counted(n)' PROVE NameOK(n)'
        BY <2>2 DEF NameOK
      <3>0. Counted(n) /\ NameOK(n)
        BY <1>14
      <3>1. ASSUME NEW p \in Coming(n)'
            PROVE  /\ p.uid <= uids'
                   /\ server'[n] # NoObject => Follows(p, server'[n])
                   /\ objects[n] # NoObject => Follows(objects[n], p)
                   /\ Told(n, p)'
        <4>0. p # NoObject
          BY DEF Coming
        <4>1. CASE p = new
          <5>1. objects[n] # NoObject => objects[n] \in Coming(n)
            BY DEF Coming
          <5> QED
            BY <1>2, <1>9, <1>10, <4>0, <4>1, <5>1, FollowsItself DEF Told
        <4>2. CASE p \in Coming(n)
          BY <1>1, <1>2, <1>10, <3>0, <4>2 DEF NameOK, VersionTypes
        <4> QED
          BY <1>7, <3>1, <4>1, <4>2
      <3>2. ASSUME acked[n] # NoObject
            PROVE  acked[n].uid <= uids' /\ Covers(n, acked[n])'
        <4>1. acked[n].uid \in Nat /\ acked[n].serial \in Nat /\ acked[n].uid <= uids /\ Covers(n, acked[n])
          BY <3>0, <3>2, Records DEF VersionTypes, Store, NameOK
        <4>2. new # NoObject /\ new.uid = acked[n].uid => new.serial >= acked[n].serial
          <5>1. CASE server[n] = NoObject
            BY <1>15, <4>1, <5>1 DEF NewVersion, NewObject, EditedVersion, VersionTypes
          <5>2. CASE server[n] # NoObject
            BY <1>8, <1>15, <4>1, <5>2, Records DEF NewVersion, EditedVersion, Covers
          <5> QED
            BY <5>1, <5>2
        <4>3. \A p \in Coming(n)' : p # NoObject
          BY DEF Coming
        <4> QED
          BY <1>1, <1>7, <4>1, <4>2, <4>3 DEF Covers, VersionTypes
      <3> QED
        BY <3>1, <3>2 DEF NameOK
    <2> QED
      BY <2>1, <2>2
  <1> QED
    BY <1>4, <1>11, <1>12, <1>13

LEMMA WriteVersions ==
  ASSUME DataInv, NEW n \in Names, NEW new, Write(n, new), NewVersion(n, new), UNCHANGED <<objects, acked>>
  PROVE  DataInv' /\ Onward
  <1>1. new \in Object \cup {NoObject} /\ uids' \in {uids, uids + 1}
    BY ClientAssumption DEF NewVersion, NewObject, Object, DataInv, VersionTypes
  <1>2. PICK mark \in {"none", "edited", "reset"} : mark = IF manual[n] = "reset" THEN manual[n] ELSE "none"
    OBVIOUS
  <1>3. Put(n, new) /\ Marked(n, new, mark)
    BY <1>2 DEF Write, Marked
  <1> QED
    BY <1>1, <1>3, PutVersions

LEMMA EditVersions ==
  ASSUME DataInv, NEW n \in Names, NEW serial \in {server[n].serial, 0}, NEW debug \in Values \cup {Blank},
         EditByHand(n, serial, debug), UNCHANGED <<uids, objects, acked>>
  PROVE  DataInv' /\ Onward
  <1>1. server[n] \in Object /\ serial \in 0..(SerialModulus - 1)
    BY ClientAssumption DEF EditByHand, DataInv, VersionTypes, Store, Object
  <1>2. PICK new \in Object : new = [server[n] EXCEPT !.serial = serial, !.debug = debug]
    BY <1>1 DEF Object
  <1>3. new.uid = server[n].uid /\ new.serial = serial /\ new.answers = server[n].answers
    BY <1>1, <1>2 DEF Object
  <1>4. PICK mark \in {"none", "edited", "reset"} :
          mark = IF manual[n] = "reset" \/ serial # server[n].serial THEN "reset" ELSE "edited"
    OBVIOUS
  <1>5. Put(n, new) /\ Marked(n, new, mark)
    BY <1>1, <1>2, <1>3, <1>4 DEF EditByHand, Marked, EditedVersion
  <1> QED
    BY <1>5, PutVersions

LEMMA QuietVersions ==
  ASSUME DataInv, UNCHANGED <<apiVars, objects, acked>>
  PROVE  DataInv' /\ Onward
  BY DEF DataInv, VersionTypes, EventsOrdered, NameOK, Covers, Coming, Onward, Precedes, Counted, Told, apiVars

\* Nothing new is to come.
Fewer == \A n \in Names : \A p \in Coming(n)' : p \in Coming(n)

LEMMA FewerVersions ==
  ASSUME DataInv, VersionTypes', EventsOrdered', Fewer, UNCHANGED <<server, uids, manual, acked>>,
         \A n \in Names :
           Counted(n) /\ objects'[n] # NoObject => \A p \in Coming(n)' : Follows(objects'[n], p)
  PROVE  DataInv' /\ Onward
  <1>1. \A n \in Names : NameOK(n)'
    BY DEF DataInv, NameOK, Covers, Fewer, Counted, Told
  <1>2. Onward
    BY DEF Onward, Precedes, Fewer, DataInv, VersionTypes, Counted, Told
  <1> QED
    BY <1>1, <1>2 DEF DataInv

\* The first list of the client: nothing is reported yet.
LEMMA LoadVersions ==
  ASSUME Reporting, DataInv, LoadList
  PROVE  DataInv' /\ Onward
  <1>1. events = <<>> /\ events' = <<>> /\ objects' = server /\ UNCHANGED <<server, uids, manual, acked>>
    BY DEF LoadList, Reporting, apiVars
  <1>2. VersionTypes' /\ EventsOrdered'
    BY <1>1 DEF DataInv, VersionTypes, EventsOrdered
  <1>3. Fewer /\ \A n \in Names : \A p \in Coming(n)' : p = server[n]
    BY <1>1 DEF Fewer, Coming
  <1> QED
    BY <1>1, <1>2, <1>3, FewerVersions, FollowsItself

LEMMA StartVersions ==
  ASSUME DataInv, StartInformer
  PROVE  DataInv' /\ Onward
  <1> DEFINE present == {n \in Names : server[n] # NoObject}
  <1>1. PICK order \in [1..Cardinality(present) -> present] :
          events' = [i \in DOMAIN order |-> Event(order[i], NoObject, server[order[i]])]
    BY DEF StartInformer
  <1>2. Cardinality(present) \in Nat
    <2>1. IsFiniteSet(present)
      BY ClientAssumption, FS_Subset
    <2> QED
      BY <2>1, FS_CardinalityType
  <1>3. UNCHANGED <<server, uids, manual, acked, objects>>
    BY DEF StartInformer
  <1>4. ASSUME NEW n \in present
        PROVE  LET e == Event(n, NoObject, server[n]) IN e \in EventSet /\ e.name = n /\ e.object = server[n]
    <2>1. n \in Names /\ server[n] \in Object
      BY <1>4 DEF DataInv, VersionTypes, Store
    <2> QED
      BY <2>1 DEF Event, EventSet, EventTypes
  <1>5. /\ events' \in Seq(EventSet)
        /\ \A i \in 1..Len(events') : events'[i].name \in Names /\ events'[i].object = server[events'[i].name]
    <2> HIDE DEF present
    <2>1. \A i \in 1..Cardinality(present) : order[i] \in present
      OBVIOUS
    <2>2. events' = [i \in 1..Cardinality(present) |-> Event(order[i], NoObject, server[order[i]])]
      BY <1>1
    <2>3. \A i \in 1..Cardinality(present) : Event(order[i], NoObject, server[order[i]]) \in EventSet
      BY <1>4, <2>1
    <2>4. events' \in Seq(EventSet) /\ Len(events') = Cardinality(present)
      BY <1>2, <2>2, <2>3
    <2>5. \A n \in present : n \in Names
      BY DEF present
    <2>6. ASSUME NEW i \in 1..Len(events')
          PROVE  events'[i].name \in Names /\ events'[i].object = server[events'[i].name]
      <3>1. order[i] \in present /\ events'[i] = Event(order[i], NoObject, server[order[i]])
        BY <2>1, <2>2, <2>4
      <3> QED
        BY <1>4, <2>5, <3>1
    <2> QED
      BY <2>4, <2>6
  <1> HIDE DEF present
  <1>6. VersionTypes' /\ EventsOrdered'
    BY <1>3, <1>5, FollowsItself DEF DataInv, VersionTypes, EventsOrdered
  <1>7. Fewer
    BY <1>3, <1>5 DEF Fewer, Coming
  <1>8. \A n \in Names :
          Counted(n) /\ objects'[n] # NoObject => \A p \in Coming(n)' : Follows(objects'[n], p)
    BY <1>3, <1>7 DEF DataInv, NameOK, Fewer
  <1> QED
    BY <1>3, <1>6, <1>7, <1>8, FewerVersions

LEMMA DeliverVersions ==
  ASSUME DataInv, Deliver
  PROVE  DataInv' /\ Onward
  <1> DEFINE e == Head(events)
  <1>1. /\ events # <<>> /\ events \in Seq(EventSet) /\ events' = Tail(events)
        /\ UNCHANGED <<server, uids, manual, acked>>
        /\ objects' = [objects EXCEPT ![e.name] = e.object] \/ UNCHANGED objects
    BY DEF Deliver, DataInv, VersionTypes
  <1>2. /\ 1 \in 1..Len(events) /\ e = events[1] /\ events[1] \in EventSet
        /\ events' \in Seq(EventSet)
        /\ \A i \in 1..Len(events') : i + 1 \in 1..Len(events) /\ events'[i] = events[i + 1]
    BY <1>1
  <1>3. e.name \in Names /\ e.object \in Object \cup {NoObject}
    BY <1>2 DEF EventSet
  <1>4. \A n \in Names : objects'[n] = objects[n] \/ (n = e.name /\ objects'[n] = e.object)
    BY <1>1, <1>3 DEF DataInv, VersionTypes, Store
  <1>5. VersionTypes'
    BY <1>1, <1>2, <1>3 DEF DataInv, VersionTypes, Store
  <1>6. EventsOrdered'
    <2> SUFFICES ASSUME NEW m \in Names, Counted(m)',
                        NEW i \in 1..Len(events'), NEW j \in 1..Len(events'), i < j,
                        events'[i].name = m, events'[j].name = m,
                        events'[i].object # NoObject, events'[j].object # NoObject
                 PROVE  Follows(events'[i].object, events'[j].object)
      BY DEF EventsOrdered
    <2>1. /\ i + 1 \in 1..Len(events) /\ events'[i] = events[i + 1]
          /\ j + 1 \in 1..Len(events) /\ events'[j] = events[j + 1] /\ i + 1 < j + 1
      BY <1>2
    <2> QED
      BY <1>1, <2>1 DEF DataInv, EventsOrdered, Counted
  <1> HIDE DEF e
  <1>7. Fewer
    <2> SUFFICES ASSUME NEW n \in Names, NEW p \in Coming(n)'
                 PROVE  p \in Coming(n)
      BY DEF Fewer
    <2>1. p # NoObject
      BY DEF Coming
    <2>2. CASE p = server[n] \/ p = objects'[n]
      BY <1>2, <1>4, <2>1, <2>2 DEF Coming
    <2>3. ASSUME NEW i \in 1..Len(events'), events'[i].name = n, p = events'[i].object
          PROVE  p \in Coming(n)
      BY <1>2, <2>1, <2>3 DEF Coming
    <2> QED
      BY <1>1, <2>2, <2>3 DEF Coming
  <1>8. ASSUME NEW n \in Names, Counted(n), objects'[n] # NoObject, NEW p \in Coming(n)'
        PROVE  Follows(objects'[n], p)
    <2>1. p \in Coming(n) /\ p # NoObject
      BY <1>7 DEF Fewer, Coming
    <2>2. CASE objects'[n] = objects[n]
      BY <1>8, <2>1, <2>2 DEF DataInv, NameOK
    <2>3. CASE n = e.name /\ objects'[n] = e.object
      <3>1. CASE p = server[n]
        <4>1. e.object \in Coming(n)
          BY <1>2, <1>8, <2>3 DEF Coming
        <4> QED
          BY <1>8, <2>1, <2>3, <3>1, <4>1 DEF DataInv, NameOK
      <3>2. CASE p = objects'[n]
        BY <3>2, FollowsItself
      <3>3. ASSUME NEW i \in 1..Len(events'), events'[i].name = n, p = events'[i].object
            PROVE  Follows(objects'[n], p)
        <4>1. i + 1 \in 1..Len(events) /\ events[i + 1].name = n /\ events[i + 1].object = p /\ 1 < i + 1
          BY <1>2, <3>3
        <4> QED
          BY <1>2, <1>8, <2>1, <2>3, <4>1 DEF DataInv, EventsOrdered
      <3> QED
        BY <1>1, <3>1, <3>2, <3>3 DEF Coming
    <2> QED
      BY <1>4, <2>2, <2>3
  <1> QED
    BY <1>1, <1>5, <1>6, <1>7, <1>8, FewerVersions

LEMMA EndVersions ==
  ASSUME DataInv, EndInformer
  PROVE  DataInv' /\ Onward
  <1>1. events' = <<>> /\ UNCHANGED <<server, uids, manual, objects, acked>>
    BY DEF EndInformer
  <1>2. VersionTypes' /\ EventsOrdered' /\ Fewer
    BY <1>1 DEF DataInv, VersionTypes, EventsOrdered, Fewer, Coming
  <1>3. \A n \in Names :
          Counted(n) /\ objects'[n] # NoObject => \A p \in Coming(n)' : Follows(objects'[n], p)
    BY <1>1, <1>2 DEF DataInv, NameOK, Fewer
  <1> QED
    BY <1>1, <1>2, <1>3, FewerVersions

\* The events that are lost are those of one object, whose version on the
\* server follows them.
LEMMA RelistVersions ==
  ASSUME DataInv, Relist
  PROVE  DataInv' /\ Onward
  <1>1. UNCHANGED <<server, uids, manual, objects, acked>> /\ events \in Seq(EventSet)
    BY DEF Relist, cacheVars, DataInv, VersionTypes
  <1>2. PICK k \in 0..Len(events), n \in Names, e \in EventSet :
          /\ e.name = n /\ e.object = server[n]
          /\ events' = SubSeq(events, 1, k) \/ events' = Append(SubSeq(events, 1, k), e)
    <2> DEFINE Found(n, known) ==
                 [Event(n, known, server[n]) EXCEPT !.type = IF @ = "delete" THEN "unknown" ELSE @]
    <2>1. PICK k \in 0..Len(events), n \in Names :
            \E known : events' = SubSeq(events, 1, k) \/ events' = Append(SubSeq(events, 1, k), Found(n, known))
      BY DEF Relist
    <2>2. server[n] \in Object \cup {NoObject}
      BY DEF DataInv, VersionTypes, Store
    <2>3. \A known : Found(n, known) \in EventSet /\ Found(n, known).name = n /\ Found(n, known).object = server[n]
      BY <2>2 DEF Event, EventSet, EventTypes
    <2> HIDE DEF Found
    <2> QED
      BY <2>1, <2>3
  <1>3. /\ SubSeq(events, 1, k) \in Seq(EventSet) /\ Len(SubSeq(events, 1, k)) = k
        /\ \A i \in 1..k : i \in 1..Len(events) /\ SubSeq(events, 1, k)[i] = events[i]
    BY <1>1
  <1>4. /\ events' \in Seq(EventSet)
        /\ \A i \in 1..Len(events') :
             \/ i \in 1..Len(events) /\ events'[i] = events[i]
             \/ i = Len(events') /\ events'[i] = e
    <2>1. CASE events' = SubSeq(events, 1, k)
      BY <1>3, <2>1
    <2>2. CASE events' = Append(SubSeq(events, 1, k), e)
      <3> DEFINE kept == SubSeq(events, 1, k)
      <3>1. kept \in Seq(EventSet) /\ Len(kept) = k /\ events' = Append(kept, e)
        BY <1>3, <2>2
      <3> HIDE DEF kept
      <3>2. /\ events' \in Seq(EventSet) /\ Len(events') = k + 1 /\ events'[k + 1] = e
            /\ \A i \in 1..k : events'[i] = kept[i]
        BY <3>1
      <3> QED
        BY <1>3, <3>2 DEF kept
    <2> QED
      BY <1>2, <2>1, <2>2
  <1>5. VersionTypes'
    BY <1>1, <1>4 DEF DataInv, VersionTypes
  <1>6. EventsOrdered'
    <2> SUFFICES ASSUME NEW m \in Names, Counted(m)',
                        NEW i \in 1..Len(events'), NEW j \in 1..Len(events'), i < j,
                        events'[i].name = m, events'[j].name = m,
                        events'[i].object # NoObject, events'[j].object # NoObject
                 PROVE  Follows(events'[i].object, events'[j].object)
      BY DEF EventsOrdered
    <2>1. i \in 1..Len(events) /\ events'[i] = events[i]
      BY <1>4
    <2>2. CASE j \in 1..Len(events) /\ events'[j] = events[j]
      BY <1>1, <2>1, <2>2 DEF DataInv, EventsOrdered, Counted
    <2>3. CASE events'[j] = e
      <3>1. events[i].name = n /\ events[i].object \in Coming(n) /\ server[n] # NoObject
        BY <1>2, <2>1, <2>3 DEF Coming
      <3> QED
        BY <1>1, <1>2, <2>1, <2>3, <3>1 DEF DataInv, NameOK, Counted
    <2> QED
      BY <1>4, <2>2, <2>3
  <1>7. Fewer
    BY <1>1, <1>2, <1>4 DEF Fewer, Coming
  <1>8. \A m \in Names :
          Counted(m) /\ objects'[m] # NoObject => \A p \in Coming(m)' : Follows(objects'[m], p)
    BY <1>1, <1>7 DEF DataInv, NameOK, Fewer
  <1> QED
    BY <1>1, <1>5, <1>6, <1>7, <1>8, FewerVersions

LEMMA OtherVersions ==
  ASSUME DataInv, NoWrap, NEW op \in OtherOps, NEW n \in Names, OtherWrite(op, n)
  PROVE  DataInv' /\ Onward
  <1>1. UNCHANGED <<objects, acked>>
    BY DEF OtherWrite, cacheVars
  <1>2. CASE server[n] = NoObject /\ Write(n, NewObject) /\ uids' = uids + 1
    BY <1>1, <1>2, WriteVersions DEF NewVersion
  <1>3. ASSUME server[n] # NoObject, UNCHANGED uids, NEW f \in Fields, NEW v \in Values,
               Write(n, Mutate(server[n], [op |-> f, name |-> n, value |-> v]))
        PROVE  DataInv' /\ Onward
    <2>1. server[n] \in Object /\ server[n].serial < SerialModulus - 1
      BY <1>3 DEF DataInv, VersionTypes, Store, NoWrap
    <2>2. NewVersion(n, Mutate(server[n], [op |-> f, name |-> n, value |-> v]))
      BY <1>3, <2>1, Mutated DEF NewVersion
    <2> QED
      BY <1>1, <1>3, <2>2, WriteVersions
  <1>4. CASE Write(n, NoObject) /\ UNCHANGED uids
    BY <1>1, <1>4, WriteVersions DEF NewVersion
  <1>5. ASSUME NEW v \in Values \cup {Blank}, UNCHANGED uids,
               EditByHand(n, server[n].serial, v) \/ EditByHand(n, 0, v)
        PROVE  DataInv' /\ Onward
    BY <1>1, <1>5, EditVersions
  <1> QED
    BY <1>2, <1>3, <1>4, <1>5 DEF OtherWrite

-----------------------------------------------------------------------------
(* Steps of callers.                                                       *)

Stays(d) ==
  /\ pc'[d] = pc[d] /\ call'[d] = call[d] /\ original'[d] = original[d]
  /\ target'[d] = target[d] /\ patched'[d] = patched[d]

LEMMA AtWork ==
  ASSUME CallTypes, NEW c \in Callers, CallerOK(c), pc[c] # "idle"
  PROVE  /\ call[c] \in Call /\ Name(c) \in Names /\ call[c].name \in Names
         /\ call[c].value \in Values \cup {Blank} /\ call[c].op \in Fields \cup {"create", "delete", "close"}
  <1>1. call[c] \in Call
    BY DEF CallTypes, CallerOK
  <1> QED
    BY <1>1, Records DEF Name

\* The object a call started from goes on to precede what is to come.
LEMMA StillPrecedes ==
  ASSUME CallTypes, Onward, NEW c \in Callers, CallerOK(c), original[c] # NoObject,
         call'[c] = call[c], original'[c] = original[c]
  PROVE  Precedes(call[c].name, original[c])'
  <1>1. pc[c] # "idle"
    BY DEF CallerOK
  <1>2. PICK n \in Names : n = call[c].name
    BY <1>1, AtWork
  <1>3. PICK o \in Object : o = original[c]
    BY DEF CallTypes
  <1>4. Precedes(n, o)
    BY <1>2, <1>3 DEF CallerOK
  <1>5. Precedes(n, o)'
    BY <1>4 DEF Onward
  <1> QED
    BY <1>2, <1>3, <1>5 DEF Precedes

LEMMA CallerStays ==
  ASSUME VersionInv, DataInv', Onward, NEW d \in Callers, Stays(d)
  PROVE  CallerOK(d)'
  <1>1. CallTypes /\ CallerOK(d) /\ DataInv
    BY DEF VersionInv
  <1>2. original[d] # NoObject => Precedes(call[d].name, original[d])'
    BY <1>1, StillPrecedes DEF Stays
  <1>3. pc[d] \in {"wait", "blocked"} /\ call[d].op = "create" =>
          target[d] # NoObject /\ target[d].serial = 0 /\ target[d].uid <= uids'
    <2>1. target[d] # NoObject => target[d].uid \in Nat
      BY <1>1, Records DEF CallTypes
    <2> QED
      BY <1>1, <2>1 DEF CallerOK, Onward, DataInv, VersionTypes
  <1>4. /\ pc'[d] = pc[d] /\ call'[d] = call[d] /\ original'[d] = original[d]
        /\ target'[d] = target[d] /\ patched'[d] = patched[d]
    BY DEF Stays
  <1> QED
    BY <1>1, <1>2, <1>3, <1>4 DEF CallerOK

LEMMA CallerVersions ==
  ASSUME VersionInv, DataInv', Onward, CallTypes', NEW c \in Callers, CallerOK(c)',
         \A d \in Callers \ {c} : Stays(d)
  PROVE  VersionInv'
  BY CallerStays DEF VersionInv

LEMMA NobodyStep ==
  ASSUME VersionInv, DataInv', Onward, UNCHANGED <<pc, callVars>>
  PROVE  VersionInv'
  <1>1. CallTypes' /\ \A d \in Callers : Stays(d)
    BY DEF VersionInv, CallTypes, Stays, callVars
  <1> QED
    BY <1>1, CallerStays DEF VersionInv

LEMMA Returned ==
  ASSUME Closing, VersionInv, DataInv', Onward, NEW c \in Callers, Return(c)
  PROVE  VersionInv'
  <1>1. CallTypes
    BY DEF VersionInv
  <1>2. CallTypes' /\ \A d \in Callers \ {c} : Stays(d)
    BY <1>1 DEF Return, CallTypes, Stays, Closing
  <1>3. /\ pc'[c] = "idle" /\ call'[c] = NoCall /\ original'[c] = NoObject /\ patched'[c] = FALSE
    BY <1>1 DEF Return, CallTypes, Closing
  <1>4. CallerOK(c)'
    BY <1>3 DEF CallerOK
  <1> QED
    BY <1>2, <1>4, CallerVersions

\* A caller that goes on with what it has.
LEMMA Moves ==
  ASSUME Closing, VersionInv, DataInv', Onward, NEW c \in Callers, NEW step, Goto(c, step),
         UNCHANGED <<call, original, target, patched>>, pc[c] # "idle",
         \/ step = "closing" /\ pc[c] = "close"
         \/ step = "blocked" /\ pc[c] = "wait"
         \/ step = "get" /\ ~patched[c] /\ call[c].op \in Fields
  PROVE  VersionInv'
  <1>1. CallTypes /\ CallerOK(c)
    BY DEF VersionInv
  <1>2. CallTypes' /\ \A d \in Callers \ {c} : Stays(d)
    BY <1>1 DEF Goto, CallTypes, Stays, Closing
  <1>3. pc'[c] = step
    BY DEF Goto, Closing
  <1>4. original[c] # NoObject => Precedes(call[c].name, original[c])'
    BY <1>1, StillPrecedes
  <1>5. step = "blocked" /\ call[c].op = "create" =>
          target[c] # NoObject /\ target[c].serial = 0 /\ target[c].uid <= uids'
    <2>1. target[c] # NoObject => target[c].uid \in Nat
      BY <1>1, Records DEF CallTypes
    <2> QED
      BY <1>1, <2>1 DEF CallerOK, Onward, VersionInv, DataInv, VersionTypes
  <1>6. call[c] # NoCall
    BY <1>1 DEF CallerOK
  <1>7. CallerOK(c)'
    BY <1>1, <1>3, <1>4, <1>5, <1>6 DEF CallerOK
  <1> QED
    BY <1>2, <1>7, CallerVersions

LEMMA BeginVersions ==
  ASSUME Closing, VersionInv, NEW c \in Callers, NEW k \in Calls, Begin(c, k)
  PROVE  VersionInv'
  <1>1. CallTypes /\ CallerOK(c) /\ DataInv
    BY DEF VersionInv
  <1>2. k \in Call /\ k # NoCall /\ k.op \in Fields \cup {"create", "delete", "close"}
    BY ClientAssumption, Records
  <1>3. DataInv' /\ Onward
    BY <1>1, QuietVersions DEF Begin, cacheVars
  <1>4. CallTypes' /\ \A d \in Callers \ {c} : Stays(d)
    BY <1>1, <1>2 DEF Begin, Goto, CallTypes, Stays, Closing
  <1>5. /\ call'[c] = k /\ pc'[c] = IF k.op \in {"create", "close"} THEN k.op ELSE "get"
        /\ original'[c] = NoObject /\ patched'[c] = FALSE
    BY <1>1 DEF Begin, Goto, CallTypes, CallerOK, Closing
  <1>6. CallerOK(c)'
    BY <1>2, <1>5 DEF CallerOK, Fields
  <1> QED
    BY <1>3, <1>4, <1>6, CallerVersions

\* A caller that waits for the object t.
LEMMA Awaits ==
  ASSUME Closing, VersionInv, DataInv', Onward, NEW c \in Callers, NEW t \in Object \cup {NoObject}, WaitFor(c, t),
         pc[c] # "idle", call[c].op # "close",
         patched' \in [Callers -> BOOLEAN], \A d \in Callers \ {c} : patched'[d] = patched[d],
         call[c].op = "create" => t # NoObject /\ t.serial = 0 /\ t.uid <= uids',
         patched'[c] => call[c].op \in Fields /\ original[c] # NoObject /\ t # NoObject /\ t.uid = original[c].uid
  PROVE  VersionInv'
  <1>1. CallTypes /\ CallerOK(c)
    BY DEF VersionInv
  <1>2. CallTypes' /\ \A d \in Callers \ {c} : Stays(d)
    BY <1>1 DEF WaitFor, Goto, CallTypes, Stays, Closing
  <1>3. pc'[c] = "wait" /\ target'[c] = t /\ call'[c] = call[c] /\ original'[c] = original[c]
    BY <1>1 DEF WaitFor, Goto, CallTypes, Closing
  <1>4. original[c] # NoObject => Precedes(call[c].name, original[c])'
    BY <1>1, <1>3, StillPrecedes
  <1>5. call[c] # NoCall
    BY <1>1 DEF CallerOK
  <1>6. CallerOK(c)'
    BY <1>3, <1>4, <1>5 DEF CallerOK
  <1> QED
    BY <1>2, <1>6, CallerVersions

LEMMA CreateVersions ==
  ASSUME Closing, VersionInv, NEW c \in Callers, CreateObject(c)
  PROVE  VersionInv'
  <1>1. CallTypes /\ CallerOK(c) /\ DataInv /\ pc[c] = "create"
    BY DEF VersionInv, CreateObject
  <1>2. call[c].op = "create" /\ ~patched[c] /\ Name(c) \in Names
    BY <1>1, AtWork DEF CallerOK
  <1>3. UNCHANGED <<objects, acked>>
    BY DEF CreateObject, cacheVars
  <1>4. CASE Return(c) /\ UNCHANGED apiVars
    BY <1>1, <1>3, <1>4, QuietVersions, Returned
  <1>5. CASE /\ server[Name(c)] = NoObject /\ Write(Name(c), NewObject) /\ uids' = uids + 1
             /\ WaitFor(c, NewObject) /\ UNCHANGED patched
    <2>1. DataInv' /\ Onward
      BY <1>1, <1>2, <1>3, <1>5, WriteVersions DEF NewVersion
    <2>2. NewObject \in Object /\ NewObject.serial = 0 /\ NewObject.uid = uids'
      BY <1>1, <1>5, ClientAssumption DEF NewObject, Object, DataInv, VersionTypes
    <2>3. NewObject.uid <= uids' /\ NewObject # NoObject
      BY <2>1, <2>2, ClientAssumption DEF DataInv, VersionTypes
    <2>4. PICK t \in Object : t = NewObject
      BY <2>2
    <2> QED
      BY <1>1, <1>2, <1>5, <2>1, <2>2, <2>3, <2>4, Awaits DEF CallTypes
  <1> QED
    BY <1>4, <1>5 DEF CreateObject

LEMMA GetVersions ==
  ASSUME Closing, VersionInv, NEW c \in Callers, GetOriginal(c)
  PROVE  VersionInv'
  <1>1. CallTypes /\ CallerOK(c) /\ DataInv /\ pc[c] = "get"
    BY DEF VersionInv, GetOriginal
  <1>2. DataInv' /\ Onward
    BY <1>1, QuietVersions DEF GetOriginal, cacheVars
  <1>3. CASE Return(c)
    BY <1>2, <1>3, Returned
  <1>4. CASE UNCHANGED <<pc, callVars>>
    BY <1>2, <1>4, NobodyStep
  <1>5. CASE /\ objects[Name(c)] # NoObject
             /\ original' = [original EXCEPT ![c] = objects[Name(c)]]
             /\ Goto(c, IF call[c].op = "delete" THEN "delete" ELSE "patch")
             /\ UNCHANGED <<call, target, patched, tries, crashed>>
    <2>1. PICK n \in Names : n = Name(c)
      BY <1>1, AtWork
    <2>2. objects[n] \in Object /\ objects[n] \in Coming(n)
      BY <1>1, <1>5, <2>1 DEF DataInv, VersionTypes, Store, Coming
    <2>3. CallTypes' /\ \A d \in Callers \ {c} : Stays(d)
      BY <1>1, <1>5, <2>1, <2>2 DEF Goto, CallTypes, Stays, Closing
    <2>4. /\ pc'[c] = IF call[c].op = "delete" THEN "delete" ELSE "patch"
          /\ original'[c] = objects[n] /\ call'[c] = call[c] /\ patched'[c] = FALSE /\ call[c] # NoCall
      BY <1>1, <1>5, <2>1 DEF Goto, CallTypes, CallerOK, Closing
    <2>5. Precedes(n, objects[n])
      BY <1>1, <1>5, <2>1, <2>2 DEF DataInv, NameOK, Precedes
    <2>6. PICK o \in Object : o = objects[n]
      BY <2>2
    <2>7. Precedes(n, o)'
      BY <1>2, <2>5, <2>6 DEF Onward
    <2>8. Precedes(call[c].name, original[c])'
      BY <2>1, <2>4, <2>6, <2>7 DEF Precedes, Name
    <2>9. CallerOK(c)'
      BY <1>1, <2>2, <2>4, <2>8, ClientAssumption DEF CallerOK
    <2> QED
      BY <1>2, <2>3, <2>9, CallerVersions
  <1> QED
    BY <1>3, <1>4, <1>5 DEF GetOriginal

LEMMA DeleteVersions ==
  ASSUME Closing, VersionInv, NEW c \in Callers, DeleteObject(c)
  PROVE  VersionInv'
  <1>1. CallTypes /\ CallerOK(c) /\ DataInv /\ pc[c] = "delete"
    BY DEF VersionInv, DeleteObject
  <1>2. ~patched[c] /\ Name(c) \in Names /\ call[c].op \notin {"create", "close"}
    BY <1>1, AtWork DEF CallerOK, Fields
  <1>3. UNCHANGED <<objects, acked>>
    BY DEF DeleteObject, cacheVars
  <1>4. CASE Return(c) /\ UNCHANGED apiVars
    BY <1>1, <1>3, <1>4, QuietVersions, Returned
  <1>5. CASE Write(Name(c), NoObject) /\ UNCHANGED uids /\ WaitFor(c, original[c]) /\ UNCHANGED patched
    <2>1. DataInv' /\ Onward
      BY <1>1, <1>2, <1>3, <1>5, WriteVersions DEF NewVersion
    <2>2. PICK t \in Object \cup {NoObject} : t = original[c]
      BY <1>1 DEF CallTypes
    <2> QED
      BY <1>1, <1>2, <1>5, <2>1, <2>2, Awaits DEF CallTypes
  <1> QED
    BY <1>4, <1>5 DEF DeleteObject

\* An accepted patch is the next version of the object on the server.
LEMMA PatchVersions ==
  ASSUME Closing, VersionInv, NoWrap, NEW c \in Callers, PatchObject(c)
  PROVE  VersionInv'
  <1> DEFINE new == Mutate(original[c], call[c])
             written == [new EXCEPT !.uid = server[Name(c)].uid]
  <1>1. CallTypes /\ CallerOK(c) /\ DataInv /\ pc[c] = "patch"
    BY DEF VersionInv, PatchObject
  <1>2. /\ ~patched[c] /\ Name(c) \in Names /\ call[c].op \in Fields /\ call[c].value \in Values \cup {Blank}
        /\ original[c] \in Object /\ original[c] # NoObject
    BY <1>1, AtWork DEF CallerOK, CallTypes
  <1>3. UNCHANGED <<objects, acked>>
    BY DEF PatchObject, cacheVars
  <1>4. new \in Object /\ new.uid = original[c].uid /\ new # NoObject
    BY <1>2, Mutated, ClientAssumption
  <1>5. CASE Return(c) /\ UNCHANGED apiVars
    BY <1>1, <1>3, <1>5, QuietVersions, Returned
  <1>6. CASE /\ server[Name(c)] # NoObject /\ server[Name(c)].serial = original[c].serial
             /\ Write(Name(c), written) /\ UNCHANGED uids
             /\ WaitFor(c, new) /\ patched' = [patched EXCEPT ![c] = TRUE]
    <2>1. server[Name(c)] \in Object /\ server[Name(c)].serial < SerialModulus - 1
      BY <1>1, <1>2, <1>6 DEF DataInv, VersionTypes, Store, NoWrap
    <2>2. new.serial = server[Name(c)].serial + 1
      BY <1>2, <1>6, <2>1, Mutated
    <2> HIDE DEF new
    <2>3. written \in Object /\ written.uid = server[Name(c)].uid /\ written.serial = new.serial
      BY <1>4, <2>1 DEF Object
    <2>4. NewVersion(Name(c), written)
      BY <1>6, <2>2, <2>3 DEF NewVersion
    <2> HIDE DEF written
    <2>5. DataInv' /\ Onward
      BY <1>1, <1>2, <1>3, <1>6, <2>4, WriteVersions
    <2>6. PICK t \in Object : t = new
      BY <1>4
    <2>7. /\ patched' \in [Callers -> BOOLEAN] /\ \A d \in Callers \ {c} : patched'[d] = patched[d]
      BY <1>1, <1>6 DEF CallTypes
    <2>8. call[c].op \notin {"create", "close"}
      BY <1>2 DEF Fields
    <2> QED
      BY <1>1, <1>2, <1>4, <1>6, <2>5, <2>6, <2>7, <2>8, Awaits
  <1>7. CASE WaitFor(c, original[c]) /\ UNCHANGED <<apiVars, patched>>
    <2>1. DataInv' /\ Onward
      BY <1>1, <1>3, <1>7, QuietVersions
    <2>2. PICK t \in Object \cup {NoObject} : t = original[c]
      BY <1>1 DEF CallTypes
    <2>3. call[c].op \notin {"create", "close"}
      BY <1>2 DEF Fields
    <2> QED
      BY <1>1, <1>2, <1>7, <2>1, <2>2, <2>3, Awaits DEF CallTypes
  <1> QED
    BY <1>5, <1>6, <1>7 DEF PatchObject

\* The acknowledged version is a creation, or the cache is past it already.
LEMMA AckVersions ==
  ASSUME VersionInv, NEW c \in Callers, pc[c] \in {"wait", "blocked"}, ConditionHolds(c), Acknowledge(c),
         UNCHANGED <<apiVars, objects>>
  PROVE  DataInv' /\ Onward
  <1>1. CallTypes /\ CallerOK(c) /\ DataInv
    BY DEF VersionInv
  <1>2. CASE UNCHANGED acked
    BY <1>1, <1>2, QuietVersions
  <1>3. CASE (WaiterOf(c) = "create" \/ patched[c]) /\ acked' = [acked EXCEPT ![Name(c)] = target[c]]
    <2>1. PICK n \in Names : n = Name(c)
      BY <1>1, AtWork
    <2>2. WaiterOf(c) = "create" => call[c].op = "create"
      BY DEF WaiterOf
    <2>3. target[c] \in Object /\ target[c] # NoObject
      BY <1>1, <1>3, <2>2 DEF CallerOK, CallTypes
    <2>4. PICK t \in Object : t = target[c]
      BY <2>3
    <2>5. ASSUME Counted(n)
          PROVE  t.uid <= uids /\ Covers(n, t)
      <3>0. /\ \A p \in Coming(n) : p.uid \in Nat /\ p.serial \in Nat
            /\ t.uid \in Nat /\ t.serial \in Nat
        BY <1>1, ComingObjects, Records DEF DataInv
      <3>1. CASE WaiterOf(c) = "create"
        BY <1>1, <2>2, <2>4, <3>0, <3>1 DEF CallerOK, Covers
      <3>2. CASE patched[c]
        <4>1. /\ t.uid = original[c].uid /\ t.uid <= uids /\ original[c] \in Object
              /\ \A p \in Coming(n) : Follows(original[c], p)
              /\ call[c].op \in Fields
          BY <1>1, <2>1, <2>4, <2>5, <3>2 DEF CallerOK, CallTypes, Name, Precedes
        <4>2. objects[n] # NoObject /\ objects[n].serial >= t.serial /\ objects[n] \in Coming(n)
          BY <2>1, <2>4, <4>1 DEF ConditionHolds, WaiterOf, Fields, Coming
        <4>3. Follows(original[c], objects[n])
          BY <4>1, <4>2
        <4>4. objects[n].uid >= t.uid
          BY <3>0, <4>1, <4>2, <4>3, Records DEF Follows
        <4>5. ASSUME NEW p \in Coming(n), p.uid = t.uid
              PROVE  p.serial >= t.serial
          <5>1. Follows(objects[n], p)
            BY <1>1, <2>5, <4>2 DEF DataInv, NameOK
          <5> QED
            BY <3>0, <4>2, <4>4, <4>5, <5>1 DEF Follows
        <4> QED
          BY <4>1, <4>5 DEF Covers
      <3> QED
        BY <1>3, <3>1, <3>2
    <2>6. acked' \in Store /\ acked'[n] = t /\ \A m \in Names \ {n} : acked'[m] = acked[m]
      BY <1>1, <1>3, <2>1, <2>4 DEF DataInv, VersionTypes, Store
    <2>7. \A m \in Names : \A p : p \in Coming(m)' <=> p \in Coming(m)
      BY DEF Coming, apiVars
    <2>8. \A m \in Names : NameOK(m)'
      <3> TAKE m \in Names
      <3>1. NameOK(m) /\ UNCHANGED <<server, objects, uids, manual>>
        BY <1>1 DEF DataInv, apiVars
      <3>2. CASE m = n
        BY <2>5, <2>6, <2>7, <3>1, <3>2 DEF NameOK, Covers, Counted, Told
      <3>3. CASE m # n
        BY <2>6, <2>7, <3>1, <3>3 DEF NameOK, Covers, Counted, Told
      <3> QED
        BY <3>2, <3>3
    <2>9. VersionTypes' /\ EventsOrdered'
      BY <1>1, <2>6 DEF DataInv, VersionTypes, EventsOrdered, Counted, apiVars
    <2>10. Onward
      BY <1>1, <2>7 DEF Onward, Precedes, Counted, Told, apiVars, DataInv, VersionTypes
    <2> QED
      BY <2>8, <2>9, <2>10 DEF DataInv
  <1> QED
    BY <1>2, <1>3 DEF Acknowledge

LEMMA FinishVersions ==
  ASSUME Closing, VersionInv, NEW c \in Callers, pc[c] \in {"wait", "blocked"}, ConditionHolds(c), Finish(c),
         UNCHANGED <<apiVars, objects>>
  PROVE  VersionInv'
  <1>1. CallTypes /\ CallerOK(c) /\ DataInv /\ pc[c] # "idle"
    BY DEF VersionInv
  <1>2. CASE Return(c) /\ Acknowledge(c)
    BY <1>2, AckVersions, Returned
  <1>3. CASE /\ WaiterOf(c) = "update" /\ ~patched[c]
             /\ Goto(c, "get") /\ UNCHANGED <<call, original, target, patched, acked>>
    <2>1. DataInv' /\ Onward
      BY <1>1, <1>3, QuietVersions
    <2>2. call[c].op \in Fields
      BY <1>1, <1>3, AtWork DEF WaiterOf, CallerOK
    <2> QED
      BY <1>1, <1>3, <2>1, <2>2, Moves
  <1> QED
    BY <1>2, <1>3 DEF Finish

LEMMA WaitVersions ==
  ASSUME Closing, VersionInv, NEW c \in Callers, CheckCondition(c) \/ WakeUp(c)
  PROVE  VersionInv'
  <1>1. DataInv /\ pc[c] \in {"wait", "blocked"} /\ UNCHANGED <<apiVars, objects>>
    BY DEF VersionInv, CheckCondition, WakeUp, cacheVars
  <1>2. CASE ConditionHolds(c) /\ Finish(c)
    BY <1>1, <1>2, FinishVersions
  <1>3. CASE ReturnLocked(c)
    BY <1>1, <1>3, QuietVersions, Returned DEF ReturnLocked
  <1>4. CASE pc[c] = "wait" /\ Register(c)
    <2>1. DataInv' /\ Onward
      BY <1>1, <1>4, QuietVersions DEF Register
    <2> QED
      BY <1>4, <2>1, Moves DEF Register, callVars
  <1>5. CASE UNCHANGED <<pc, callVars, acked>>
    BY <1>1, <1>5, QuietVersions, NobodyStep
  <1> QED
    BY <1>2, <1>3, <1>4, <1>5 DEF CheckCondition, WakeUp

LEMMA EndOfCall ==
  ASSUME Closing, VersionInv, NEW c \in Callers, TimeOut(c) \/ Cancel(c) \/ AwaitEnd(c)
  PROVE  VersionInv'
  <1>1. DataInv' /\ Onward
    BY QuietVersions DEF VersionInv, TimeOut, Cancel, AwaitEnd, cacheVars
  <1>2. CASE Return(c)
    BY <1>1, <1>2, Returned
  <1>3. CASE pc[c] = "close" /\ Goto(c, "closing") /\ UNCHANGED callVars
    BY <1>1, <1>3, Moves DEF callVars
  <1> QED
    BY <1>2, <1>3 DEF TimeOut, Cancel, AwaitEnd, ReturnClosed

LEMMA VersionStep == Inv /\ VersionInv /\ NoWrap /\ [Next]_vars => VersionInv'
  <1> SUFFICES ASSUME Inv, VersionInv, NoWrap, [Next]_vars PROVE VersionInv'
    OBVIOUS
  <1>1. Closing /\ Reporting /\ DataInv
    BY DEF Inv, VersionInv
  <1>2. CASE UNCHANGED vars
    BY <1>1, <1>2, QuietVersions, NobodyStep DEF vars, apiVars, cacheVars, callVars
  <1>3. ASSUME NEW c \in Callers, CallStep(c)
        PROVE  VersionInv'
    BY <1>1, <1>3, CreateVersions, GetVersions, DeleteVersions, PatchVersions, WaitVersions, EndOfCall DEF CallStep
  <1>4. CASE Informer \/ EndInformer \/ Relist
    <2>1. UNCHANGED <<pc, callVars>>
      BY <1>4 DEF Informer, EndInformer, Relist, LoadList, OpenCloseDone, StartInformer, Deliver
    <2>2. DataInv' /\ Onward
      <3>1. CASE OpenCloseDone
        BY <1>1, <3>1, QuietVersions DEF OpenCloseDone
      <3> QED
        BY <1>1, <1>4, <3>1, LoadVersions, StartVersions, DeliverVersions, EndVersions, RelistVersions DEF Informer
    <2> QED
      BY <2>1, <2>2, NobodyStep
  <1>5. ASSUME NEW op \in OtherOps, NEW n \in Names, OtherWrite(op, n)
        PROVE  VersionInv'
    <2>1. UNCHANGED <<pc, callVars>>
      BY <1>5 DEF OtherWrite
    <2> QED
      BY <1>1, <1>5, <2>1, OtherVersions, NobodyStep
  <1> QED
    BY <1>1, <1>2, <1>3, <1>4, <1>5, BeginVersions, EndOfCall DEF Next

LEMMA VersionInit == Init => VersionInv
  <1> SUFFICES ASSUME Init PROVE VersionInv
    OBVIOUS
  <1>1. PICK initial \in InitialObjects : server = initial
    BY DEF Init
  <1>2. uids \in Nat
    BY ClientAssumption, FS_CardinalityType DEF Init
  <1>3. /\ server \in Store /\ events = <<>> /\ objects = Nothing /\ acked = Nothing /\ Nothing \in Store
        /\ \A n \in Names : Nothing[n] = NoObject
    BY <1>1, ClientAssumption DEF Init, Store, Nothing
  <1>4. VersionTypes /\ EventsOrdered
    BY <1>2, <1>3 DEF Init, VersionTypes, EventsOrdered
  <1>5. \A n \in Names : NameOK(n)
    <2> TAKE n \in Names
    <2>1. \A p \in Coming(n) : p = server[n] /\ server[n] # NoObject
      BY <1>3 DEF Coming
    <2>2. server[n] # NoObject => server[n].uid <= uids
      BY <1>1, ClientAssumption DEF Init
    <2> QED
      BY <1>3, <2>1, <2>2, FollowsItself DEF NameOK, Told
  <1>6. CallTypes /\ \A c \in Callers : CallerOK(c)
    BY DEF Init, CallTypes, CallerOK
  <1> QED
    BY <1>4, <1>5, <1>6 DEF VersionInv, DataInv

LEMMA VersionInvariance == Spec /\ []NoWrap => []VersionInv
  BY Invariance, VersionInit, VersionStep, PTL DEF Spec

\* Until serials wrap around or are set back by hand, the cache does not fall
\* behind a version that a call has acknowledged, however updates, deletions, new lists and time-outs
\* interleave.
THEOREM AcknowledgedStay == Spec /\ []NoWrap => []AcknowledgedCached
  <1>1. VersionInv => AcknowledgedCached
    <2> SUFFICES ASSUME VersionInv, NEW n \in Names, Counted(n), acked[n] # NoObject, objects[n] # NoObject,
                        objects[n].uid = acked[n].uid
                 PROVE  objects[n].serial >= acked[n].serial
      BY DEF AcknowledgedCached, Counted
    <2>1. objects[n] \in Coming(n)
      BY DEF Coming
    <2> QED
      BY <2>1 DEF VersionInv, DataInv, NameOK, Covers
  <1> QED
    BY <1>1, VersionInvariance, PTL

\* Until serials wrap around or are set back by hand, a patch that passes its
\* test mutates the object that is on the server at that moment: equal serials
\* mean equal objects, but for what somebody has edited by hand since the serial
\* was last counted up, and of that it undoes no more than debug.
THEOREM AtomicPatches == Spec /\ []NoWrap => PatchesAtomic
  <1> DEFINE Atomic ==
        \A c \in Callers :
          LET n     == Name(c)
              right == Mutate(server[n], call[c])
          IN  /\ pc[c] = "patch" /\ patched'[c] /\ ~patched[c]
              /\ server[n].uid = original[c].uid /\ manual[n] # "reset"
              => \/ server'[n] = right
                 \/ manual[n] = "edited" /\ server'[n] = [right EXCEPT !.debug = original[c].debug]
  <1>1. Closing /\ VersionInv /\ [Next]_vars => [Atomic]_vars
    <2> SUFFICES ASSUME Closing, VersionInv, Next, NEW c \in Callers, pc[c] = "patch", patched'[c], ~patched[c],
                        server[Name(c)].uid = original[c].uid, manual[Name(c)] # "reset"
                 PROVE  \/ server'[Name(c)] = Mutate(server[Name(c)], call[c])
                        \/ /\ manual[Name(c)] = "edited"
                           /\ server'[Name(c)] = [Mutate(server[Name(c)], call[c]) EXCEPT !.debug = original[c].debug]
      OBVIOUS
    <2>1. CallTypes /\ CallerOK(c) /\ DataInv
      BY DEF VersionInv
    <2>2. PatchObject(c)
      <3>1. ASSUME NEW d \in Callers \ {c}, (\E k \in Calls : Begin(d, k)) \/ CallStep(d) \/ TimeOut(d)
            PROVE  patched'[c] = patched[c]
        BY <2>1, <3>1 DEF Begin, CallStep, TimeOut, CreateObject, GetOriginal, DeleteObject, PatchObject,
           CheckCondition, WakeUp, Cancel, AwaitEnd, ReturnClosed, Finish, Register, ReturnLocked, Return,
           callVars, CallTypes
      <3>2. CASE Informer \/ EndInformer \/ Relist \/ \E op \in OtherOps, n \in Names : OtherWrite(op, n)
        BY <3>2 DEF Informer, EndInformer, Relist, LoadList, OpenCloseDone, StartInformer, Deliver, OtherWrite,
           callVars
      <3>3. ~(\E k \in Calls : Begin(c, k)) /\ ~TimeOut(c)
        BY DEF Begin, TimeOut
      <3>4. CallStep(c) => PatchObject(c)
        BY DEF CallStep, CreateObject, GetOriginal, DeleteObject, CheckCondition, WakeUp, Cancel, AwaitEnd
      <3> QED
        BY <3>1, <3>2, <3>3, <3>4 DEF Next
    <2>3. ~Return(c) /\ ~UNCHANGED patched
      BY <2>1 DEF Return, CallTypes
    <2>4. /\ server[Name(c)] # NoObject /\ server[Name(c)].serial = original[c].serial
          /\ Write(Name(c), [Mutate(original[c], call[c]) EXCEPT !.uid = server[Name(c)].uid])
      BY <2>2, <2>3 DEF PatchObject
    <2>5. /\ Name(c) \in Names /\ call[c].value \in Values \cup {Blank} /\ call[c].op \in Fields
          /\ call[c].name = Name(c)
      BY <2>1, AtWork DEF CallerOK, Name
    <2>6. PICK n \in Names : n = Name(c)
      BY <2>5
    <2>7. PICK o \in Object : o = original[c]
      BY <2>1 DEF CallTypes, CallerOK
    <2>8. PICK p \in Object : p = server[n] /\ p \in Coming(n)
      BY <2>1, <2>4, <2>6 DEF Coming, DataInv, VersionTypes, Store
    <2>9. /\ o.uid = p.uid /\ o.serial = p.serial /\ o.answers = p.answers
          /\ manual[n] = "edited" \/ o = p
      <3>1. o.uid = p.uid /\ o.serial = p.serial /\ o.serial \in Nat /\ o.uid \in Nat
        BY <2>4, <2>6, <2>7, <2>8, Records
      <3>2. Follows(o, p) /\ Told(n, o)
        BY <2>1, <2>5, <2>6, <2>7, <2>8 DEF CallerOK, Precedes, Counted
      <3>3. manual[n] \in {"none", "edited"}
        BY <2>1, <2>6 DEF DataInv, VersionTypes
      <3>4. o.answers = p.answers
        BY <3>1, <3>2 DEF Follows
      <3>5. manual[n] = "none" => o = p
        BY <2>4, <2>6, <2>8, <3>1, <3>2 DEF Told
      <3> QED
        BY <3>1, <3>3, <3>4, <3>5
    <2>10. server'[n] = Mutate(o, call[c])
      <3>1. PICK q \in Object : q = Mutate(o, call[c]) /\ q.uid = p.uid
        BY <2>5, <2>9, Mutated
      <3>2. [q EXCEPT !.uid = p.uid] = q
        BY <3>1 DEF Object
      <3>3. server'[n] = [q EXCEPT !.uid = p.uid]
        BY <2>1, <2>4, <2>6, <2>7, <2>8, <3>1 DEF Write, Put, DataInv, VersionTypes, Store
      <3> QED
        BY <3>1, <3>2, <3>3
    <2>11. \/ Mutate(o, call[c]) = Mutate(p, call[c])
           \/ Mutate(o, call[c]) = [Mutate(p, call[c]) EXCEPT !.debug = o.debug]
      BY <2>5, <2>9, Edited
    <2> QED
      BY <2>6, <2>7, <2>8, <2>9, <2>10, <2>11
  <1>2. Inv => Closing
    BY DEF Inv
  <1>3. Spec /\ []NoWrap => [][Atomic]_vars
    <2> HIDE DEF Atomic
    <2> QED
      BY <1>1, <1>2, Invariance, VersionInvariance, PTL DEF Spec
  <1> QED
    BY <1>3 DEF PatchesAtomic
=============================================================================
