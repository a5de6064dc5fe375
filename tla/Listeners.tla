----------------------------- MODULE Listeners ------------------------------
(***************************************************************************)
(* The life of the TCP and UDP listeners (core/server.go: Start, onStopped,*)
(* Stop, shutdownListener).  Start creates the listeners in order, each    *)
(* with a goroutine that runs ListenAndServe; when one of them stops, its  *)
(* goroutine (onStopped) shuts the others down; Stop shuts all down.       *)
(*                                                                         *)
(* The actors are main, the caller of Start and then of Stop, and the two  *)
(* goroutines, named like their listener.  shutdownListener is run by all  *)
(* of them; it holds the listener's mutex while ShutdownContext waits for  *)
(* the requests in flight, so that the mutex is a variable.  The critical  *)
(* sections that do not wait are single actions.                           *)
(*                                                                         *)
(* The library (github.com/miekg/dns) is modelled as this code uses it:    *)
(* ListenAndServe calls NotifyStartedFunc once bound, returns when it is   *)
(* shut down or when reading fails, and only after the requests in flight; *)
(* ShutdownContext fails when the server was not started or was shut down  *)
(* before, and otherwise waits for ListenAndServe.                         *)
(***************************************************************************)
EXTENDS Naturals, Sequences

CONSTANTS
  Failures,  \* bound: when listeners may fail by themselves: "bind", "starting"
             \* (bound, but Start has not returned) and "serving"
  Expiring   \* bound: the contexts that may end, of "start" and "stop"

Order   == <<"tcp", "udp">>
Protos  == {"tcp", "udp"}
Actors  == Protos \cup {"main"}
Free    == "free"

VARIABLES
  created,    \* length of dnsServers
  running,    \* dnsServersRunning
  lock,       \* dnsServerLocks: the actor that holds the mutex, or Free
  closed,     \* dnsServersClose is closed
  startup,    \* what the started channel has told Start: "no", "ok", "failed"
  serverUp,   \* the library's "started" flag
  pc, todo,   \* where each actor is; the listeners it has yet to shut down
  result,     \* of Start, then of Stop
  expired,    \* the contexts that are done
  broken,     \* history: when each listener failed by itself after binding, if it did
  crashed     \* the runtime has found an unsynchronised map access

channels == <<lock, closed, startup>>
vars == <<created, running, channels, serverUp, pc, todo, result, expired, broken, crashed>>

ASSUME ListenersAssumption ==
  Failures \subseteq {"bind", "starting", "serving"} /\ Expiring \subseteq {"start", "stop"}

\* The context an actor shuts listeners down with: onStopped has that of Start.
Context(a) == IF a = "main" /\ result = "stopping" THEN "stop" ELSE "start"

\* A bound listener that has not been shut down.
Accepting(p) == pc[p] \in {"notify", "serve"} /\ serverUp[p]

\* ListenAndServe has returned, or was never called.
Ended(p) == pc[p] \notin {"listen", "notify", "serve", "ending"}

Init ==
  /\ created = 0
  /\ running = [p \in Protos |-> FALSE]
  /\ lock = [p \in Protos |-> Free]
  /\ closed = [p \in Protos |-> FALSE]
  /\ startup = [p \in Protos |-> "no"]
  /\ serverUp = [p \in Protos |-> FALSE]
  /\ pc = [a \in Actors |-> IF a = "main" THEN "start" ELSE "none"]
  /\ todo = [a \in Actors |-> <<>>]
  /\ result = "none" /\ expired = {} /\ broken = [p \in Protos |-> "no"] /\ crashed = FALSE

Goto(a, step) == pc' = [pc EXCEPT ![a] = step]

-----------------------------------------------------------------------------
(* Start.                                                                  *)

\* The listener Start is working on.
Current == Order[created]

\* Mutant of GiveUp: Stop is not called.
GiveUp_NoStop(why) ==
  /\ result' = why
  /\ Goto("main", "end")
  /\ UNCHANGED <<created, running, channels, serverUp, todo>>

\* Calls Stop on the listeners created so far; its error is ignored.
GiveUp(why) ==
  /\ result' = why
  /\ Goto("main", "shut")
  /\ todo' = [todo EXCEPT !["main"] = SubSeq(Order, 1, created)]
  /\ UNCHANGED <<created, running, channels, serverUp>>

CreateListener ==
  /\ pc["main"] = "start"
  /\ IF created < Len(Order)
       THEN /\ created' = created + 1
            /\ pc' = [pc EXCEPT !["main"] = "wait", ![Order[created + 1]] = "listen"]
            /\ UNCHANGED result
       ELSE Goto("main", "up") /\ result' = "ok" /\ UNCHANGED created
  /\ UNCHANGED <<running, channels, serverUp, todo>>

AwaitStartup ==
  /\ pc["main"] = "wait"
  /\ \/ /\ startup[Current] = "ok" /\ Goto("main", "mark")
        /\ UNCHANGED <<created, running, channels, serverUp, todo, result>>
     \/ startup[Current] = "failed" /\ GiveUp("startError")
     \/ "start" \in expired /\ GiveUp("startTimeout")

\* Start notes the listener as running, whatever has happened to it meanwhile.
MarkRunning ==
  /\ pc["main"] = "mark"
  /\ lock[Current] = Free
  /\ running' = [running EXCEPT ![Current] = TRUE]
  /\ Goto("main", "start")
  /\ UNCHANGED <<created, channels, serverUp, todo, result>>

CallStop ==
  /\ pc["main"] = "up"
  /\ result' = "stopping"
  /\ Goto("main", "shut")
  /\ todo' = [todo EXCEPT !["main"] = Order]
  /\ UNCHANGED <<created, running, channels, serverUp>>

-----------------------------------------------------------------------------
(* The goroutine of listener p.                                            *)

Bind(p) ==
  /\ pc[p] = "listen"
  /\ \/ Goto(p, "notify") /\ serverUp' = [serverUp EXCEPT ![p] = TRUE]
     \/ "bind" \in Failures /\ Goto(p, "bindFailed") /\ UNCHANGED serverUp
  /\ UNCHANGED <<created, running, channels, todo, result>>

\* NotifyStartedFunc.
NotifyStarted(p) ==
  /\ pc[p] = "notify"
  /\ lock[p] = Free
  /\ startup' = [startup EXCEPT ![p] = "ok"]
  /\ Goto(p, "serve")
  /\ UNCHANGED <<created, running, lock, closed, serverUp, todo, result>>

ReportBindFailure(p) ==
  /\ pc[p] = "bindFailed"
  /\ lock[p] = Free
  /\ startup' = [startup EXCEPT ![p] = "failed"]
  /\ closed' = [closed EXCEPT ![p] = TRUE]
  /\ Goto(p, "done")
  /\ UNCHANGED <<created, running, lock, serverUp, todo, result>>

\* The accept loop ends because the listener was shut down.
LeaveLoop(p) ==
  /\ pc[p] = "serve" /\ ~serverUp[p]
  /\ Goto(p, "ending")
  /\ UNCHANGED <<created, running, channels, serverUp, todo, result>>

\* The requests in flight are finished and ListenAndServe returns.
ReturnFromServe(p) ==
  /\ pc[p] = "ending"
  /\ Goto(p, "returned")
  /\ UNCHANGED <<created, running, channels, serverUp, todo, result>>

\* The listeners created so far, without p: none, or the other one.
OthersThan(p) ==
  IF created = Len(Order) THEN IF p = "tcp" THEN <<"udp">> ELSE <<"tcp">> ELSE <<>>

\* Mutant of OnStopped: the flag of the listener is not reset.
OnStopped_StillRunning(p) ==
  /\ pc[p] = "returned"
  /\ lock[p] = Free
  /\ Goto(p, "shut")
  /\ todo' = [todo EXCEPT ![p] = OthersThan(p)]
  /\ UNCHANGED <<created, running, channels, serverUp, result>>

\* Mutant of OnStopped: the other listeners are left alone.
OnStopped_Alone(p) ==
  /\ pc[p] = "returned"
  /\ lock[p] = Free
  /\ running' = [running EXCEPT ![p] = FALSE]
  /\ Goto(p, "close")
  /\ UNCHANGED <<created, channels, serverUp, todo, result>>

\* Mutant of OnStopped: the mutex is not released.
OnStopped_NoUnlock(p) ==
  /\ pc[p] = "returned"
  /\ lock[p] = Free
  /\ lock' = [lock EXCEPT ![p] = p]
  /\ running' = [running EXCEPT ![p] = FALSE]
  /\ Goto(p, "shut")
  /\ todo' = [todo EXCEPT ![p] = OthersThan(p)]
  /\ UNCHANGED <<created, closed, startup, serverUp, result>>

\* onStopped: a value receiver, so that it sees the listeners created so far.
\* (The copy is made by the call, server.go:402, and here with the mutex: that the
\* second listener is created between the two is left out.  While Start has one
\* listener nobody else holds the mutex, so nothing but the scheduler lies between.)
OnStopped(p) ==
  /\ pc[p] = "returned"
  /\ lock[p] = Free
  /\ running' = [running EXCEPT ![p] = FALSE]
  /\ Goto(p, "shut")
  /\ todo' = [todo EXCEPT ![p] = OthersThan(p)]
  /\ UNCHANGED <<created, channels, serverUp, result>>

CloseChannel(p) ==
  /\ pc[p] = "close"
  /\ closed' = [closed EXCEPT ![p] = TRUE]
  /\ Goto(p, "done")
  /\ UNCHANGED <<created, running, lock, startup, serverUp, todo, result>>

-----------------------------------------------------------------------------
(* shutdownListener for each of todo[a], in Stop and in onStopped.         *)

Target(a) == Head(todo[a])

NextTarget(a) == Goto(a, "shut") /\ todo' = [todo EXCEPT ![a] = Tail(@)] /\ UNCHANGED result

\* An error ends Stop and is logged by onStopped.
ShutdownError(a) ==
  IF a = "main"
    THEN /\ Goto(a, "end") /\ UNCHANGED todo
         /\ result' = IF result = "stopping" THEN "stopError" ELSE result
    ELSE NextTarget(a)

AllShut(a) ==
  /\ pc[a] = "shut" /\ todo[a] = <<>>
  /\ Goto(a, IF a = "main" THEN "end" ELSE "close")
  /\ result' = IF a = "main" /\ result = "stopping" THEN "stopped" ELSE result
  /\ UNCHANGED <<created, running, channels, serverUp, todo>>

\* Mutant of BeginShutdown: a listener whose mutex is taken is passed over.
BeginShutdown_SkipLocked(a) ==
  /\ pc[a] = "shut" /\ todo[a] # <<>>
  /\ IF ~running[Target(a)] \/ lock[Target(a)] # Free
       THEN NextTarget(a) /\ UNCHANGED <<running, lock, serverUp>>
       ELSE IF serverUp[Target(a)]
         THEN /\ lock' = [lock EXCEPT ![Target(a)] = a]
              /\ serverUp' = [serverUp EXCEPT ![Target(a)] = FALSE]
              /\ Goto(a, "drain")
              /\ UNCHANGED <<running, todo, result>>
         ELSE /\ running' = [running EXCEPT ![Target(a)] = FALSE]
              /\ ShutdownError(a)
              /\ UNCHANGED <<lock, serverUp>>
  /\ UNCHANGED <<created, closed, startup>>

\* Takes the mutex and, for a running listener, calls ShutdownContext.
BeginShutdown(a) ==
  /\ pc[a] = "shut" /\ todo[a] # <<>>
  /\ lock[Target(a)] = Free
  /\ \/ ~running[Target(a)] /\ NextTarget(a) /\ UNCHANGED <<running, lock, serverUp>>
     \/ /\ running[Target(a)] /\ serverUp[Target(a)]
        /\ lock' = [lock EXCEPT ![Target(a)] = a]
        /\ serverUp' = [serverUp EXCEPT ![Target(a)] = FALSE]
        /\ Goto(a, "drain")
        /\ UNCHANGED <<running, todo, result>>
     \/ /\ running[Target(a)] /\ ~serverUp[Target(a)]
        /\ running' = [running EXCEPT ![Target(a)] = FALSE]
        /\ ShutdownError(a)
        /\ UNCHANGED <<lock, serverUp>>
  /\ UNCHANGED <<created, closed, startup>>

\* Mutant of EndShutdown: the mutex is not released on a timeout.
EndShutdown_KeepLock(a) ==
  /\ pc[a] = "drain"
  /\ \/ /\ Ended(Target(a)) /\ Goto(a, "join")
        /\ lock' = [lock EXCEPT ![Target(a)] = Free]
        /\ UNCHANGED <<running, todo, result>>
     \/ /\ Context(a) \in expired
        /\ running' = [running EXCEPT ![Target(a)] = FALSE]
        /\ ShutdownError(a)
        /\ UNCHANGED lock
  /\ UNCHANGED <<created, closed, startup, serverUp>>

\* ShutdownContext returns and the mutex is released.
EndShutdown(a) ==
  /\ pc[a] = "drain"
  /\ lock' = [lock EXCEPT ![Target(a)] = Free]
  /\ \/ Ended(Target(a)) /\ Goto(a, "join") /\ UNCHANGED <<running, todo, result>>
     \/ /\ Context(a) \in expired
        /\ running' = [running EXCEPT ![Target(a)] = FALSE]
        /\ ShutdownError(a)
  /\ UNCHANGED <<created, closed, startup, serverUp>>

JoinGoroutine(a) ==
  /\ pc[a] = "join"
  /\ \/ closed[Target(a)] /\ NextTarget(a)
     \/ Context(a) \in expired /\ ShutdownError(a)
  /\ UNCHANGED <<created, running, channels, serverUp>>

-----------------------------------------------------------------------------
(* The environment.                                                        *)

\* Reading from the socket fails: the loop ends, the library's flag stays.
Break(p) ==
  /\ pc[p] = "serve" /\ serverUp[p]
  /\ LET when == IF result = "none" THEN "starting" ELSE "serving" IN
       when \in Failures /\ broken' = [broken EXCEPT ![p] = when]
  /\ Goto(p, "ending")
  /\ UNCHANGED <<created, running, channels, serverUp, todo, result, expired, crashed>>

Expire(c) ==
  /\ c \in Expiring \ expired
  /\ c = "stop" => result = "stopping"
  /\ expired' = expired \cup {c}
  /\ UNCHANGED <<created, running, channels, serverUp, pc, todo, result, broken, crashed>>

\* The maps have no mutex of their own: entries of one map are guarded by
\* different mutexes, or by none while Start adds a listener.
WritesMaps(a) ==
  \/ pc[a] = "start" /\ created \in 1..(Len(Order) - 1)
  \/ pc[a] \in {"mark", "returned"}
ReadsMaps(a) == pc[a] = "shut" /\ todo[a] # <<>>
EntryOf(a) == CASE pc[a] = "start" -> Free
                [] pc[a] = "mark" -> Current
                [] pc[a] = "returned" -> a
                [] pc[a] = "shut" -> Target(a)
MapRace ==
  \E a \in Actors : \E b \in Actors \ {a} :
    WritesMaps(a) /\ (WritesMaps(b) \/ ReadsMaps(b)) /\ EntryOf(a) # EntryOf(b)

\* The Go runtime ends the process when it notices such an access.
Crash ==
  /\ MapRace
  /\ crashed' = TRUE
  /\ UNCHANGED <<created, running, channels, serverUp, pc, todo, result, expired, broken>>

Shutdown(a) == AllShut(a) \/ BeginShutdown(a) \/ EndShutdown(a) \/ JoinGoroutine(a)

Start == CreateListener \/ AwaitStartup \/ MarkRunning

Serve(p) ==
  \/ Bind(p) \/ NotifyStarted(p) \/ ReportBindFailure(p) \/ LeaveLoop(p) \/ ReturnFromServe(p)
  \/ OnStopped(p) \/ CloseChannel(p)

MainStep      == (Start \/ Shutdown("main")) /\ UNCHANGED <<expired, broken, crashed>>
Goroutine(p)  == (Serve(p) \/ Shutdown(p)) /\ UNCHANGED <<expired, broken, crashed>>

\* Start was interrupted, or overtaken by a failure of a listener it has just
\* started: a listener may be abandoned, or goroutines wait for each other.
Disturbed == "start" \in expired \/ \E p \in Protos : broken[p] = "starting"

\* Only here may the system stop.
Terminated ==
  /\ \/ crashed \/ Disturbed
     \/ pc["main"] = "end" /\ \A p \in Protos : pc[p] \in {"none", "done"}
  /\ UNCHANGED vars

Next ==
  \/ ~crashed /\ MainStep
  \/ ~crashed /\ CallStop /\ UNCHANGED <<expired, broken, crashed>>
  \/ ~crashed /\ \E p \in Protos : Goroutine(p) \/ Break(p)
  \/ ~crashed /\ \E c \in {"start", "stop"} : Expire(c)
  \/ ~crashed /\ Crash
  \/ Terminated

Spec == Init /\ [][Next]_vars

\* Goroutines are scheduled, requests in flight finish (RequestsFinish of
\* DnsServer), mutexes are handed over, and the deadline of Stop passes.
Fairness ==
  /\ WF_vars(~crashed /\ MainStep)
  /\ \A p \in Protos : WF_vars(~crashed /\ Goroutine(p))
  /\ WF_vars(~crashed /\ Expire("stop"))
FairSpec == Spec /\ Fairness

-----------------------------------------------------------------------------
(* Properties.                                                             *)

\* The types, and the mutex discipline: a mutex is held exactly while its
\* holder is inside ShutdownContext.
TypeOK ==
  /\ created \in 0..Len(Order)
  /\ running \in [Protos -> BOOLEAN] /\ closed \in [Protos -> BOOLEAN]
  /\ serverUp \in [Protos -> BOOLEAN]
  /\ startup \in [Protos -> {"no", "ok", "failed"}]
  /\ pc \in [Actors -> {"none", "start", "wait", "mark", "up", "end", "listen", "notify", "serve",
                        "ending", "returned", "bindFailed", "shut", "drain", "join", "close", "done"}]
  /\ todo \in [Actors -> {<<>>, <<"tcp">>, <<"udp">>, Order}]
  /\ result \in {"none", "ok", "startError", "startTimeout", "stopping", "stopped", "stopError"}
  /\ expired \subseteq {"start", "stop"} /\ broken \in [Protos -> {"no", "starting", "serving"}] /\ crashed \in BOOLEAN
  /\ \A p \in Protos :
       lock[p] \in Actors \cup {Free}
         /\ \A a \in Actors : lock[p] = a <=> pc[a] = "drain" /\ Target(a) = p

\* When Stop returns nil no listener accepts messages and no request is in
\* flight, even if the listeners failed or their goroutines were shutting
\* each other down at that moment (core/server.go:437-447): as long as the
\* context of Start, which those goroutines use, lives.
StoppedIsQuiet ==
  result = "stopped" /\ "start" \notin expired => \A p \in Protos : Ended(p)

\* A Start that reports the error of a listener leaves none behind, while its
\* context, with which it calls Stop, lives (core/server.go:120-123).
FailedStartIsQuiet ==
  result = "startError" /\ pc["main"] = "end" /\ "start" \notin expired =>
    \A p \in Protos : Ended(p)

\* Stop fails only when a context has ended or a listener has failed by
\* itself: the goroutine that Stop wakes up (core/server.go:417-434) never
\* gets in its way.
StopErrorExplained == result = "stopError" => expired # {} \/ \E p \in Protos : broken[p] # "no"

\* Stop, with any deadline, returns.
StopReturns == result = "stopping" ~> result \in {"stopped", "stopError"} \/ crashed

SomeEnded ==
  result \in {"ok", "stopping", "stopped", "stopError"} /\ \E p \in Protos : Ended(p)
AllDone == \A p \in Protos : pc[p] = "done"

\* The two listeners end together: once one of a started server has ended,
\* whatever the reason, all goroutines end (core/server.go:417-434), unless
\* it failed while Start was still at work.
EndTogether == SomeEnded ~> crashed \/ Disturbed \/ AllDone
=============================================================================
