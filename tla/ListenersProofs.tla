--------------------------- MODULE ListenersProofs ---------------------------
(***************************************************************************)
(* Proofs about the listeners' life: the mutex discipline, that nothing is *)
(* left behind by a Stop that succeeds or by a Start that fails, and that  *)
(* Stop fails for a reason only; for every kind of failure and every       *)
(* context that may end.                                                   *)
(***************************************************************************)
EXTENDS Listeners, SequenceTheorems, TLAPS

MainSteps == {"start", "wait", "mark", "up", "shut", "drain", "join", "end"}
GoroutineSteps ==
  {"none", "listen", "notify", "serve", "ending", "returned", "bindFailed", "shut", "drain",
   "join", "close", "done"}

\* The types, with the steps and the targets of each actor told apart.
TypeInv ==
  /\ created \in 0..2
  /\ running \in [Protos -> BOOLEAN] /\ closed \in [Protos -> BOOLEAN]
  /\ serverUp \in [Protos -> BOOLEAN]
  /\ startup \in [Protos -> {"no", "ok", "failed"}]
  /\ lock \in [Protos -> Actors \cup {Free}]
  /\ pc \in [Actors -> MainSteps \cup GoroutineSteps]
  /\ pc["main"] \in MainSteps /\ \A p \in Protos : pc[p] \in GoroutineSteps
  /\ todo \in [Actors -> {<<>>, <<"tcp">>, <<"udp">>, Order}]
  /\ todo["tcp"] \in {<<>>, <<"udp">>} /\ todo["udp"] \in {<<>>, <<"tcp">>}
  /\ result \in {"none", "ok", "startError", "startTimeout", "stopping", "stopped", "stopError"}
  /\ expired \subseteq {"start", "stop"}
  /\ broken \in [Protos -> {"no", "starting", "serving"}]
  /\ crashed \in BOOLEAN

\* A mutex is held exactly while its holder is inside ShutdownContext.
Guarded ==
  /\ \A p \in Protos : \A a \in Actors : lock[p] = a <=> pc[a] = "drain" /\ Target(a) = p
  /\ \A a \in Actors : pc[a] \in {"drain", "join"} => todo[a] # <<>>

\* Where main is and what Start and Stop have returned.
MainAt ==
  /\ pc["main"] \in {"start", "wait", "mark"} <=> result = "none"
  /\ pc["main"] = "up" <=> result = "ok"
  /\ result = "stopping" => pc["main"] # "end"
  /\ result \in {"stopped", "stopError"} => pc["main"] = "end"
  /\ pc["main"] \in {"wait", "mark"} \/ result = "startError" => created # 0
  /\ result \notin {"none", "startError", "startTimeout"} \/ todo["main"] = Order => created = 2

\* Which listeners exist, and what has been heard from them.
Begun ==
  /\ pc["tcp"] = "none" <=> created = 0
  /\ pc["udp"] = "none" <=> created # 2
  /\ pc["main"] = "mark" => startup[Current] = "ok"
  /\ result = "startError" => startup[Current] = "failed"
  /\ \A p \in Protos :
       /\ startup[p] = "ok" \/ running[p] => pc[p] \notin {"none", "listen", "notify", "bindFailed"}
       /\ startup[p] = "failed" \/ closed[p] => pc[p] = "done"
       /\ pc[p] = "notify" => serverUp[p]

\* The context of Start lives, and no Stop has failed.
Undisturbed == "start" \notin expired /\ result # "stopError"

\* Start is no longer waiting for listener p, or to note it as running.
Attended(p) == pc[p] # "none" /\ ~(pc["main"] \in {"wait", "mark"} /\ p = Current)

\* No listener is lost sight of: one that has not ended is noted as running,
\* and one that was told to stop is waited for under its mutex.
Watched ==
  Undisturbed =>
    \A p \in Protos :
      /\ Attended(p) => running[p] \/ Ended(p)
      /\ ~Ended(p) /\ pc[p] # "listen" /\ ~serverUp[p] => lock[p] # Free

\* The listeners that a shuts down after this moment.
Left(a) == {p \in Protos : todo[a] \in {<<p>>, Order}}

\* Those that Stop has been through have ended.
Swept ==
  Undisturbed /\ result \in {"stopping", "startError"} /\ pc["main"] \in {"shut", "drain", "join"} =>
    /\ \A p \in Protos \ Left("main") : Ended(p)
    /\ pc["main"] = "join" => Ended(Target("main"))

\* What StoppedIsQuiet and FailedStartIsQuiet say.
Quiet ==
  Undisturbed /\ (result = "stopped" \/ (result = "startError" /\ pc["main"] = "end")) =>
    \A p \in Protos : Ended(p)

\* No context has ended and no listener has failed after it was bound.
Sound == expired = {} /\ \A p \in Protos : broken[p] = "no"

Serving(p) == pc[p] = "serve" /\ serverUp[p] /\ running[p]

\* Until Stop is called, a sound listener does nothing but start and serve.
Calm ==
  Sound /\ result \in {"none", "ok"} =>
    \A p \in Protos :
      /\ pc[p] \in {"none", "listen", "notify", "serve", "bindFailed", "done"}
      /\ pc[p] = "done" => startup[p] = "failed"
      /\ pc[p] = "serve" => serverUp[p]
      /\ Attended(p) => Serving(p)

\* The TCP goroutine, once it has been shut down by Stop, shuts down UDP and
\* is done after UDP is; each has noted that it runs no more.
TcpFirst ==
  /\ pc["tcp"] \in {"returned", "shut", "drain", "join", "close", "done"}
  /\ pc["tcp"] # "returned" => ~running["tcp"]
  /\ pc["tcp"] = "returned" \/ (pc["tcp"] = "shut" /\ todo["tcp"] # <<>>) => Serving("udp")
  /\ pc["tcp"] = "drain" => pc["udp"] \in {"serve", "ending", "returned"}
  /\ pc["tcp"] = "join" =>
       /\ pc["udp"] \in {"returned", "shut", "close", "done"}
       /\ pc["udp"] # "returned" => ~running["udp"]
  /\ pc["tcp"] \in {"close", "done"} \/ (pc["tcp"] = "shut" /\ todo["tcp"] = <<>>) =>
       pc["udp"] = "done" /\ ~running["udp"]

\* The stages of Stop on a sound server: before TCP, with TCP, after TCP.
Stage ==
  Sound /\ result = "stopping" =>
    \/ pc["main"] = "shut" /\ todo["main"] = Order /\ \A p \in Protos : Serving(p)
    \/ /\ pc["main"] = "drain" /\ todo["main"] = Order /\ Serving("udp")
       /\ pc["tcp"] \in {"serve", "ending", "returned"}
    \/ pc["main"] = "join" /\ todo["main"] = Order /\ TcpFirst
    \/ /\ pc["main"] = "shut" /\ todo["main"] \in {<<>>, <<"udp">>}
       /\ pc["tcp"] = "done" /\ TcpFirst

Explained == result = "stopError" => ~Sound

Inv ==
  /\ TypeInv /\ Guarded /\ MainAt /\ Begun /\ Watched /\ Swept /\ Quiet
  /\ Calm /\ Stage /\ Explained
------------------------------------------------------------------------------
(* The lists of listeners.                                                *)

USE DEF Protos, Actors, Free

\* The sequences of listeners that are shut down.
LEMMA Targets ==
  /\ Head(Order) = "tcp" /\ Tail(Order) = <<"udp">> /\ Len(Order) = 2
  /\ Order[1] = "tcp" /\ Order[2] = "udp"
  /\ \A p \in Protos : Head(<<p>>) = p /\ Tail(<<p>>) = <<>> /\ <<p>> # <<>> /\ <<p>> # Order
  /\ <<"tcp">> # <<"udp">> /\ Order # <<>>
  BY DEF Order

\* The listeners created so far, which a Start that gives up stops.
LEMMA CreatedSoFar ==
  SubSeq(Order, 1, 1) = <<"tcp">> /\ SubSeq(Order, 1, 2) = Order
  <1>1. Order \in Seq(Protos) /\ Len(Order) = 2 /\ Order[1] = "tcp"
    BY DEF Order
  <1>2. SubSeq(Order, 1, 2) = Order
    BY <1>1, SubSeqFull
  <1> DEFINE s == SubSeq(Order, 1, 1)
  <1>3. s \in Seq(Protos) /\ Len(s) = 1 /\ s[1] = "tcp"
    <2>1. \A i \in 1..1 : Order[i] \in Protos
      BY <1>1
    <2>2. s \in Seq(Protos) /\ Len(s) = 1
      BY <1>1, <2>1, SubSeqProperties
    <2>3. \A i \in 1..1-1+1 : s[i] = Order[1+i-1]
      BY <1>1, <2>1, SubSeqProperties
    <2> QED
      BY <1>1, <2>2, <2>3
  <1> HIDE DEF s
  <1>5. s = <<"tcp">>
    BY <1>3
  <1> QED
    BY <1>2, <1>5 DEF s

\* What is left to shut down, when there is something.
LEMMA TargetType ==
  ASSUME TypeInv, NEW a \in Actors, todo[a] # <<>>
  PROVE  /\ Target(a) \in Protos \ {a}
         /\ Tail(todo[a]) \in {<<>>, <<"udp">>}
         /\ a # "main" => Tail(todo[a]) = <<>>
  BY Targets DEF TypeInv, Target

\* Going on to the next listener, or not, keeps the types of the shutdown's state.
LEMMA PassOn ==
  ASSUME TypeInv, NEW a \in Actors, todo[a] # <<>>, NextTarget(a) \/ ShutdownError(a)
  PROVE  /\ pc' \in [Actors -> MainSteps \cup GoroutineSteps]
         /\ pc'["main"] \in MainSteps /\ \A p \in Protos : pc'[p] \in GoroutineSteps
         /\ todo' \in [Actors -> {<<>>, <<"tcp">>, <<"udp">>, Order}]
         /\ todo'["tcp"] \in {<<>>, <<"udp">>} /\ todo'["udp"] \in {<<>>, <<"tcp">>}
         /\ result' \in {"none", "ok", "startError", "startTimeout", "stopping", "stopped", "stopError"}
  <1>1. CASE NextTarget(a)
    BY <1>1, TargetType DEF TypeInv, NextTarget, Goto, MainSteps, GoroutineSteps
  <1>2. CASE a = "main" /\ ShutdownError(a)
    BY <1>2 DEF TypeInv, ShutdownError, Goto, MainSteps, GoroutineSteps
  <1> QED
    BY <1>1, <1>2 DEF ShutdownError
\* Going on takes the target off the list.
LEMMA LeftShrinks ==
  ASSUME TypeInv, NEW a \in Actors, todo[a] # <<>>, todo'[a] = Tail(todo[a])
  PROVE  Left(a)' = Left(a) \ {Target(a)}
  <1>1. CASE todo[a] = Order
    <2>1. Left(a) = {"tcp", "udp"} /\ Target(a) = "tcp"
      BY <1>1, Targets DEF Left, Target
    <2>2. todo'[a] = <<"udp">>
      BY <1>1, Targets
    <2>3. Left(a)' = {"udp"}
      BY <2>2, Targets DEF Left
    <2> QED
      BY <2>1, <2>3
  <1>2. ASSUME NEW p \in Protos, todo[a] = <<p>>
        PROVE Left(a)' = Left(a) \ {Target(a)}
    <2>1. Left(a) = {p} /\ Target(a) = p
      BY <1>2, Targets DEF Left, Target
    <2>2. todo'[a] = <<>>
      BY <1>2, Targets
    <2>3. Left(a)' = {}
      BY <2>2, Targets DEF Left
    <2> QED
      BY <2>1, <2>3
  <1> QED
    BY <1>1, <1>2 DEF TypeInv

------------------------------------------------------------------------------
(* Start and the call of Stop.                                             *)

\* Start adds a listener.
LEMMA CreateListenerStep ==
  ASSUME Inv, CreateListener, UNCHANGED <<expired, broken, crashed>>
  PROVE  Inv'
  <1>1. TypeInv'
    BY Targets DEF Inv, TypeInv, MainSteps, GoroutineSteps, CreateListener, Goto, channels
  <1>2. Guarded'
    BY Targets DEF Inv, TypeInv, MainAt, Begun, Guarded, Target, CreateListener, Goto, channels
  <1>3. MainAt'
    BY Targets DEF Inv, TypeInv, MainAt, CreateListener, Goto, channels
  <1>4. Begun'
    BY Targets DEF Inv, TypeInv, MainAt, Begun, Current, CreateListener, Goto, channels
  <1>5. Watched'
    BY DEF Inv, TypeInv, MainAt, Watched, Undisturbed, Attended, Ended, Current, CreateListener,
       Goto, channels
  <1>6. Swept'
    BY DEF Inv, TypeInv, Swept, Undisturbed, Left, Ended, Target, CreateListener, Goto, channels
  <1>7. Quiet'
    BY DEF Inv, TypeInv, MainAt, Quiet, Undisturbed, Ended, CreateListener, Goto, channels
  <1>8. Calm'
    BY DEF Inv, TypeInv, MainAt, Calm, Sound, Attended, Serving, Current, CreateListener, Goto,
       channels
  <1>9. Stage'
    BY DEF Inv, TypeInv, Stage, Sound, TcpFirst, Serving, CreateListener, Goto, channels
  <1>10. Explained'
    BY DEF Inv, TypeInv, Explained, Sound, CreateListener, Goto, channels
  <1> QED
    BY <1>1, <1>2, <1>3, <1>4, <1>5, <1>6, <1>7, <1>8, <1>9, <1>10 DEF Inv

\* Start hears from the listener it added, or gives up.
LEMMA AwaitStartupStep ==
  ASSUME Inv, AwaitStartup, UNCHANGED <<expired, broken, crashed>>
  PROVE  Inv'
  <1>1. TypeInv'
    <2>1. CASE startup[Current] = "ok" /\ Goto("main", "mark") /\ UNCHANGED <<todo, result>>
      BY <2>1 DEF Inv, TypeInv, AwaitStartup, GiveUp, Goto, channels, MainSteps, GoroutineSteps
    <2>2. ASSUME NEW why \in {"startError", "startTimeout"}, GiveUp(why)
          PROVE TypeInv'
      <3>1. created \in {1, 2}
        BY DEF Inv, TypeInv, MainAt, AwaitStartup
      <3>2. SubSeq(Order, 1, created) \in {<<"tcp">>, Order}
        BY <3>1, CreatedSoFar
      <3> QED
        BY <2>2, <3>2 DEF Inv, TypeInv, GiveUp, Goto, channels, MainSteps, GoroutineSteps
    <2> QED
      BY <2>1, <2>2 DEF AwaitStartup
  <1>2. Guarded'
    BY DEF Inv, TypeInv, Guarded, Target, AwaitStartup, GiveUp, Goto, channels
  <1>3. MainAt'
    BY Targets, CreatedSoFar DEF Inv, TypeInv, MainAt, AwaitStartup, GiveUp, Goto, channels
  <1>4. Begun'
    BY DEF Inv, TypeInv, Begun, Current, AwaitStartup, GiveUp, Goto, channels
  <1>5. Watched'
    BY DEF Inv, TypeInv, MainAt, Begun, Current, Watched, Undisturbed, Attended, Ended,
       AwaitStartup, GiveUp, Goto, channels
  <1>6. Swept'
    BY Targets, CreatedSoFar DEF Inv, TypeInv, MainAt, Begun, Current, Swept, Undisturbed, Left,
       Ended, AwaitStartup, GiveUp, Goto, channels
  <1>7. Quiet'
    BY DEF Inv, TypeInv, Quiet, Undisturbed, Ended, AwaitStartup, GiveUp, Goto, channels
  <1>8. Calm'
    BY DEF Inv, TypeInv, Calm, Sound, Attended, Serving, Current, AwaitStartup, GiveUp, Goto,
       channels
  <1>9. Stage'
    BY DEF Inv, TypeInv, Stage, Sound, TcpFirst, Serving, AwaitStartup, GiveUp, Goto, channels
  <1>10. Explained'
    BY DEF Inv, TypeInv, Explained, Sound, AwaitStartup, GiveUp, Goto, channels
  <1> QED
    BY <1>1, <1>2, <1>3, <1>4, <1>5, <1>6, <1>7, <1>8, <1>9, <1>10 DEF Inv

\* Start notes the listener as running.
LEMMA MarkRunningStep ==
  ASSUME Inv, MarkRunning, UNCHANGED <<expired, broken, crashed>>
  PROVE  Inv'
  <1>1. TypeInv'
    BY DEF Inv, TypeInv, MainSteps, GoroutineSteps, MarkRunning, Goto, channels
  <1>2. Guarded'
    BY DEF Inv, TypeInv, Guarded, Target, MarkRunning, Goto, channels
  <1>3. MainAt'
    BY DEF Inv, TypeInv, MainAt, MarkRunning, Goto, channels
  <1>4. Begun'
    BY DEF Inv, TypeInv, Begun, Current, MarkRunning, Goto, channels
  <1>5. Watched'
    BY DEF Inv, TypeInv, Watched, Undisturbed, Attended, Ended, Current, MarkRunning, Goto, channels
  <1>6. Swept'
    BY DEF Inv, TypeInv, Swept, Undisturbed, Left, Ended, Target, MarkRunning, Goto, channels
  <1>7. Quiet'
    BY DEF Inv, TypeInv, Quiet, Undisturbed, Ended, MarkRunning, Goto, channels
  <1>8. Calm'
    BY DEF Inv, TypeInv, MainAt, Begun, Current, Calm, Sound, Attended, Serving, MarkRunning, Goto,
       channels
  <1>9. Stage'
    BY DEF Inv, TypeInv, Stage, Sound, TcpFirst, Serving, MarkRunning, Goto, channels
  <1>10. Explained'
    BY DEF Inv, TypeInv, Explained, Sound, MarkRunning, Goto, channels
  <1> QED
    BY <1>1, <1>2, <1>3, <1>4, <1>5, <1>6, <1>7, <1>8, <1>9, <1>10 DEF Inv

\* Stop is called.
LEMMA CallStopStep ==
  ASSUME Inv, CallStop, UNCHANGED <<expired, broken, crashed>>
  PROVE  Inv'
  <1>1. TypeInv'
    BY DEF Inv, TypeInv, MainSteps, GoroutineSteps, CallStop, Goto, channels
  <1>2. Guarded'
    BY DEF Inv, TypeInv, Guarded, Target, CallStop, Goto, channels
  <1>3. MainAt'
    BY DEF Inv, TypeInv, MainAt, CallStop, Goto, channels
  <1>4. Begun'
    BY DEF Inv, TypeInv, Begun, Current, CallStop, Goto, channels
  <1>5. Watched'
    BY DEF Inv, TypeInv, MainAt, Watched, Undisturbed, Attended, Ended, Current, CallStop, Goto,
       channels
  <1>6. Swept'
    BY DEF Inv, TypeInv, Swept, Undisturbed, Left, Ended, Target, CallStop, Goto, channels
  <1>7. Quiet'
    BY DEF Inv, TypeInv, Quiet, Undisturbed, Ended, CallStop, Goto, channels
  <1>8. Calm'
    BY DEF Inv, TypeInv, Calm, Sound, Attended, Serving, Current, CallStop, Goto, channels
  <1>9. Stage'
    BY Targets DEF Inv, TypeInv, MainAt, Begun, Calm, Attended, Current, Stage, Sound, Serving,
       CallStop, Goto, channels
  <1>10. Explained'
    BY DEF Inv, TypeInv, Explained, Sound, CallStop, Goto, channels
  <1> QED
    BY <1>1, <1>2, <1>3, <1>4, <1>5, <1>6, <1>7, <1>8, <1>9, <1>10 DEF Inv

------------------------------------------------------------------------------
(* The goroutine of a listener.                                            *)

\* A listener is bound, or fails to.
LEMMA BindStep ==
  ASSUME Inv, NEW p \in Protos, Bind(p), UNCHANGED <<expired, broken, crashed>>
  PROVE  Inv'
  <1>1. TypeInv'
    <2>1. pc' = [pc EXCEPT ![p] = "notify"] \/ pc' = [pc EXCEPT ![p] = "bindFailed"]
      BY DEF Bind, Goto
    <2>2. serverUp' \in [Protos -> BOOLEAN]
      BY DEF Inv, TypeInv, Bind
    <2> QED
      BY <2>1, <2>2 DEF Inv, TypeInv, Bind, channels, MainSteps, GoroutineSteps
  <1>2. Guarded'
    BY DEF Inv, TypeInv, Guarded, Target, Bind, Goto, channels
  <1>3. MainAt'
    BY DEF Inv, TypeInv, MainAt, Bind, Goto, channels
  <1>4. Begun'
    BY DEF Inv, TypeInv, Begun, Current, Bind, Goto, channels
  <1>5. Watched'
    BY DEF Inv, TypeInv, Watched, Undisturbed, Attended, Ended, Current, Bind, Goto, channels
  <1>6. Swept'
    BY Targets DEF Inv, TypeInv, Guarded, Target, Swept, Undisturbed, Left, Ended, Bind, Goto,
       channels
  <1>7. Quiet'
    BY DEF Inv, TypeInv, Quiet, Undisturbed, Ended, Bind, Goto, channels
  <1>8. Calm'
    BY DEF Inv, TypeInv, Calm, Sound, Attended, Serving, Current, Bind, Goto, channels
  <1>9. Stage'
    BY DEF Inv, TypeInv, Stage, Sound, TcpFirst, Serving, Bind, Goto, channels
  <1>10. Explained'
    BY DEF Inv, TypeInv, Explained, Sound, Bind, Goto, channels
  <1> QED
    BY <1>1, <1>2, <1>3, <1>4, <1>5, <1>6, <1>7, <1>8, <1>9, <1>10 DEF Inv

\* A listener reports that it has started.
LEMMA NotifyStartedStep ==
  ASSUME Inv, NEW p \in Protos, NotifyStarted(p), UNCHANGED <<expired, broken, crashed>>
  PROVE  Inv'
  <1>1. TypeInv'
    BY DEF Inv, TypeInv, MainSteps, GoroutineSteps, NotifyStarted, Goto, channels
  <1>2. Guarded'
    BY DEF Inv, TypeInv, Guarded, Target, NotifyStarted, Goto, channels
  <1>3. MainAt'
    BY DEF Inv, TypeInv, MainAt, NotifyStarted, Goto, channels
  <1>4. Begun'
    BY DEF Inv, TypeInv, Begun, Current, NotifyStarted, Goto, channels
  <1>5. Watched'
    BY DEF Inv, TypeInv, Watched, Undisturbed, Attended, Ended, Current, NotifyStarted, Goto,
       channels
  <1>6. Swept'
    BY DEF Inv, TypeInv, Swept, Undisturbed, Left, Ended, Target, NotifyStarted, Goto, channels
  <1>7. Quiet'
    BY DEF Inv, TypeInv, Quiet, Undisturbed, Ended, NotifyStarted, Goto, channels
  <1>8. Calm'
    BY DEF Inv, TypeInv, MainAt, Begun, Current, Calm, Sound, Attended, Serving, NotifyStarted,
       Goto, channels
  <1>9. Stage'
    BY DEF Inv, TypeInv, Stage, Sound, TcpFirst, Serving, NotifyStarted, Goto, channels
  <1>10. Explained'
    BY DEF Inv, TypeInv, Explained, Sound, NotifyStarted, Goto, channels
  <1> QED
    BY <1>1, <1>2, <1>3, <1>4, <1>5, <1>6, <1>7, <1>8, <1>9, <1>10 DEF Inv

\* A listener that could not be bound reports it.
LEMMA ReportBindFailureStep ==
  ASSUME Inv, NEW p \in Protos, ReportBindFailure(p), UNCHANGED <<expired, broken, crashed>>
  PROVE  Inv'
  <1>1. TypeInv'
    BY DEF Inv, TypeInv, MainSteps, GoroutineSteps, ReportBindFailure, Goto, channels
  <1>2. Guarded'
    BY DEF Inv, TypeInv, Guarded, Target, ReportBindFailure, Goto, channels
  <1>3. MainAt'
    BY DEF Inv, TypeInv, MainAt, ReportBindFailure, Goto, channels
  <1>4. Begun'
    BY DEF Inv, TypeInv, Begun, Current, ReportBindFailure, Goto, channels
  <1>5. Watched'
    BY DEF Inv, TypeInv, Watched, Undisturbed, Attended, Ended, Current, ReportBindFailure, Goto,
       channels
  <1>6. Swept'
    BY DEF Inv, TypeInv, Swept, Undisturbed, Left, Ended, Target, ReportBindFailure, Goto, channels
  <1>7. Quiet'
    BY DEF Inv, TypeInv, Quiet, Undisturbed, Ended, ReportBindFailure, Goto, channels
  <1>8. Calm'
    BY DEF Inv, TypeInv, Calm, Sound, Attended, Serving, Current, ReportBindFailure, Goto, channels
  <1>9. Stage'
    BY DEF Inv, TypeInv, Stage, Sound, TcpFirst, Serving, ReportBindFailure, Goto, channels
  <1>10. Explained'
    BY DEF Inv, TypeInv, Explained, Sound, ReportBindFailure, Goto, channels
  <1> QED
    BY <1>1, <1>2, <1>3, <1>4, <1>5, <1>6, <1>7, <1>8, <1>9, <1>10 DEF Inv

\* The accept loop notices the shutdown.
LEMMA LeaveLoopStep ==
  ASSUME Inv, NEW p \in Protos, LeaveLoop(p), UNCHANGED <<expired, broken, crashed>>
  PROVE  Inv'
  <1>1. TypeInv'
    BY DEF Inv, TypeInv, MainSteps, GoroutineSteps, LeaveLoop, Goto, channels
  <1>2. Guarded'
    BY DEF Inv, TypeInv, Guarded, Target, LeaveLoop, Goto, channels
  <1>3. MainAt'
    BY DEF Inv, TypeInv, MainAt, LeaveLoop, Goto, channels
  <1>4. Begun'
    BY DEF Inv, TypeInv, Begun, Current, LeaveLoop, Goto, channels
  <1>5. Watched'
    BY DEF Inv, TypeInv, Watched, Undisturbed, Attended, Ended, Current, LeaveLoop, Goto, channels
  <1>6. Swept'
    BY DEF Inv, TypeInv, Swept, Undisturbed, Left, Ended, Target, LeaveLoop, Goto, channels
  <1>7. Quiet'
    BY DEF Inv, TypeInv, Quiet, Undisturbed, Ended, LeaveLoop, Goto, channels
  <1>8. Calm'
    BY DEF Inv, TypeInv, Calm, Sound, Attended, Serving, Current, LeaveLoop, Goto, channels
  <1>9. Stage'
    BY DEF Inv, TypeInv, Stage, Sound, TcpFirst, Serving, LeaveLoop, Goto, channels
  <1>10. Explained'
    BY DEF Inv, TypeInv, Explained, Sound, LeaveLoop, Goto, channels
  <1> QED
    BY <1>1, <1>2, <1>3, <1>4, <1>5, <1>6, <1>7, <1>8, <1>9, <1>10 DEF Inv

\* ListenAndServe returns.
LEMMA ReturnFromServeStep ==
  ASSUME Inv, NEW p \in Protos, ReturnFromServe(p), UNCHANGED <<expired, broken, crashed>>
  PROVE  Inv'
  <1>1. TypeInv'
    BY DEF Inv, TypeInv, MainSteps, GoroutineSteps, ReturnFromServe, Goto, channels
  <1>2. Guarded'
    BY DEF Inv, TypeInv, Guarded, Target, ReturnFromServe, Goto, channels
  <1>3. MainAt'
    BY DEF Inv, TypeInv, MainAt, ReturnFromServe, Goto, channels
  <1>4. Begun'
    BY DEF Inv, TypeInv, Begun, Current, ReturnFromServe, Goto, channels
  <1>5. Watched'
    BY DEF Inv, TypeInv, Watched, Undisturbed, Attended, Ended, Current, ReturnFromServe, Goto,
       channels
  <1>6. Swept'
    BY DEF Inv, TypeInv, Swept, Undisturbed, Left, Ended, Target, ReturnFromServe, Goto, channels
  <1>7. Quiet'
    BY DEF Inv, TypeInv, Quiet, Undisturbed, Ended, ReturnFromServe, Goto, channels
  <1>8. Calm'
    BY DEF Inv, TypeInv, Calm, Sound, Attended, Serving, Current, ReturnFromServe, Goto, channels
  <1>9. Stage'
    BY DEF Inv, TypeInv, Stage, Sound, TcpFirst, Serving, ReturnFromServe, Goto, channels
  <1>10. Explained'
    BY DEF Inv, TypeInv, Explained, Sound, ReturnFromServe, Goto, channels
  <1> QED
    BY <1>1, <1>2, <1>3, <1>4, <1>5, <1>6, <1>7, <1>8, <1>9, <1>10 DEF Inv

\* A goroutine begins to shut the others down.
LEMMA OnStoppedStep ==
  ASSUME Inv, NEW p \in Protos, OnStopped(p), UNCHANGED <<expired, broken, crashed>>
  PROVE  Inv'
  <1>1. TypeInv'
    BY DEF Inv, TypeInv, MainSteps, GoroutineSteps, OnStopped, OthersThan, Goto, channels
  <1>2. Guarded'
    BY DEF Inv, TypeInv, Guarded, Target, OnStopped, OthersThan, Goto, channels
  <1>3. MainAt'
    BY DEF Inv, TypeInv, MainAt, OnStopped, OthersThan, Goto, channels
  <1>4. Begun'
    BY DEF Inv, TypeInv, Begun, Current, OnStopped, OthersThan, Goto, channels
  <1>5. Watched'
    BY DEF Inv, TypeInv, Watched, Undisturbed, Attended, Ended, Current, OnStopped, OthersThan,
       Goto, channels
  <1>6. Swept'
    BY DEF Inv, TypeInv, Swept, Undisturbed, Left, Ended, Target, OnStopped, OthersThan, Goto,
       channels
  <1>7. Quiet'
    BY DEF Inv, TypeInv, Quiet, Undisturbed, Ended, OnStopped, OthersThan, Goto, channels
  <1>8. Calm'
    BY DEF Inv, TypeInv, Calm, Sound, Attended, Serving, Current, OnStopped, OthersThan, Goto,
       channels
  <1>9. Stage'
    BY Targets DEF Inv, TypeInv, Guarded, MainAt, Target, Stage, Sound, TcpFirst, Serving,
       OnStopped, OthersThan, Goto, channels
  <1>10. Explained'
    BY DEF Inv, TypeInv, Explained, Sound, OnStopped, OthersThan, Goto, channels
  <1> QED
    BY <1>1, <1>2, <1>3, <1>4, <1>5, <1>6, <1>7, <1>8, <1>9, <1>10 DEF Inv

\* A goroutine is done.
LEMMA CloseChannelStep ==
  ASSUME Inv, NEW p \in Protos, CloseChannel(p), UNCHANGED <<expired, broken, crashed>>
  PROVE  Inv'
  <1>1. TypeInv'
    BY DEF Inv, TypeInv, MainSteps, GoroutineSteps, CloseChannel, Goto, channels
  <1>2. Guarded'
    BY DEF Inv, TypeInv, Guarded, Target, CloseChannel, Goto, channels
  <1>3. MainAt'
    BY DEF Inv, TypeInv, MainAt, CloseChannel, Goto, channels
  <1>4. Begun'
    BY DEF Inv, TypeInv, Begun, Current, CloseChannel, Goto, channels
  <1>5. Watched'
    BY DEF Inv, TypeInv, Watched, Undisturbed, Attended, Ended, Current, CloseChannel, Goto,
       channels
  <1>6. Swept'
    BY DEF Inv, TypeInv, Swept, Undisturbed, Left, Ended, Target, CloseChannel, Goto, channels
  <1>7. Quiet'
    BY DEF Inv, TypeInv, Quiet, Undisturbed, Ended, CloseChannel, Goto, channels
  <1>8. Calm'
    BY DEF Inv, TypeInv, Calm, Sound, Attended, Serving, Current, CloseChannel, Goto, channels
  <1>9. Stage'
    BY DEF Inv, TypeInv, Stage, Sound, TcpFirst, Serving, CloseChannel, Goto, channels
  <1>10. Explained'
    BY DEF Inv, TypeInv, Explained, Sound, CloseChannel, Goto, channels
  <1> QED
    BY <1>1, <1>2, <1>3, <1>4, <1>5, <1>6, <1>7, <1>8, <1>9, <1>10 DEF Inv

------------------------------------------------------------------------------
(* Shutting listeners down.                                                *)

\* There is no listener left to shut down.
LEMMA AllShutStep ==
  ASSUME Inv, NEW a \in Actors, AllShut(a), UNCHANGED <<expired, broken, crashed>>
  PROVE  Inv'
  <1>1. TypeInv'
    BY DEF Inv, TypeInv, MainSteps, GoroutineSteps, AllShut, Goto, channels
  <1>2. Guarded'
    BY DEF Inv, TypeInv, Guarded, Target, AllShut, Goto, channels
  <1>3. MainAt'
    BY DEF Inv, TypeInv, MainAt, AllShut, Goto, channels
  <1>4. Begun'
    BY DEF Inv, TypeInv, Begun, Current, AllShut, Goto, channels
  <1>5. Watched'
    BY DEF Inv, TypeInv, Watched, Undisturbed, Attended, Ended, Current, AllShut, Goto, channels
  <1>6. Swept'
    BY DEF Inv, TypeInv, Swept, Undisturbed, Left, Ended, Target, AllShut, Goto, channels
  <1>7. Quiet'
    BY Targets DEF Inv, TypeInv, Guarded, Target, Swept, Undisturbed, Left, Ended, MainAt, Quiet,
       AllShut, Goto, channels
  <1>8. Calm'
    BY DEF Inv, TypeInv, Calm, Sound, Attended, Serving, Current, AllShut, Goto, channels
  <1>9. Stage'
    BY DEF Inv, TypeInv, Stage, Sound, TcpFirst, Serving, AllShut, Goto, channels
  <1>10. Explained'
    BY DEF Inv, TypeInv, Explained, Sound, AllShut, Goto, channels
  <1> QED
    BY <1>1, <1>2, <1>3, <1>4, <1>5, <1>6, <1>7, <1>8, <1>9, <1>10 DEF Inv

\* An actor takes the mutex of its next target, or passes it over.
LEMMA BeginShutdownStep ==
  ASSUME Inv, NEW a \in Actors, BeginShutdown(a), UNCHANGED <<expired, broken, crashed>>
  PROVE  Inv'
  <1>1. TypeInv'
    <2>1. Target(a) \in Protos /\ todo[a] # <<>>
      BY TargetType DEF Inv, BeginShutdown
    <2>a. running' \in [Protos -> BOOLEAN]
      BY <2>1 DEF Inv, TypeInv, BeginShutdown
    <2>b. serverUp' \in [Protos -> BOOLEAN]
      BY <2>1 DEF Inv, TypeInv, BeginShutdown
    <2>c. lock' = lock \/ lock' = [lock EXCEPT ![Target(a)] = a]
      BY DEF BeginShutdown
    <2>2. lock' \in [Protos -> Actors \cup {Free}]
      BY <2>1, <2>c DEF Inv, TypeInv
    <2>3. CASE Goto(a, "drain") /\ UNCHANGED <<todo, result>>
      BY <2>a, <2>b, <2>2, <2>3 DEF Inv, TypeInv, BeginShutdown, Goto, MainSteps, GoroutineSteps
    <2>4. CASE NextTarget(a) \/ ShutdownError(a)
      BY <2>1, <2>a, <2>b, <2>2, <2>4, PassOn DEF Inv, TypeInv, BeginShutdown
    <2> QED
      BY <2>3, <2>4 DEF BeginShutdown
  <1>2. Guarded'
    BY DEF Inv, TypeInv, Guarded, Target, BeginShutdown, NextTarget, ShutdownError, Goto, channels
  <1>3. MainAt'
    BY Targets DEF Inv, TypeInv, Guarded, MainAt, BeginShutdown, NextTarget, ShutdownError, Goto,
       channels
  <1>4. Begun'
    BY DEF Inv, TypeInv, Begun, Current, BeginShutdown, NextTarget, ShutdownError, Goto, channels
  <1>5. Watched'
    BY DEF Inv, TypeInv, MainAt, Begun, Current, Watched, Undisturbed, Attended, Ended,
       BeginShutdown, NextTarget, ShutdownError, Goto, channels
  <1>6. Swept'
    <2>1. \A p \in Protos : Ended(p)' <=> Ended(p)
      BY DEF Inv, TypeInv, BeginShutdown, NextTarget, ShutdownError, Goto, Ended
    <2>2. CASE a = "main" /\ NextTarget(a)
      <3>1. Left("main")' = Left("main") \ {Target("main")}
        BY <2>2, LeftShrinks DEF Inv, TypeInv, Guarded, BeginShutdown, NextTarget
      <3>2. pc'["main"] = "shut" /\ UNCHANGED <<result, expired>>
        BY <2>2 DEF Inv, TypeInv, NextTarget, Goto, BeginShutdown
      <3>3. Undisturbed /\ result \in {"stopping", "startError"} => Ended(Target("main"))
        <4>1. PICK t \in Protos : t = Target("main")
          BY <2>2, TargetType DEF Inv, BeginShutdown
        <4>2. ~running[t] /\ pc["main"] = "shut"
          BY <2>2, <4>1 DEF Inv, TypeInv, BeginShutdown, NextTarget, ShutdownError, Goto
        <4> QED
          BY <4>1, <4>2 DEF Inv, TypeInv, Watched, Attended, Ended, MainAt
      <3> QED
        BY <2>1, <2>2, <3>1, <3>2, <3>3 DEF Inv, Swept, Undisturbed, BeginShutdown
    <2>3. CASE a # "main"
      <3>1. UNCHANGED <<pc["main"], todo["main"], result, expired>>
        BY <2>3 DEF Inv, TypeInv, BeginShutdown, NextTarget, ShutdownError, Goto
      <3>2. PICK t : t = Target("main")
        OBVIOUS
      <3>3. t = Target("main")' /\ Left("main")' = Left("main")
        BY <3>1, <3>2 DEF Target, Left
      <3>4. pc["main"] = "join" => t \in Protos
        BY <3>2, TargetType DEF Inv, Guarded
      <3> QED
        BY <2>1, <3>1, <3>2, <3>3, <3>4 DEF Inv, Swept, Undisturbed
    <2>4. CASE a = "main" /\ ShutdownError(a)
      BY <2>4 DEF Inv, TypeInv, Swept, BeginShutdown, ShutdownError, Goto
    <2>5. CASE a = "main" /\ Goto(a, "drain") /\ UNCHANGED <<todo, result>>
      BY <2>1, <2>5 DEF Inv, TypeInv, Swept, Undisturbed, Left, BeginShutdown, Goto
    <2> QED
      BY <2>2, <2>3, <2>4, <2>5 DEF BeginShutdown
  <1>7. Quiet'
    BY Targets DEF Inv, TypeInv, Guarded, MainAt, Begun, Current, Watched, Attended, Swept, Left,
       Target, Quiet, Undisturbed, Ended, BeginShutdown, NextTarget, ShutdownError, Goto, channels
  <1>8. Calm'
    BY DEF Inv, TypeInv, MainAt, Calm, Sound, Attended, Serving, Current, BeginShutdown, NextTarget,
       ShutdownError, Goto, channels
  <1>9. Stage'
    <2>1. CASE a = "main" /\ NextTarget(a)
      BY <2>1, Targets DEF Inv, TypeInv, Guarded, Begun, Stage, Sound, TcpFirst, Serving, Target,
         BeginShutdown, NextTarget, Goto, channels
    <2>2. CASE a = "main" /\ ~NextTarget(a)
      BY <2>2, Targets DEF Inv, TypeInv, Guarded, Begun, Stage, Sound, TcpFirst, Serving, Target,
         BeginShutdown, ShutdownError, Goto, channels
    <2>3. CASE a = "tcp"
      BY <2>3, Targets DEF Inv, TypeInv, Guarded, Begun, Stage, Sound, TcpFirst, Serving, Target,
         BeginShutdown, ShutdownError, NextTarget, Context, Goto, channels
    <2>4. CASE a = "udp"
      BY <2>4, Targets DEF Inv, TypeInv, Guarded, Begun, Stage, Sound, TcpFirst, Serving, Target,
         BeginShutdown, ShutdownError, NextTarget, Context, Goto, channels
    <2> QED
      BY <2>1, <2>2, <2>3, <2>4
  <1>10. Explained'
    BY Targets DEF Inv, TypeInv, MainAt, Begun, Current, Guarded, Target, Sound, Stage, TcpFirst,
       Serving, Explained, BeginShutdown, NextTarget, ShutdownError, Goto, channels
  <1> QED
    BY <1>1, <1>2, <1>3, <1>4, <1>5, <1>6, <1>7, <1>8, <1>9, <1>10 DEF Inv

\* ShutdownContext returns.
LEMMA EndShutdownStep ==
  ASSUME Inv, NEW a \in Actors, EndShutdown(a), UNCHANGED <<expired, broken, crashed>>
  PROVE  Inv'
  <1>1. TypeInv'
    <2>1. Target(a) \in Protos /\ todo[a] # <<>>
      BY TargetType DEF Inv, Guarded, EndShutdown
    <2>2. running' \in [Protos -> BOOLEAN] /\ lock' \in [Protos -> Actors \cup {Free}]
      BY <2>1 DEF Inv, TypeInv, EndShutdown
    <2>3. CASE Goto(a, "join") /\ UNCHANGED <<todo, result>>
      BY <2>2, <2>3 DEF Inv, TypeInv, EndShutdown, Goto, MainSteps, GoroutineSteps
    <2>4. CASE ShutdownError(a)
      BY <2>1, <2>2, <2>4, PassOn DEF Inv, TypeInv, EndShutdown
    <2> QED
      BY <2>3, <2>4 DEF EndShutdown
  <1>2. Guarded'
    BY DEF Inv, TypeInv, Guarded, Target, EndShutdown, NextTarget, ShutdownError, Goto, channels
  <1>3. MainAt'
    BY DEF Inv, TypeInv, MainAt, EndShutdown, NextTarget, ShutdownError, Goto, channels
  <1>4. Begun'
    BY DEF Inv, TypeInv, Begun, Current, EndShutdown, NextTarget, ShutdownError, Goto, channels
  <1>5. Watched'
    BY DEF Inv, TypeInv, Guarded, MainAt, Target, Current, Attended, Watched, Undisturbed, Ended,
       EndShutdown, NextTarget, ShutdownError, Context, Goto, channels
  <1>6. Swept'
    BY Targets DEF Inv, TypeInv, Guarded, Target, Swept, Undisturbed, Left, Ended, EndShutdown,
       NextTarget, ShutdownError, Goto, channels
  <1>7. Quiet'
    BY DEF Inv, TypeInv, Guarded, MainAt, Quiet, Undisturbed, Ended, EndShutdown, NextTarget,
       ShutdownError, Context, Goto, channels
  <1>8. Calm'
    BY DEF Inv, TypeInv, Calm, Sound, Attended, Serving, Current, EndShutdown, NextTarget,
       ShutdownError, Goto, channels
  <1>9. Stage'
    BY Targets DEF Inv, TypeInv, Guarded, Target, Ended, Stage, Sound, TcpFirst, Serving,
       EndShutdown, NextTarget, ShutdownError, Goto, channels
  <1>10. Explained'
    BY DEF Inv, TypeInv, Explained, Sound, EndShutdown, NextTarget, ShutdownError, Goto, channels
  <1> QED
    BY <1>1, <1>2, <1>3, <1>4, <1>5, <1>6, <1>7, <1>8, <1>9, <1>10 DEF Inv

\* The target's goroutine has ended, or is given up.
LEMMA JoinGoroutineStep ==
  ASSUME Inv, NEW a \in Actors, JoinGoroutine(a), UNCHANGED <<expired, broken, crashed>>
  PROVE  Inv'
  <1>1. TypeInv'
    BY PassOn DEF Inv, TypeInv, Guarded, JoinGoroutine, channels
  <1>2. Guarded'
    BY DEF Inv, TypeInv, Guarded, Target, JoinGoroutine, NextTarget, ShutdownError, Goto, channels
  <1>3. MainAt'
    BY Targets DEF Inv, TypeInv, Guarded, MainAt, JoinGoroutine, NextTarget, ShutdownError, Goto,
       channels
  <1>4. Begun'
    BY DEF Inv, TypeInv, Begun, Current, JoinGoroutine, NextTarget, ShutdownError, Goto, channels
  <1>5. Watched'
    BY DEF Inv, TypeInv, Watched, Undisturbed, Attended, Ended, Current, JoinGoroutine, NextTarget,
       ShutdownError, Goto, channels
  <1>6. Swept'
    <2>1. \A p \in Protos : Ended(p)' <=> Ended(p)
      BY DEF Inv, TypeInv, JoinGoroutine, NextTarget, ShutdownError, Goto, Ended
    <2>2. CASE a = "main" /\ NextTarget(a)
      <3>1. Left("main")' = Left("main") \ {Target("main")}
        BY <2>2, LeftShrinks DEF Inv, TypeInv, Guarded, JoinGoroutine, NextTarget
      <3>2. pc'["main"] = "shut" /\ UNCHANGED <<result, expired>>
        BY <2>2 DEF Inv, TypeInv, NextTarget, Goto, JoinGoroutine
      <3>3. Undisturbed /\ result \in {"stopping", "startError"} => Ended(Target("main"))
        BY <2>2 DEF Inv, Swept, JoinGoroutine
      <3> QED
        BY <2>1, <2>2, <3>1, <3>2, <3>3 DEF Inv, Swept, Undisturbed, JoinGoroutine
    <2>3. CASE a # "main"
      <3>1. UNCHANGED <<pc["main"], todo["main"], result, expired>>
        BY <2>3 DEF Inv, TypeInv, JoinGoroutine, NextTarget, ShutdownError, Goto
      <3>2. PICK t : t = Target("main")
        OBVIOUS
      <3>3. t = Target("main")' /\ Left("main")' = Left("main")
        BY <3>1, <3>2 DEF Target, Left
      <3>4. pc["main"] = "join" => t \in Protos
        BY <3>2, TargetType DEF Inv, Guarded
      <3> QED
        BY <2>1, <3>1, <3>2, <3>3, <3>4 DEF Inv, Swept, Undisturbed
    <2>4. CASE a = "main" /\ ShutdownError(a)
      BY <2>4 DEF Inv, TypeInv, Swept, JoinGoroutine, ShutdownError, Goto
    <2> QED
      BY <2>2, <2>3, <2>4 DEF JoinGoroutine
  <1>7. Quiet'
    BY DEF Inv, TypeInv, Guarded, MainAt, Quiet, Undisturbed, Ended, JoinGoroutine, NextTarget,
       ShutdownError, Context, Goto, channels
  <1>8. Calm'
    BY DEF Inv, TypeInv, Calm, Sound, Attended, Serving, Current, JoinGoroutine, NextTarget,
       ShutdownError, Goto, channels
  <1>9. Stage'
    <2>1. CASE a = "main" /\ NextTarget(a)
      BY <2>1, Targets DEF Inv, TypeInv, Guarded, Begun, Stage, Sound, TcpFirst, Serving, Target,
         JoinGoroutine, NextTarget, Goto, channels
    <2>2. CASE a = "main" /\ ~NextTarget(a)
      BY <2>2, Targets DEF Inv, TypeInv, Guarded, Begun, Stage, Sound, TcpFirst, Serving, Target,
         JoinGoroutine, ShutdownError, Goto, channels
    <2>3. CASE a = "tcp"
      <3>1. CASE NextTarget(a) /\ pc["udp"] = "done"
        BY <2>3, <3>1, Targets DEF Inv, TypeInv, Guarded, Stage, Sound, TcpFirst, Serving,
           JoinGoroutine, NextTarget, Goto
      <3> QED
        BY <2>3, <3>1, Targets DEF Inv, TypeInv, Guarded, Begun, Stage, Sound, TcpFirst, Serving,
           Target, JoinGoroutine, ShutdownError, NextTarget, Context, Goto, channels
    <2>4. CASE a = "udp"
      BY <2>4, Targets DEF Inv, TypeInv, Guarded, Begun, Stage, Sound, TcpFirst, Serving, Target,
         JoinGoroutine, ShutdownError, NextTarget, Context, Goto, channels
    <2> QED
      BY <2>1, <2>2, <2>3, <2>4
  <1>10. Explained'
    BY DEF Inv, TypeInv, Explained, Sound, JoinGoroutine, NextTarget, ShutdownError, Goto, channels
  <1> QED
    BY <1>1, <1>2, <1>3, <1>4, <1>5, <1>6, <1>7, <1>8, <1>9, <1>10 DEF Inv

------------------------------------------------------------------------------
(* The environment.                                                        *)

\* A listener fails by itself.
LEMMA BreakStep ==
  ASSUME Inv, NEW p \in Protos, Break(p)
  PROVE  Inv'
  <1>1. TypeInv'
    BY DEF Inv, TypeInv, MainSteps, GoroutineSteps, Break, Goto, channels
  <1>2. Guarded'
    BY DEF Inv, TypeInv, Guarded, Target, Break, Goto, channels
  <1>3. MainAt'
    BY DEF Inv, TypeInv, MainAt, Break, Goto, channels
  <1>4. Begun'
    BY DEF Inv, TypeInv, Begun, Current, Break, Goto, channels
  <1>5. Watched'
    BY DEF Inv, TypeInv, Watched, Undisturbed, Attended, Ended, Current, Break, Goto, channels
  <1>6. Swept'
    BY DEF Inv, TypeInv, Swept, Undisturbed, Left, Ended, Target, Break, Goto, channels
  <1>7. Quiet'
    BY DEF Inv, TypeInv, Quiet, Undisturbed, Ended, Break, Goto, channels
  <1>8. Calm'
    BY DEF Inv, TypeInv, Calm, Sound, Attended, Serving, Current, Break, Goto, channels
  <1>9. Stage'
    BY DEF Inv, TypeInv, Stage, Sound, TcpFirst, Serving, Break, Goto, channels
  <1>10. Explained'
    BY DEF Inv, TypeInv, Explained, Sound, Break, Goto, channels
  <1> QED
    BY <1>1, <1>2, <1>3, <1>4, <1>5, <1>6, <1>7, <1>8, <1>9, <1>10 DEF Inv

\* A context ends.
LEMMA ExpireStep ==
  ASSUME Inv, NEW c \in {"start", "stop"}, Expire(c)
  PROVE  Inv'
  <1>1. TypeInv'
    BY DEF Inv, TypeInv, MainSteps, GoroutineSteps, Expire, Goto, channels
  <1>2. Guarded'
    BY DEF Inv, TypeInv, Guarded, Target, Expire, Goto, channels
  <1>3. MainAt'
    BY DEF Inv, TypeInv, MainAt, Expire, Goto, channels
  <1>4. Begun'
    BY DEF Inv, TypeInv, Begun, Current, Expire, Goto, channels
  <1>5. Watched'
    BY DEF Inv, TypeInv, Watched, Undisturbed, Attended, Ended, Current, Expire, Goto, channels
  <1>6. Swept'
    BY DEF Inv, TypeInv, Swept, Undisturbed, Left, Ended, Target, Expire, Goto, channels
  <1>7. Quiet'
    BY DEF Inv, TypeInv, Quiet, Undisturbed, Ended, Expire, Goto, channels
  <1>8. Calm'
    BY DEF Inv, TypeInv, Calm, Sound, Attended, Serving, Current, Expire, Goto, channels
  <1>9. Stage'
    BY DEF Inv, TypeInv, Stage, Sound, TcpFirst, Serving, Expire, Goto, channels
  <1>10. Explained'
    BY DEF Inv, TypeInv, Explained, Sound, Expire, Goto, channels
  <1> QED
    BY <1>1, <1>2, <1>3, <1>4, <1>5, <1>6, <1>7, <1>8, <1>9, <1>10 DEF Inv

\* An unsynchronised access ends the process and changes nothing else.
LEMMA CrashStep ==
  ASSUME Inv, Crash
  PROVE  Inv'
  <1>1. UNCHANGED <<created, running, channels, serverUp, pc, todo, result, expired, broken>>
    BY DEF Crash
  <1>2. crashed' \in BOOLEAN
    BY DEF Crash
  <1> QED
    BY <1>1, <1>2 DEF channels, Inv, TypeInv, Guarded, MainAt, Begun, Watched, Swept, Quiet, Calm, Stage,
       Explained, Undisturbed, Attended, Current, Ended, Left, Sound, Serving, TcpFirst, Target
------------------------------------------------------------------------------
(* The invariant and what it says.                                         *)

LEMMA InvInit == Init => Inv
  <1> SUFFICES ASSUME Init PROVE Inv
    OBVIOUS
  <1>1. TypeInv
    <2>1. /\ pc \in [Actors -> MainSteps \cup GoroutineSteps]
          /\ pc["main"] \in MainSteps /\ \A p \in Protos : pc[p] \in GoroutineSteps
      BY DEF Init, MainSteps, GoroutineSteps
    <2>2. lock \in [Protos -> Actors \cup {Free}]
      BY DEF Init
    <2>3. /\ todo \in [Actors -> {<<>>, <<"tcp">>, <<"udp">>, Order}]
          /\ todo["tcp"] = <<>> /\ todo["udp"] = <<>>
      BY DEF Init
    <2>4. /\ running \in [Protos -> BOOLEAN] /\ closed \in [Protos -> BOOLEAN]
          /\ serverUp \in [Protos -> BOOLEAN] /\ crashed \in BOOLEAN
      BY Zenon DEF Init
    <2>5. /\ startup \in [Protos -> {"no", "ok", "failed"}]
          /\ broken \in [Protos -> {"no", "starting", "serving"}]
      BY DEF Init
    <2> QED
      BY <2>1, <2>2, <2>3, <2>4, <2>5 DEF Init, TypeInv
  <1>2. Guarded /\ MainAt /\ Begun
    BY Targets DEF Init, Guarded, MainAt, Begun
  <1>3. Watched /\ Swept /\ Quiet
    BY DEF Init, Watched, Attended, Ended, Swept, Quiet
  <1>4. Calm /\ Stage /\ Explained
    BY DEF Init, Calm, Attended, Stage, Explained
  <1> QED
    BY <1>1, <1>2, <1>3, <1>4 DEF Inv

LEMMA InvNext == Inv /\ [Next]_vars => Inv'
  <1> SUFFICES ASSUME Inv, [Next]_vars PROVE Inv'
    OBVIOUS
  <1>1. CASE MainStep
    BY <1>1, CreateListenerStep, AwaitStartupStep, MarkRunningStep, AllShutStep, BeginShutdownStep,
       EndShutdownStep, JoinGoroutineStep DEF MainStep, Start, Shutdown
  <1>2. CASE CallStop /\ UNCHANGED <<expired, broken, crashed>>
    BY <1>2, CallStopStep
  <1>3. ASSUME NEW p \in Protos, Serve(p), UNCHANGED <<expired, broken, crashed>> PROVE Inv'
    BY <1>3, BindStep, NotifyStartedStep, ReportBindFailureStep, LeaveLoopStep, ReturnFromServeStep,
       OnStoppedStep, CloseChannelStep DEF Serve
  <1>4. ASSUME NEW p \in Protos, Shutdown(p), UNCHANGED <<expired, broken, crashed>> PROVE Inv'
    BY <1>4, AllShutStep, BeginShutdownStep, EndShutdownStep, JoinGoroutineStep DEF Shutdown
  <1>5. CASE (\E p \in Protos : Break(p)) \/ (\E c \in {"start", "stop"} : Expire(c))
    BY <1>5, BreakStep, ExpireStep
  <1>6. CASE Crash
    BY <1>6, CrashStep
  <1>7. CASE UNCHANGED vars
    BY <1>7 DEF vars, channels, Inv, TypeInv, Guarded, MainAt, Begun, Watched, Swept, Quiet, Calm, Stage,
       Explained, Undisturbed, Attended, Current, Ended, Left, Sound, Serving, TcpFirst, Target
  <1> QED
    BY <1>1, <1>2, <1>3, <1>4, <1>5, <1>6, <1>7 DEF Next, Goroutine, Terminated

LEMMA Invariance == Spec => []Inv
  BY InvInit, InvNext, PTL DEF Spec

\* Every actor is where the code can be, and each of the mutexes is held by
\* the actor inside ShutdownContext for that listener and by no other
\* (core/server.go:437-447), whichever failures and timeouts happen.
THEOREM ListenersTypeCorrect == Spec => []TypeOK
  <1>1. Inv => TypeOK
    BY Targets DEF Inv, TypeInv, Guarded, TypeOK, MainSteps, GoroutineSteps
  <1> QED
    BY <1>1, Invariance, PTL

\* A Stop that returns nil leaves no listener that accepts messages and no
\* request in flight, while the context of Start lives: also when listeners
\* fail, or shut each other down, at that very moment.
THEOREM StopLeavesNothing == Spec => []StoppedIsQuiet
  <1>1. Inv => StoppedIsQuiet
    BY DEF Inv, Quiet, Undisturbed, StoppedIsQuiet
  <1> QED
    BY <1>1, Invariance, PTL

\* Neither does a Start that reports the error of a listener, although it
\* ignores the outcome of the Stop it calls.
THEOREM FailedStartLeavesNothing == Spec => []FailedStartIsQuiet
  <1>1. Inv => FailedStartIsQuiet
    BY DEF Inv, Quiet, Undisturbed, FailedStartIsQuiet
  <1> QED
    BY <1>1, Invariance, PTL

\* Stop returns an error only after a context has ended or a listener has
\* failed by itself: never because the goroutines it wakes up shut the same
\* listeners down.
THEOREM StopErrorsExplained == Spec => []StopErrorExplained
  <1>1. Inv => StopErrorExplained
    BY DEF Inv, Explained, Sound, StopErrorExplained
  <1> QED
    BY <1>1, Invariance, PTL
==============================================================================
