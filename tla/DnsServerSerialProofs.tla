------------------------ MODULE DnsServerSerialProofs ------------------------
(***************************************************************************)
(* Proofs about DnsServer when only one handler is given updates: what was *)
(* acknowledged stays visible, responses are snapshots, and the zones      *)
(* change as ChallengeZones says.  Nothing is assumed about the number of  *)
(* handlers, queries and zones, and the administrator goes on with its     *)
(* work meanwhile.                                                         *)
(***************************************************************************)
EXTENDS DnsServerProofs, SequenceTheorems

Op(h, i) == req[h].records[i].op
Val(h, i) == req[h].records[i].value

\* At work on the records of an update, and which of them have been done.
Writing(h) == pc[h] \in {"key", "records"}
Done(h) == 1..(next[h] - 1)
Cleared(h) == \E i \in Done(h) : Op(h, i) = "clear"

\* Where a handler is says what it serves and that its loop has not begun.
Control(h) ==
  /\ pc[h] # "idle" => req[h] \in Serves[h]
  /\ pc[h] \notin {"records", "read", "respond"} => next[h] = 1 /\ answer[h] = <<>>
  /\ Writing(h) => req[h].kind = "update"
  /\ pc[h] \in {"query", "read"} => req[h].kind = "query"
  /\ pc[h] = "records" =>
       /\ Done(h) \subseteq DOMAIN req[h].records
       /\ \A i \in Done(h) : Op(h, i) \in {"clear", "append", "remove"}

\* Slice s begins with the elements of slice t.
Extends(s, t) == t.len <= s.len /\ \A i \in 1..t.len : cell[s.arr][i] = cell[t.arr][i]

\* Until it clears its list, a handler's list begins with that of its zone.
Prior(h) ==
  Writing(h) /\ ~Cleared(h) =>
    \A z \in ZoneNames : z = req[h].lookup /\ zones[z] # NoZone => Extends(txt[h], zones[z].answers)

ControlInv ==
  /\ snapshot = [h \in Handlers |-> snapshot[h]]
  /\ \A h \in Handlers : Control(h)

\* No handler's step but that of an update can write.
LEMMA OnlyOneWrites ==
  ASSUME OneUpdater, ControlInv, NEW g \in Handlers, NEW h \in Handlers,
         pc[g] # "idle", req[g].kind = "update", pc[h] # "idle", req[h].kind = "update"
  PROVE  g = h
  BY DEF OneUpdater, ControlInv, Control

LEMMA ControlInit == Init => ControlInv
  BY DEF Init, ControlInv, Control, Writing, Done

\* The handlers that a step of handler h leaves where they are.
LEMMA OthersRest ==
  ASSUME TypeInv, ControlInv, NEW h \in Handlers, Serve(h), NEW g \in Handlers, g # h
  PROVE  /\ pc'[g] = pc[g] /\ req'[g] = req[g] /\ txt'[g] = txt[g]
         /\ answer'[g] = answer[g] /\ next'[g] = next[g] /\ reply'[g] = reply[g]
         /\ snapshot'[g] = snapshot[g]
  <1>1. snapshot' = snapshot \/ \E s : snapshot' = [snapshot EXCEPT ![h] = s]
    BY DEF Serve, Verify, LookupZone, Authorise, ApplyRecord, StoreZone, QueryZone, ReadAnswer, Respond,
           historyVars
  <1>2. snapshot'[g] = snapshot[g]
    BY <1>1 DEF ControlInv
  <1> QED
    BY <1>2, OthersKeep DEF Serve, Verify, LookupZone, Authorise, ApplyRecord, ClearRecord, AppendRecord, RefuseRecord,
         StoreZone, QueryZone, ReadAnswer, Respond, Reply, Goto, TypeInv, TypeOK, HandlerTypeOK

LEMMA SnapshotNext ==
  ASSUME ControlInv, [Next]_vars
  PROVE  snapshot' = [h \in Handlers |-> snapshot'[h]]
  <1>1. \/ snapshot' = snapshot \/ snapshot' = [g \in Handlers |-> {}]
        \/ \E h \in Handlers : \E s : snapshot' = [snapshot EXCEPT ![h] = s]
    BY DEF Next, Step, Serve, Receive, Verify, LookupZone, Authorise, ApplyRecord, StoreZone, QueryZone,
           ReadAnswer, Respond, Manage, Quiesce, vars, historyVars
  <1> QED
    BY <1>1 DEF ControlInv

LEMMA ControlNext == Inv /\ ControlInv /\ [Next]_vars => ControlInv'
  <1> SUFFICES ASSUME Inv, ControlInv, Next, NEW g \in Handlers PROVE Control(g)'
    BY SnapshotNext DEF ControlInv, Control, Writing, Done, Op, vars, handlerVars
  <1> USE DEF Inv, TypeInv, TypeOK, HandlerTypeOK
  <1>c. Control(g)
    BY DEF ControlInv
  <1>1. CASE UNCHANGED <<pc, req, next, answer>>
    BY <1>1, <1>c DEF Control, Writing, Done, Op
  <1>2. ASSUME NEW h \in Handlers, NEW r \in Serves[h], Receive(h, r) PROVE Control(g)'
    <2>1. CASE g = h
      <3>1. pc[g] = "idle" /\ pc'[g] \in {"verify", "query", "zone"} /\ req'[g] = r
        BY <1>2, <2>1 DEF Receive, Goto
      <3>2. pc'[g] = "query" => r.kind = "query"
        BY <1>2, <2>1 DEF Receive, Goto
      <3> QED
        BY <1>2, <1>c, <2>1, <3>1, <3>2 DEF Control, Writing, Receive
    <2>2. CASE g # h
      BY <1>2, <1>c, <2>2 DEF Control, Writing, Done, Op, Receive, Goto
    <2> QED
      BY <2>1, <2>2
  <1>3. ASSUME NEW h \in Handlers, Serve(h) PROVE Control(g)'
    <2>1. CASE g # h
      BY <1>3, <1>c, <2>1, OthersRest DEF Control, Writing, Done, Op
    <2> SUFFICES ASSUME g = h PROVE Control(g)'
      BY <2>1
    <2>2. CASE Verify(h)
      BY <1>c, <2>2 DEF Verify, Control, Writing, Reply, Goto
    <2>5. CASE LookupZone(h)
      BY <1>c, <2>5 DEF LookupZone, Control, Writing, Reply, Goto
    <2>6. CASE Authorise(h)
      BY <1>c, <2>6 DEF Authorise, Control, Writing, Done, Reply, Goto
    <2>7. CASE QueryZone(h)
      BY <1>c, <2>7 DEF QueryZone, Control, Writing, Reply, Goto
    <2>3. CASE ApplyRecord(h)
      <3>1. pc[g] = "records" /\ next[g] \in DOMAIN req[g].records /\ req' = req /\ answer' = answer
        BY <2>3 DEF ApplyRecord
      <3>2. CASE RefuseRecord(h, "NOTAUTH") \/ RefuseRecord(h, "REFUSED")
        BY <1>c, <3>1, <3>2 DEF RefuseRecord, Reply, Goto, Control, Writing
      <3>3. CASE /\ Op(h, next[h]) \in {"clear", "append", "remove"}
                 /\ next' = [next EXCEPT ![h] = @ + 1] /\ pc' = pc
        <4>1. \A i \in Done(g)' : i \in Done(g) \/ i = next[g]
          BY <3>3 DEF Done
        <4> QED
          BY <1>c, <3>1, <3>3, <4>1 DEF Control, Writing, Op
      <3> QED
        BY <2>3, <3>2, <3>3 DEF ApplyRecord, ClearRecord, AppendRecord, Op
    <2>4. CASE StoreZone(h) \/ ReadAnswer(h) \/ Respond(h)
      BY <1>c, <2>4 DEF StoreZone, ReadAnswer, Respond, Control, Writing, Reply, Goto
    <2> QED
      BY <1>3, <2>2, <2>3, <2>4, <2>5, <2>6, <2>7 DEF Serve
  <1> QED
    BY <1>1, <1>2, <1>3 DEF Next, Step, Manage, Quiesce, handlerVars
------------------------------------------------------------------------------
(* What a step does to the lists that are in use.                          *)

\* A turn of the loop over the records.
LEMMA RecordStep ==
  ASSUME TypeInv, NEW h \in Handlers, ApplyRecord(h)
  PROVE  /\ pc[h] = "records" /\ next[h] \in DOMAIN req[h].records
         /\ UNCHANGED <<keys, zones, req, answer>>
         /\ \/ /\ Op(h, next[h]) = "clear"
               /\ txt' = [txt EXCEPT ![h].len = 0] /\ next' = [next EXCEPT ![h] = @ + 1]
               /\ UNCHANGED <<pc, cell, reply>>
            \/ /\ Op(h, next[h]) \in {"append", "remove"}
               /\ \E t \in Slice : AppendsTo(h, Val(h, next[h]), t)
               /\ next' = [next EXCEPT ![h] = @ + 1] /\ UNCHANGED <<pc, reply>>
            \/ /\ pc'[h] = "respond" /\ reply'[h].rcode # "NOERROR" /\ UNCHANGED <<cell, txt>>
  <1> USE DEF TypeInv, TypeOK, HandlerTypeOK
  <1>1. /\ pc[h] = "records" /\ next[h] \in DOMAIN req[h].records
        /\ UNCHANGED <<keys, zones, req, answer>>
    <2>1. req[h] \in Requests
      BY DEF ApplyRecord
    <2>2. req[h].records \in Seq(UpdateRecord)
      BY <2>1, ServerAssumption DEF Request
    <2> QED
      BY <2>2 DEF ApplyRecord
  <1>2. CASE RefuseRecord(h, "NOTAUTH") \/ RefuseRecord(h, "REFUSED")
    BY <1>1, <1>2 DEF RefuseRecord, Reply, Goto
  <1>3. CASE Op(h, next[h]) = "clear" /\ ClearRecord(h)
    BY <1>1, <1>3 DEF ClearRecord
  <1>4. CASE Op(h, next[h]) \in {"append", "remove"} /\ AppendRecord(h)
    <2>1. req[h] \in Requests
      BY <1>1
    <2>2. req[h].records[next[h]] \in UpdateRecord
      BY <1>1, <2>1, ServerAssumption DEF Request
    <2>3. Val(h, next[h]) \in Values /\ Val(h, next[h]) \in Appends(req[h])
      BY <1>1, <1>4, <2>2 DEF UpdateRecord, Val, Op, Appends
    <2>4. PICK t \in Slice : GoAppend(txt[h], Val(h, next[h]), t, InUse) /\ txt' = [txt EXCEPT ![h] = t]
      BY <1>4 DEF AppendRecord, Val
    <2>5. AppendsTo(h, Val(h, next[h]), t)
      BY <1>1, <2>3, <2>4 DEF AppendsTo
    <2> QED
      BY <1>1, <1>4, <2>5 DEF AppendRecord
  <1> QED
    BY <1>2, <1>3, <1>4 DEF ApplyRecord, Op

\* The new list is the old one and the value.
LEMMA AppendAdds ==
  ASSUME TypeInv, NEW h \in Handlers, NEW v \in Values, NEW t \in Slice, AppendsTo(h, v, t)
  PROVE  /\ t.arr \in Arrays /\ t.len = txt[h].len + 1
         /\ \A i \in 1..txt[h].len : cell'[t.arr][i] = cell[txt[h].arr][i]
         /\ cell'[t.arr][t.len] = v
  <1> USE DEF TypeInv, TypeOK, HandlerTypeOK
  <1>1. txt[h] \in Slice /\ MaxLen \in Nat
    BY StoreAssumption
  <1>2. t.len = txt[h].len + 1 /\ t.arr \in Arrays
    BY AppendWrites
  <1>3. t.len \in Index /\ t.len \in 1..t.len
    BY <1>1, <1>2 DEF Slice, Index
  <1>4. \A i \in 1..txt[h].len : i \in Index /\ i \in 1..t.len /\ i # t.len
    BY <1>1, <1>2 DEF Slice, Index
  <1>5. CASE /\ t.arr = txt[h].arr
             /\ \A a \in Arrays, i \in Index :
                  cell'[a][i] = IF a = t.arr /\ i = t.len THEN v ELSE cell[a][i]
    <2>1. \A i \in Index : cell'[t.arr][i] = IF i = t.len THEN v ELSE cell[t.arr][i]
      BY <1>2, <1>5
    <2> QED
      BY <1>2, <1>3, <1>4, <1>5, <2>1
  <1>6. CASE \A i \in 1..t.len :
                  cell'[t.arr][i] = IF i = t.len THEN v ELSE cell[txt[h].arr][i]
    BY <1>2, <1>3, <1>4, <1>6
  <1> QED
    BY <1>5, <1>6, AppendWrites

\* A list in use stays as it is, unless an append in place may overwrite it.
LEMMA AppendKeeps ==
  ASSUME TypeInv, NEW h \in Handlers, NEW v \in Values, NEW t \in Slice, AppendsTo(h, v, t),
         NEW s \in Slice, SliceOK(s), s.arr \in InUse,
         SharesArray(s, txt[h]) => s.len <= txt[h].len
  PROVE  \A i \in 1..s.len : cell'[s.arr][i] = cell[s.arr][i]
  <1> SUFFICES ASSUME NEW i \in 1..s.len PROVE cell'[s.arr][i] = cell[s.arr][i]
    OBVIOUS
  <1> USE DEF TypeInv, TypeOK, HandlerTypeOK, Slice, Index
  <1>1. s.arr \in Arrays /\ i \in Index /\ MaxLen \in Nat /\ txt[h].len \in Nat
    BY StoreAssumption DEF SliceOK
  <1>2. CASE /\ t.arr = txt[h].arr /\ t.len = txt[h].len + 1
             /\ \A a \in Arrays, j \in Index :
                  cell'[a][j] = IF a = t.arr /\ j = t.len THEN v ELSE cell[a][j]
    BY <1>1, <1>2, StoreAssumption DEF SharesArray
  <1>3. CASE /\ t.arr \notin InUse
             /\ \A a \in Arrays \ {t.arr}, j \in Index : cell'[a][j] = cell[a][j]
    BY <1>1, <1>3
  <1> QED
    BY <1>2, <1>3, AppendWrites

\* The lists of zones and handlers are slices in use.
LEMMA ListsInUse ==
  ASSUME TypeInv
  PROVE  /\ \A z \in ZoneNames : zones[z] # NoZone =>
              /\ zones[z].answers \in Slice /\ SliceOK(zones[z].answers)
              /\ zones[z].answers.arr \in InUse
         /\ \A g \in Handlers : txt[g] \in Slice /\ SliceOK(txt[g]) /\ txt[g].arr \in InUse
  BY DEF TypeInv, TypeOK, StoreTypeOK, HandlerTypeOK, SlicesOK, Zone, InUse, StoredArrays

PriorInv == \A h \in Handlers : Prior(h)

\* What a zone shows is not touched by an append.
ZoneKept(z) ==
  /\ zones'[z] # NoZone /\ zones[z] # NoZone
  /\ zones'[z].answers = zones[z].answers
  /\ \A i \in 1..zones[z].answers.len :
       cell'[zones[z].answers.arr][i] = cell[zones[z].answers.arr][i]

LEMMA AppendHidden ==
  ASSUME Inv, NEW h \in Handlers, Prior(h), NEW v \in Values, NEW t \in Slice, AppendsTo(h, v, t),
         NEW z \in ZoneNames, zones[z] # NoZone, z # req[h].exact \/ ~Cleared(h)
  PROVE  ZoneKept(z)
  <1>1. zones' = zones /\ pc[h] = "records"
    BY DEF AppendsTo
  <1>2. req[h].lookup = req[h].exact
    BY <1>1, WritesItsZone
  <1>3. SharesArray(zones[z].answers, txt[h]) => zones[z].answers.len <= txt[h].len
    <2> SUFFICES ASSUME SharesArray(zones[z].answers, txt[h])
                 PROVE  zones[z].answers.len <= txt[h].len
      OBVIOUS
    <2>1. req[h].lookup = z
      BY DEF Inv, Isolated, HandlersAtZone
    <2> QED
      BY <1>1, <1>2, <2>1 DEF Prior, Writing, Extends
  <1>4. TypeInv
    BY DEF Inv
  <1>5. /\ zones[z].answers \in Slice /\ SliceOK(zones[z].answers)
        /\ zones[z].answers.arr \in InUse
    BY <1>4, ListsInUse
  <1>6. PICK s \in Slice : s = zones[z].answers
    BY <1>5
  <1>7. \A i \in 1..s.len : cell'[s.arr][i] = cell[s.arr][i]
    BY <1>3, <1>4, <1>5, <1>6, AppendKeeps
  <1> QED
    BY <1>1, <1>6, <1>7 DEF ZoneKept

\* Only the handler of an update changes the store.
LEMMA OnlyUpdatesStore ==
  ASSUME NEW h \in Handlers, Serve(h), ~Writing(h)
  PROVE  UNCHANGED storeVars
  BY DEF Serve, Verify, LookupZone, Authorise, ApplyRecord, StoreZone, QueryZone, ReadAnswer, Respond, Writing

LEMMA WriterAlone ==
  ASSUME OneUpdater, ControlInv, NEW g \in Handlers, Writing(g), NEW h \in Handlers, h # g, Serve(h)
  PROVE  UNCHANGED storeVars
  <1>1. ~Writing(h)
    <2> SUFFICES ASSUME Writing(h) PROVE FALSE
      OBVIOUS
    <2>1. pc[g] # "idle" /\ req[g].kind = "update" /\ pc[h] # "idle" /\ req[h].kind = "update"
      BY DEF ControlInv, Control, Writing
    <2> QED
      BY <2>1, OnlyOneWrites
  <1> QED
    BY <1>1, OnlyUpdatesStore

\* The steps that are no handler's leave lists and loops alone; zones come and go.
LEMMA OtherSteps ==
  ASSUME Inv, [Next]_vars, ~\E h \in Handlers : Serve(h)
  PROVE  /\ UNCHANGED <<capacity, cell, txt, answer, next, reply>>
         /\ \A z \in ZoneNames : zones'[z] # NoZone =>
              \/ /\ zones[z] # NoZone /\ zones'[z].answers = zones[z].answers
                 /\ zones'[z].serial = zones[z].serial
              \/ /\ "CreateZone" \in AdminOps /\ zones[z] = NoZone /\ zones'[z].answers = NilSlice
         /\ \A z \in ZoneNames : zones'[z] = NoZone => zones[z] = NoZone \/ "DeleteZone" \in AdminOps
         /\ \/ UNCHANGED <<pc, req, acked, snapshot>>
            \/ \E h \in Handlers : \E r \in Serves[h] : Receive(h, r)
  <1> USE DEF Inv, TypeInv, TypeOK, StoreTypeOK
  <1>1. /\ UNCHANGED <<capacity, cell, txt, answer, next, reply>>
        /\ \/ UNCHANGED <<pc, req, acked, snapshot>>
           \/ \E h \in Handlers : \E r \in Serves[h] : Receive(h, r)
        /\ UNCHANGED zones \/ \E z \in ZoneNames : ZoneAdmin(z)
    BY DEF Next, Step, Receive, Manage, Quiesce, Admin, KeyAdmin, ZoneAdmin, CreateKey, DeleteKey, vars,
           SetKeySecret, BindKey, UnbindKey, CreateZone, DeleteZone, SetZoneDebug, storeVars, handlerVars,
           historyVars
  <1>2. ASSUME NEW y \in ZoneNames, ZoneAdmin(y), NEW z \in ZoneNames
        PROVE  /\ zones'[z] # NoZone =>
                    \/ /\ zones[z] # NoZone /\ zones'[z].answers = zones[z].answers
                       /\ zones'[z].serial = zones[z].serial
                    \/ /\ "CreateZone" \in AdminOps /\ zones[z] = NoZone /\ zones'[z].answers = NilSlice
               /\ zones'[z] = NoZone => zones[z] = NoZone \/ "DeleteZone" \in AdminOps
    <2>1. CASE "CreateZone" \in AdminOps /\ CreateZone(y)
      BY <2>1 DEF CreateZone, NewZone
    <2>2. CASE "DeleteZone" \in AdminOps /\ DeleteZone(y)
      BY <2>2 DEF DeleteZone
    <2>3. CASE \E d \in BOOLEAN : SetZoneDebug(y, d)
      <3>1. PICK d \in BOOLEAN : SetZoneDebug(y, d)
        BY <2>3
      <3>2. zones[y] \in Zone /\ zones' = [zones EXCEPT ![y] = [zones[y] EXCEPT !.debug = d]]
        BY <3>1 DEF SetZoneDebug
      <3>3. [zones[y] EXCEPT !.debug = d] \in Zone
        BY <3>2 DEF Zone
      <3>4. [zones[y] EXCEPT !.debug = d] # NoZone
        BY <3>3, StoreAssumption
      <3> QED
        BY <3>1, <3>2, <3>4 DEF SetZoneDebug, Zone
    <2> QED
      BY <1>2, <2>1, <2>2, <2>3 DEF ZoneAdmin
  <1> QED
    BY <1>1, <1>2

LEMMA PriorNext ==
  ASSUME OneUpdater, Inv, ControlInv, PriorInv, [Next]_vars
  PROVE  PriorInv'
  <1> SUFFICES ASSUME NEW g \in Handlers, Writing(g)', ~Cleared(g)', NEW z \in ZoneNames,
                      z = req'[g].lookup, zones'[z] # NoZone
               PROVE  Extends(txt[g], zones[z].answers)'
    BY DEF PriorInv, Prior
  <1>t. TypeInv
    BY DEF Inv
  <1>1. CASE ~\E h \in Handlers : Serve(h)
    <2>1. pc'[g] = pc[g] /\ req'[g] = req[g]
      BY <1>1, <1>t, OtherSteps DEF Receive, Goto, Writing, TypeInv, TypeOK, HandlerTypeOK
    <2>2. UNCHANGED <<cell, txt, next>>
      BY <1>1, OtherSteps
    <2>3. Writing(g) /\ ~Cleared(g)
      BY <2>1, <2>2 DEF Writing, Cleared, Done, Op
    <2>4. CASE zones[z] # NoZone /\ zones'[z].answers = zones[z].answers
      <3>1. Extends(txt[g], zones[z].answers)
        BY <2>1, <2>3, <2>4 DEF PriorInv, Prior
      <3> QED
        BY <2>2, <2>4, <3>1 DEF Extends
    <2>5. CASE zones'[z].answers = NilSlice
      <3>1. txt[g].len \in Nat
        BY <1>t, StoreAssumption DEF TypeInv, TypeOK, HandlerTypeOK, Slice
      <3> QED
        BY <2>2, <2>5, <3>1 DEF Extends, NilSlice
    <2> QED
      BY <1>1, <2>4, <2>5, OtherSteps
  <1>2. ASSUME NEW h \in Handlers, h # g, Serve(h)
        PROVE  Extends(txt[g], zones[z].answers)'
    <2>1. pc'[g] = pc[g] /\ req'[g] = req[g] /\ txt'[g] = txt[g] /\ next'[g] = next[g]
      BY <1>2, <1>t, OthersRest
    <2>2. Writing(g) /\ ~Cleared(g)
      BY <2>1 DEF Writing, Cleared, Done, Op
    <2>3. UNCHANGED storeVars
      BY <1>2, <2>2, WriterAlone
    <2>4. Extends(txt[g], zones[z].answers)
      BY <2>1, <2>2, <2>3 DEF PriorInv, Prior, storeVars
    <2> QED
      BY <2>1, <2>3, <2>4 DEF Extends, storeVars
  <1>3. ASSUME Serve(g) PROVE Extends(txt[g], zones[z].answers)'
    <2> USE DEF TypeInv, TypeOK, HandlerTypeOK
    <2>1. CASE LookupZone(g)
      <3>1. UNCHANGED storeVars /\ req' = req /\ txt'[g] = zones[req[g].lookup].answers
        BY <1>t, <2>1 DEF LookupZone, Reply, Goto, Writing
      <3>2. zones[z].answers \in Slice
        BY <1>t, <3>1, ListsInUse DEF storeVars
      <3>3. zones[z].answers.len <= zones[z].answers.len
        BY <3>2, StoreAssumption DEF Slice
      <3> QED
        BY <3>1, <3>3 DEF Extends, storeVars
    <2>2. CASE Authorise(g)
      <3>1. pc[g] = "key" /\ UNCHANGED storeVars /\ txt' = txt /\ req' = req
        BY <2>2 DEF Authorise
      <3>2. next[g] = 1
        BY <3>1 DEF ControlInv, Control
      <3>3. Writing(g) /\ ~Cleared(g)
        BY <3>1, <3>2 DEF Writing, Cleared, Done
      <3>4. Extends(txt[g], zones[z].answers)
        BY <3>1, <3>3 DEF PriorInv, Prior, storeVars
      <3> QED
        BY <3>1, <3>4 DEF Extends, storeVars
    <2>3. CASE ApplyRecord(g)
      <3>1. /\ pc[g] = "records" /\ zones' = zones /\ req' = req
            /\ Op(g, next[g]) # "clear" \/ pc'[g] = "respond" \/ next' = [next EXCEPT ![g] = @ + 1]
        BY <1>t, <2>3, RecordStep
      <3>2. pc'[g] # "respond"
        BY DEF Writing
      <3>3. /\ next' = [next EXCEPT ![g] = @ + 1] /\ pc' = pc
            /\ \/ Op(g, next[g]) = "clear"
               \/ /\ Op(g, next[g]) \in {"append", "remove"}
                  /\ \E t \in Slice : AppendsTo(g, Val(g, next[g]), t)
        BY <1>t, <2>3, <3>2, RecordStep
      <3>4. next[g] \in Nat \ {0} /\ next'[g] = next[g] + 1
        BY <1>t, <3>3
      <3>5. next[g] \in Done(g)' /\ Done(g) \subseteq Done(g)'
        BY <3>4 DEF Done
      <3>6. Op(g, next[g]) # "clear" /\ ~Cleared(g)
        BY <3>1, <3>5 DEF Cleared, Op
      <3>7. PICK v \in Values, t \in Slice : AppendsTo(g, v, t)
        BY <3>3, <3>6 DEF AppendsTo
      <3>8. Prior(g) /\ Extends(txt[g], zones[z].answers)
        BY <3>1, <3>6 DEF PriorInv, Prior, Writing
      <3>9. ZoneKept(z)
        BY <3>1, <3>6, <3>7, <3>8, AppendHidden
      <3>10. /\ t.len = txt[g].len + 1 /\ txt'[g] = t
             /\ \A i \in 1..txt[g].len : cell'[t.arr][i] = cell[txt[g].arr][i]
        <4>1. txt'[g] = t
          BY <1>t, <3>7 DEF AppendsTo
        <4>2. t.len = txt[g].len + 1
          BY <1>t, <3>7, AppendAdds
        <4>3. \A i \in 1..txt[g].len : cell'[t.arr][i] = cell[txt[g].arr][i]
          BY <1>t, <3>7, AppendAdds
        <4> QED
          BY <4>1, <4>2, <4>3
      <3>11. txt[g].len \in Nat /\ zones[z].answers.len \in Nat
        BY <1>t, <3>1, ListsInUse, StoreAssumption DEF Slice
      <3> QED
        BY <3>1, <3>8, <3>9, <3>10, <3>11 DEF Extends, ZoneKept
    <2>4. ~(Verify(g) \/ StoreZone(g) \/ QueryZone(g) \/ ReadAnswer(g) \/ Respond(g))
      BY <1>t DEF Verify, StoreZone, QueryZone, ReadAnswer, Respond, Writing, Reply, Goto
    <2> QED
      BY <1>3, <2>1, <2>2, <2>3, <2>4 DEF Serve
  <1> QED
    BY <1>1, <1>2, <1>3

SerialInv == Inv /\ ControlInv /\ PriorInv

LEMMA SerialInit == Init => SerialInv
  BY InvInit, ControlInit DEF SerialInv, PriorInv, Prior, Writing, Init

LEMMA SerialNext ==
  ASSUME OneUpdater
  PROVE  SerialInv /\ [Next]_vars => SerialInv'
  BY InvNext, ControlNext, PriorNext DEF SerialInv
------------------------------------------------------------------------------
(* What was acknowledged stays visible.                                    *)

Has(s, v) == \E i \in 1..s.len : cell[s.arr][i] = v

AckedShown ==
  \A p \in acked :
    p[1] \in ZoneNames /\ (zones[p[1]] # NoZone => Has(zones[p[1]].answers, p[2]))

\* The records done so far are in the list, but for what was cleared after them.
Collected(h) ==
  pc[h] = "records" =>
    \A j \in Done(h) :
      Op(h, j) = "append" /\ (\A k \in Done(h) : k > j => Op(h, k) # "clear") => Has(txt[h], Val(h, j))

\* An update about to be acknowledged is in its zone.
Stored(h) ==
  pc[h] = "respond" /\ req[h].kind = "update" /\ reply[h].rcode = "NOERROR" =>
    /\ req[h].exact \in ZoneNames
    /\ \A z \in ZoneNames : z = req[h].exact /\ zones[z] # NoZone =>
         \A v \in Wanted(req[h]) : Has(zones[z].answers, v)

\* Nothing acknowledged is left to lose for an update that clears.
ClearedAway(h) ==
  pc[h] # "idle" /\ req[h].kind = "update" /\ Clears(req[h]) => \A p \in acked : p[1] # req[h].exact

AckInv == AckedShown /\ \A h \in Handlers : Collected(h) /\ Stored(h) /\ ClearedAway(h)

\* Which steps change the store, and which acknowledge.
LEMMA ServeChanges ==
  ASSUME TypeInv, NEW h \in Handlers, Serve(h)
  PROVE  /\ UNCHANGED storeVars \/ Stores(h) \/ \E t \in Slice, v \in Values : AppendsTo(h, v, t)
         /\ acked' = acked \/ Respond(h)
  <1>1. UNCHANGED storeVars \/ Stores(h) \/ \E t \in Slice, v \in Values : AppendsTo(h, v, t)
    BY Effects DEF Rests, Loads, Empties, Finishes, ReadsOne
  <1>2. acked' = acked \/ Respond(h)
    BY DEF Serve, Verify, LookupZone, Authorise, ApplyRecord, StoreZone, QueryZone, ReadAnswer, historyVars
  <1> QED
    BY <1>1, <1>2

LEMMA DoneInRecords ==
  ASSUME ControlInv, NEW h \in Handlers, pc[h] = "records", Cleared(h)
  PROVE  req[h].kind = "update" /\ Clears(req[h])
  BY DEF ControlInv, Control, Cleared, Op, Clears, Writing

LEMMA AckedShownNext ==
  ASSUME OneUpdater, NoNewZones, SerialInv, AckInv, [Next]_vars
  PROVE  AckedShown'
  <1> SUFFICES ASSUME NEW p \in acked'
               PROVE  /\ p[1] \in ZoneNames
                      /\ zones'[p[1]] # NoZone => Has(zones[p[1]].answers, p[2])'
    BY DEF AckedShown
  <1>t. TypeInv /\ Inv
    BY DEF SerialInv, Inv
  <1>1. CASE ~\E h \in Handlers : Serve(h)
    <2>1. p \in acked
      BY <1>1, <1>t, OtherSteps DEF Receive
    <2>2. p[1] \in ZoneNames /\ (zones[p[1]] # NoZone => Has(zones[p[1]].answers, p[2]))
      BY <2>1 DEF AckInv, AckedShown
    <2>3. zones'[p[1]] # NoZone => zones[p[1]] # NoZone /\ zones'[p[1]].answers = zones[p[1]].answers
      BY <1>1, <1>t, <2>2, OtherSteps DEF NoNewZones
    <2>4. cell' = cell
      BY <1>1, <1>t, OtherSteps
    <2> QED
      BY <2>2, <2>3, <2>4 DEF Has
  <1>2. ASSUME NEW h \in Handlers, Serve(h), p \in acked
        PROVE  /\ p[1] \in ZoneNames
               /\ zones'[p[1]] # NoZone => Has(zones[p[1]].answers, p[2])'
    <2>1. p[1] \in ZoneNames /\ (zones[p[1]] # NoZone => Has(zones[p[1]].answers, p[2]))
      BY <1>2 DEF AckInv, AckedShown
    <2>2. CASE UNCHANGED storeVars
      BY <2>1, <2>2 DEF Has, storeVars
    <2>3. ASSUME pc[h] = "records", p[1] = req[h].exact
          PROVE  ~Cleared(h)
      <3>1. req[h].kind = "update" /\ Clears(req[h]) => FALSE
        BY <1>2, <2>3 DEF AckInv, ClearedAway
      <3> QED
        BY <2>3, <3>1, DoneInRecords DEF SerialInv
    <2>4. CASE \E t \in Slice, v \in Values : AppendsTo(h, v, t)
      <3>1. PICK t \in Slice, v \in Values : AppendsTo(h, v, t)
        BY <2>4
      <3>2. SUFFICES ASSUME zones'[p[1]] # NoZone
                     PROVE  Has(zones[p[1]].answers, p[2])'
        BY <2>1
      <3>3. zones' = zones /\ pc[h] = "records"
        BY <3>1 DEF AppendsTo
      <3>4. PICK z \in ZoneNames : z = p[1]
        BY <2>1
      <3>5. z # req[h].exact \/ ~Cleared(h)
        BY <2>3, <3>3, <3>4
      <3>6. Prior(h)
        BY DEF SerialInv, PriorInv
      <3>7. ZoneKept(z)
        BY <1>t, <3>1, <3>2, <3>3, <3>4, <3>5, <3>6, AppendHidden
      <3> QED
        BY <2>1, <3>4, <3>7 DEF ZoneKept, Has
    <2>5. CASE Stores(h)
      <3>1. SUFFICES ASSUME zones'[p[1]] # NoZone
                     PROVE  Has(zones[p[1]].answers, p[2])'
        BY <2>1
      <3>2. /\ req[h].lookup = req[h].exact /\ zones[req[h].exact] # NoZone
            /\ zones'[req[h].exact].answers = txt[h]
            /\ \A z \in ZoneNames \ {req[h].exact} : zones'[z] = zones[z]
            /\ cell' = cell
        BY <1>t, <2>5, StoreEffect
      <3>3. CASE p[1] # req[h].exact
        BY <2>1, <3>1, <3>2, <3>3 DEF Has
      <3>4. CASE p[1] = req[h].exact
        <4>1. pc[h] = "records"
          BY <2>5 DEF Stores
        <4>2. Extends(txt[h], zones[p[1]].answers)
          BY <2>1, <2>3, <3>2, <3>4, <4>1 DEF SerialInv, PriorInv, Prior, Writing
        <4>3. PICK i \in 1..zones[p[1]].answers.len : cell[zones[p[1]].answers.arr][i] = p[2]
          BY <2>1, <3>2, <3>4 DEF Has
        <4>4. txt[h].len \in Nat /\ zones[p[1]].answers.len \in Nat
          BY <1>t, <2>1, <3>2, <3>4, ListsInUse, StoreAssumption DEF Slice
        <4>5. i \in 1..txt[h].len /\ cell[txt[h].arr][i] = p[2]
          BY <4>2, <4>3, <4>4 DEF Extends
        <4> QED
          BY <3>2, <3>4, <4>5 DEF Has
      <3> QED
        BY <3>3, <3>4
    <2> QED
      BY <1>2, <1>t, <2>2, <2>4, <2>5, ServeChanges
  <1>3. ASSUME NEW h \in Handlers, Serve(h), p \notin acked
        PROVE  /\ p[1] \in ZoneNames
               /\ zones'[p[1]] # NoZone => Has(zones[p[1]].answers, p[2])'
    <2>1. Respond(h)
      BY <1>3, <1>t, ServeChanges
    <2>2. /\ pc[h] = "respond" /\ req[h].kind = "update" /\ reply[h].rcode = "NOERROR"
          /\ \E v \in Wanted(req[h]) : p = <<req[h].exact, v>>
          /\ UNCHANGED storeVars
      BY <1>3, <2>1 DEF Respond
    <2>3. Stored(h)
      BY DEF AckInv
    <2> QED
      BY <2>2, <2>3 DEF Stored, Has, storeVars
  <1> QED
    BY <1>1, <1>2, <1>3

LEMMA CollectedNext ==
  ASSUME OneUpdater, SerialInv, AckInv, [Next]_vars, NEW g \in Handlers
  PROVE  Collected(g)'
  <1> SUFFICES ASSUME pc'[g] = "records", NEW j \in Done(g)', Op(g, j)' = "append",
                      \A k \in Done(g)' : k > j => Op(g, k)' # "clear"
               PROVE  Has(txt[g], Val(g, j))'
    BY DEF Collected
  <1>t. TypeInv /\ Inv /\ ControlInv
    BY DEF SerialInv, Inv
  <1>c. Collected(g)
    BY DEF AckInv
  <1>1. CASE ~\E h \in Handlers : Serve(h)
    <2>1. pc'[g] = pc[g] /\ req'[g] = req[g]
      BY <1>1, <1>t, OtherSteps DEF Receive, Goto, TypeInv, TypeOK, HandlerTypeOK
    <2>2. UNCHANGED <<cell, txt, next>>
      BY <1>1, <1>t, OtherSteps
    <2> QED
      BY <1>c, <2>1, <2>2 DEF Collected, Done, Op, Val, Has
  <1>2. ASSUME NEW h \in Handlers, h # g, Serve(h) PROVE Has(txt[g], Val(g, j))'
    <2>1. pc'[g] = pc[g] /\ req'[g] = req[g] /\ txt'[g] = txt[g] /\ next'[g] = next[g]
      BY <1>2, <1>t, OthersRest
    <2>2. UNCHANGED storeVars
      BY <1>2, <1>t, <2>1, WriterAlone DEF Writing
    <2> QED
      BY <1>c, <2>1, <2>2 DEF Collected, Done, Op, Val, Has, storeVars
  <1>3. ASSUME Serve(g) PROVE Has(txt[g], Val(g, j))'
    <2>1. CASE Authorise(g)
      <3>1. next'[g] = 1
        BY <1>t, <2>1 DEF Authorise, ControlInv, Control
      <3> QED
        BY <3>1 DEF Done
    <2>2. CASE ApplyRecord(g)
      <3>1. pc[g] = "records" /\ req' = req
        BY <1>t, <2>2, RecordStep
      <3>2. /\ next' = [next EXCEPT ![g] = @ + 1]
            /\ \/ Op(g, next[g]) = "clear"
               \/ /\ Op(g, next[g]) \in {"append", "remove"}
                  /\ \E t \in Slice : AppendsTo(g, Val(g, next[g]), t)
        BY <1>t, <2>2, RecordStep
      <3>3. next[g] \in Nat \ {0} /\ next'[g] = next[g] + 1
        BY <1>t, <3>2 DEF TypeInv, TypeOK, HandlerTypeOK
      <3>4. next[g] \in Done(g)' /\ Done(g) \subseteq Done(g)' /\ j \in Nat
        BY <3>3 DEF Done
      <3>5. j \in Done(g) => j < next[g]
        BY <3>3 DEF Done
      <3>6. j \in Done(g) \/ j = next[g]
        BY <3>3 DEF Done
      <3>7. Op(g, next[g]) # "clear"
        BY <3>1, <3>3, <3>4, <3>5, <3>6 DEF Op
      <3>8. PICK t \in Slice : AppendsTo(g, Val(g, next[g]), t)
        BY <3>2, <3>7
      <3>9. PICK v \in Values : v = Val(g, next[g])
        BY <3>8 DEF AppendsTo
      <3>10. txt'[g] = t
        BY <1>t, <3>8 DEF AppendsTo, TypeInv, TypeOK, HandlerTypeOK
      <3>11. /\ t.len = txt[g].len + 1 /\ cell'[t.arr][t.len] = v
             /\ \A i \in 1..txt[g].len : cell'[t.arr][i] = cell[txt[g].arr][i]
        BY <1>t, <3>8, <3>9, AppendAdds
      <3>12. txt[g].len \in Nat
        BY <1>t, ListsInUse, StoreAssumption DEF Slice
      <3>13. CASE j = next[g]
        <4>1. Val(g, j)' = v /\ t.len \in 1..t.len
          BY <3>1, <3>9, <3>11, <3>12, <3>13 DEF Val
        <4> QED
          BY <3>10, <3>11, <4>1 DEF Has
      <3>14. CASE j \in Done(g)
        <4>1. Has(txt[g], Val(g, j))
          BY <1>c, <3>1, <3>4, <3>14 DEF Collected, Op
        <4>2. PICK i \in 1..txt[g].len : cell[txt[g].arr][i] = Val(g, j)
          BY <4>1 DEF Has
        <4>3. i \in 1..t.len /\ cell'[t.arr][i] = Val(g, j)
          BY <3>11, <3>12, <4>2
        <4> QED
          BY <3>1, <3>10, <4>3 DEF Has, Val
      <3> QED
        BY <3>6, <3>13, <3>14
    <2>3. ~(Verify(g) \/ LookupZone(g) \/ StoreZone(g) \/ QueryZone(g) \/ ReadAnswer(g) \/ Respond(g))
      BY <1>t DEF Verify, LookupZone, StoreZone, QueryZone, ReadAnswer, Respond, Reply, Goto,
                  TypeInv, TypeOK, HandlerTypeOK
    <2> QED
      BY <1>3, <2>1, <2>2, <2>3 DEF Serve
  <1> QED
    BY <1>1, <1>2, <1>3

LEMMA StoredNext ==
  ASSUME OneUpdater, NoNewZones, SerialInv, AckInv, [Next]_vars, NEW g \in Handlers
  PROVE  Stored(g)'
  <1> SUFFICES ASSUME pc'[g] = "respond", req'[g].kind = "update", reply'[g].rcode = "NOERROR"
               PROVE  /\ req'[g].exact \in ZoneNames
                      /\ \A z \in ZoneNames : z = req'[g].exact /\ zones'[z] # NoZone =>
                           \A v \in Wanted(req'[g]) : Has(zones[z].answers, v)'
    BY DEF Stored, Wanted
  <1>t. TypeInv /\ Inv /\ ControlInv
    BY DEF SerialInv, Inv
  <1>s. Stored(g)
    BY DEF AckInv
  <1>1. CASE ~\E h \in Handlers : Serve(h)
    <2>1. pc'[g] = pc[g] /\ req'[g] = req[g]
      BY <1>1, <1>t, OtherSteps DEF Receive, Goto, TypeInv, TypeOK, HandlerTypeOK
    <2>2. UNCHANGED <<cell, reply>>
      BY <1>1, <1>t, OtherSteps
    <2>3. \A z \in ZoneNames : zones'[z] # NoZone =>
            zones[z] # NoZone /\ zones'[z].answers = zones[z].answers
      BY <1>1, <1>t, OtherSteps DEF NoNewZones
    <2> QED
      BY <1>s, <2>1, <2>2, <2>3 DEF Stored, Has
  <1>2. ASSUME NEW h \in Handlers, h # g, Serve(h)
        PROVE  /\ req'[g].exact \in ZoneNames
               /\ \A z \in ZoneNames : z = req'[g].exact /\ zones'[z] # NoZone =>
                    \A v \in Wanted(req'[g]) : Has(zones[z].answers, v)'
    <2>1. pc'[g] = pc[g] /\ req'[g] = req[g] /\ reply'[g] = reply[g]
      BY <1>2, <1>t, OthersRest
    <2>2. ~Writing(h)
      <3> SUFFICES ASSUME Writing(h) PROVE FALSE
        OBVIOUS
      <3>1. pc[h] # "idle" /\ req[h].kind = "update"
        BY <1>t DEF ControlInv, Control, Writing
      <3> QED
        BY <1>2, <1>t, <2>1, <3>1, OnlyOneWrites
    <2>3. UNCHANGED storeVars
      BY <1>2, <2>2, OnlyUpdatesStore
    <2> QED
      BY <1>s, <2>1, <2>3 DEF Stored, Has, storeVars
  <1>3. ASSUME Serve(g)
        PROVE  /\ req'[g].exact \in ZoneNames
               /\ \A z \in ZoneNames : z = req'[g].exact /\ zones'[z] # NoZone =>
                    \A v \in Wanted(req'[g]) : Has(zones[z].answers, v)'
    <2>1. StoreZone(g) /\ SetZone(req[g].exact, txt[g])
      <3>1. ~(Verify(g) \/ LookupZone(g) \/ Authorise(g))
        BY <1>t DEF Verify, LookupZone, Authorise, Reply, Goto, TypeInv, TypeOK, HandlerTypeOK
      <3>2. ~ApplyRecord(g)
        <4> SUFFICES ASSUME ApplyRecord(g) PROVE FALSE
          OBVIOUS
        <4>1. pc[g] = "records" /\ (pc' = pc \/ reply'[g].rcode # "NOERROR")
          BY <1>t, RecordStep
        <4> QED
          BY <4>1
      <3>3. ~(QueryZone(g) \/ ReadAnswer(g))
        BY <1>t DEF QueryZone, ReadAnswer, ControlInv, Control
      <3>4. ~Respond(g)
        BY <1>t DEF Respond, Goto, TypeInv, TypeOK, HandlerTypeOK
      <3>5. StoreZone(g)
        BY <1>3, <3>1, <3>2, <3>3, <3>4 DEF Serve
      <3> QED
        BY <1>t, <3>5 DEF StoreZone, Reply, TypeInv, TypeOK, HandlerTypeOK
    <2>2. pc[g] = "records" /\ next[g] > Len(req[g].records) /\ Stores(g)
      BY <2>1 DEF StoreZone, Stores
    <2>3. /\ req[g].exact \in ZoneNames /\ zones'[req[g].exact].answers = txt[g]
          /\ cell' = cell /\ req' = req
      BY <1>t, <2>2, StoreEffect
    <2>4. ASSUME NEW v \in Wanted(req[g]) PROVE Has(txt[g], v)
      <3>1. PICK j \in DOMAIN req[g].records :
              /\ v = Val(g, j) /\ Op(g, j) = "append"
              /\ \A k \in DOMAIN req[g].records : k > j => Op(g, k) # "clear"
        BY DEF Wanted, Val, Op
      <3>2. req[g].records \in Seq(UpdateRecord)
        <4>1. req[g] \in Requests
          BY <1>t, <2>2 DEF TypeInv, TypeOK, HandlerTypeOK
        <4> QED
          BY <4>1, ServerAssumption DEF Request
      <3>3. j \in Done(g)
        BY <1>t, <2>2, <3>1, <3>2 DEF Done, TypeInv, TypeOK, HandlerTypeOK
      <3>4. Done(g) \subseteq DOMAIN req[g].records
        BY <1>t, <2>2 DEF ControlInv, Control
      <3>5. Collected(g)
        BY DEF AckInv
      <3> QED
        BY <2>2, <3>1, <3>3, <3>4, <3>5 DEF Collected
    <2> QED
      BY <2>3, <2>4 DEF Has
  <1> QED
    BY <1>1, <1>2, <1>3

LEMMA ClearedAwayNext ==
  ASSUME OneUpdater, SerialInv, AckInv, [Next]_vars, NEW g \in Handlers
  PROVE  ClearedAway(g)'
  <1> SUFFICES ASSUME pc'[g] # "idle", req'[g].kind = "update", Clears(req'[g]), NEW p \in acked'
               PROVE  p[1] # req'[g].exact
    BY DEF ClearedAway, Clears
  <1>t. TypeInv /\ Inv /\ ControlInv
    BY DEF SerialInv, Inv
  <1>c. ClearedAway(g)
    BY DEF AckInv
  <1>1. CASE ~\E h \in Handlers : Serve(h)
    <2>1. CASE UNCHANGED <<pc, req, acked, snapshot>>
      BY <1>c, <2>1 DEF ClearedAway
    <2>2. ASSUME NEW h \in Handlers, NEW r \in Serves[h], Receive(h, r) PROVE p[1] # req'[g].exact
      <3>1. p \in acked /\ (Clears(r) => p[1] # r.exact)
        BY <2>2 DEF Receive
      <3>2. CASE g = h
        <4>1. req'[g] = r
          BY <1>t, <2>2, <3>2 DEF Receive, TypeInv, TypeOK, HandlerTypeOK
        <4> QED
          BY <3>1, <4>1
      <3>3. CASE g # h
        <4>1. req'[g] = req[g] /\ pc'[g] = pc[g]
          BY <1>t, <2>2, <3>3 DEF Receive, Goto, TypeInv, TypeOK, HandlerTypeOK
        <4> QED
          BY <1>c, <3>1, <4>1 DEF ClearedAway
      <3> QED
        BY <3>2, <3>3
    <2> QED
      BY <1>1, <1>t, <2>1, <2>2, OtherSteps
  <1>2. ASSUME NEW h \in Handlers, Serve(h) PROVE p[1] # req'[g].exact
    <2>1. pc[g] # "idle" /\ req[g] = req'[g]
      <3>1. CASE h = g
        BY <1>2, <1>t, <3>1 DEF Serve, Verify, LookupZone, Authorise, ApplyRecord, StoreZone, QueryZone,
                          ReadAnswer, Respond, Goto, TypeInv, TypeOK, HandlerTypeOK
      <3>2. CASE h # g
        BY <1>2, <1>t, <3>2, OthersRest
      <3> QED
        BY <3>1, <3>2
    <2>2. CASE p \in acked
      BY <1>c, <2>1, <2>2 DEF ClearedAway
    <2>3. CASE p \notin acked
      <3>1. Respond(h)
        BY <1>2, <1>t, <2>3, ServeChanges
      <3>2. pc[h] # "idle" /\ req[h].kind = "update" /\ pc'[h] = "idle"
        BY <1>t, <2>3, <3>1 DEF Respond, Goto, TypeInv, TypeOK, HandlerTypeOK
      <3> QED
        BY <1>t, <2>1, <3>2, OnlyOneWrites
    <2> QED
      BY <2>2, <2>3
  <1> QED
    BY <1>1, <1>2

\* With one updater, and zones that are not created anew, an acknowledged append
\* stays visible until an update that clears the zone is received, whatever keys
\* are rotated and zones deleted meanwhile.
THEOREM AcknowledgedStaysVisible ==
  ASSUME OneUpdater, NoNewZones
  PROVE  Spec => []AcknowledgedAppendsVisible
  <1>1. Init => SerialInv /\ AckInv
    BY SerialInit DEF Init, AckInv, AckedShown, Collected, Stored, ClearedAway
  <1>2. SerialInv /\ AckInv /\ [Next]_vars => SerialInv' /\ AckInv'
    BY SerialNext, AckedShownNext, CollectedNext, StoredNext, ClearedAwayNext DEF AckInv
  <1>3. AckInv => AcknowledgedAppendsVisible
    BY DEF AckInv, AckedShown, AcknowledgedAppendsVisible, AnswerSet, Has
  <1> QED
    BY <1>1, <1>2, <1>3, PTL DEF Spec
------------------------------------------------------------------------------
(* A TXT response is the list its query found.                             *)

\* A query remembers the list it found only while nothing is being cleared.
NoClear ==
  \A g, h \in Handlers : snapshot[g] # {} /\ pc[h] # "idle" => ~Clears(req[h])

\* The list a query is reading, or has read, is the one it found.
Frozen(h) ==
  /\ pc[h] = "read" =>
       \A s \in snapshot[h] :
         /\ s = Contents(txt[h]) /\ next[h] <= txt[h].len + 1
         /\ answer[h] = [i \in 1..(next[h] - 1) |-> s[i]]
  /\ pc[h] = "respond" /\ req[h].kind = "query" /\ req[h].qtype = "TXT" /\ reply[h].rcode = "NOERROR" =>
       \A s \in snapshot[h] : s = answer[h]

\* No list that is appended to, or may be, is shorter than the one being read.
Ahead(h) ==
  pc[h] = "read" /\ snapshot[h] # {} =>
    /\ \A g \in Handlers : Writing(g) /\ SharesArray(txt[h], txt[g]) => txt[h].len <= txt[g].len
    /\ \A z \in ZoneNames : zones[z] # NoZone /\ SharesArray(txt[h], zones[z].answers) =>
         txt[h].len <= zones[z].answers.len

SnapshotInv == NoClear /\ \A h \in Handlers : Frozen(h) /\ Ahead(h)

LEMMA ServeSnapshot ==
  ASSUME TypeInv, NEW h \in Handlers, Serve(h)
  PROVE  snapshot' = snapshot \/ QueryZone(h) \/ Respond(h)
  BY DEF Serve, Verify, LookupZone, Authorise, ApplyRecord, StoreZone, ReadAnswer, historyVars

\* A handler that has begun does not change what it serves.
LEMMA StillServes ==
  ASSUME TypeInv, ControlInv, NEW h \in Handlers, Serve(h), NEW g \in Handlers, pc'[g] # "idle"
  PROVE  pc[g] # "idle" /\ req'[g] = req[g]
  <1>1. CASE h = g
    BY <1>1 DEF Serve, Verify, LookupZone, Authorise, ApplyRecord, StoreZone, QueryZone,
                ReadAnswer, Respond, Goto, TypeInv, TypeOK, HandlerTypeOK
  <1>2. CASE h # g
    BY <1>2, OthersRest
  <1> QED
    BY <1>1, <1>2

LEMMA NoClearNext ==
  ASSUME SerialInv, NoClear, [Next]_vars
  PROVE  NoClear'
  <1> SUFFICES ASSUME NEW g \in Handlers, NEW h \in Handlers, snapshot'[g] # {}, pc'[h] # "idle"
               PROVE  ~Clears(req'[h])
    BY DEF NoClear, Clears
  <1>t. TypeInv /\ Inv /\ ControlInv
    BY DEF SerialInv, Inv
  <1>1. CASE ~\E f \in Handlers : Serve(f)
    <2>1. CASE UNCHANGED <<pc, req, acked, snapshot>>
      BY <2>1 DEF NoClear
    <2>2. ASSUME NEW f \in Handlers, NEW r \in Serves[f], Receive(f, r) PROVE ~Clears(req'[h])
      <3>1. ~Clears(r) /\ snapshot' = snapshot
        BY <2>2 DEF Receive
      <3>2. CASE f = h
        BY <1>t, <2>2, <3>1, <3>2 DEF Receive, TypeInv, TypeOK, HandlerTypeOK
      <3>3. CASE f # h
        <4>1. req'[h] = req[h] /\ pc'[h] = pc[h]
          BY <1>t, <2>2, <3>3 DEF Receive, Goto, TypeInv, TypeOK, HandlerTypeOK
        <4> QED
          BY <3>1, <4>1 DEF NoClear
      <3> QED
        BY <3>2, <3>3
    <2> QED
      BY <1>1, <1>t, <2>1, <2>2, OtherSteps
  <1>2. ASSUME NEW f \in Handlers, Serve(f) PROVE ~Clears(req'[h])
    <2>1. pc[h] # "idle" /\ req'[h] = req[h]
      BY <1>2, <1>t, StillServes
    <2>2. CASE snapshot[g] # {}
      BY <2>1, <2>2 DEF NoClear
    <2>3. CASE snapshot[g] = {}
      <3>1. QueryZone(f)
        <4>1. CASE Respond(f)
          BY <1>t, <2>3, <4>1 DEF Respond, ControlInv
        <4> QED
          BY <1>2, <1>t, <2>3, <4>1, ServeSnapshot
      <3>2. ~ClearInFlight
        BY <1>t, <2>3, <3>1 DEF QueryZone, ControlInv
      <3> QED
        BY <2>1, <3>2 DEF ClearInFlight
    <2> QED
      BY <2>2, <2>3
  <1> QED
    BY <1>1, <1>2

\* The list a query is reading is not touched.
LEMMA ReadKept ==
  ASSUME SerialInv, SnapshotInv, NEW g \in Handlers, pc[g] = "read", snapshot[g] # {}, [Next]_vars
  PROVE  \A i \in 1..txt[g].len : cell'[txt[g].arr][i] = cell[txt[g].arr][i]
  <1>t. TypeInv /\ Inv /\ ControlInv
    BY DEF SerialInv, Inv
  <1>1. CASE ~\E h \in Handlers : Serve(h)
    BY <1>1, <1>t, OtherSteps
  <1>2. ASSUME NEW h \in Handlers, Serve(h)
        PROVE  \A i \in 1..txt[g].len : cell'[txt[g].arr][i] = cell[txt[g].arr][i]
    <2>1. CASE UNCHANGED storeVars
      BY <2>1 DEF storeVars
    <2>2. CASE Stores(h)
      BY <1>t, <2>2, StoreEffect
    <2>3. ASSUME NEW t \in Slice, NEW v \in Values, AppendsTo(h, v, t)
          PROVE  \A i \in 1..txt[g].len : cell'[txt[g].arr][i] = cell[txt[g].arr][i]
      <3>1. Writing(h)
        BY <2>3 DEF AppendsTo, Writing
      <3>2. SharesArray(txt[g], txt[h]) => txt[g].len <= txt[h].len
        BY <3>1 DEF SnapshotInv, Ahead
      <3>3. txt[g] \in Slice /\ SliceOK(txt[g]) /\ txt[g].arr \in InUse
        BY <1>t, ListsInUse
      <3>4. PICK s \in Slice : s = txt[g]
        BY <3>3
      <3>5. \A i \in 1..s.len : cell'[s.arr][i] = cell[s.arr][i]
        BY <1>t, <2>3, <3>2, <3>3, <3>4, AppendKeeps
      <3> QED
        BY <3>4, <3>5
    <2> QED
      BY <1>2, <1>t, <2>1, <2>2, <2>3, ServeChanges
  <1> QED
    BY <1>1, <1>2

LEMMA FrozenNext ==
  ASSUME SerialInv, SnapshotInv, [Next]_vars, NEW g \in Handlers
  PROVE  Frozen(g)'
  <1>t. TypeInv /\ Inv /\ ControlInv
    BY DEF SerialInv, Inv
  <1>f. Frozen(g)
    BY DEF SnapshotInv
  <1>1. CASE ~\E h \in Handlers : Serve(h)
    <2>1. UNCHANGED <<cell, txt, answer, next, reply>>
      BY <1>1, <1>t, OtherSteps
    <2>2. CASE UNCHANGED <<pc, req, acked, snapshot>>
      BY <1>f, <2>1, <2>2 DEF Frozen, Contents
    <2>3. ASSUME NEW h \in Handlers, NEW r \in Serves[h], Receive(h, r) PROVE Frozen(g)'
      <3>1. snapshot'[g] \subseteq snapshot[g]
        BY <2>3 DEF Receive
      <3>2. pc'[g] \in {"read", "respond"} => pc'[g] = pc[g] /\ req'[g] = req[g]
        BY <1>t, <2>3 DEF Receive, Goto, TypeInv, TypeOK, HandlerTypeOK
      <3> QED
        BY <1>f, <2>1, <3>1, <3>2 DEF Frozen, Contents
    <2> QED
      BY <1>1, <1>t, <2>2, <2>3, OtherSteps
  <1>2. ASSUME NEW h \in Handlers, h # g, Serve(h) PROVE Frozen(g)'
    <2>1. /\ pc'[g] = pc[g] /\ req'[g] = req[g] /\ txt'[g] = txt[g] /\ answer'[g] = answer[g]
          /\ next'[g] = next[g] /\ reply'[g] = reply[g] /\ snapshot'[g] = snapshot[g]
      BY <1>2, <1>t, OthersRest
    <2>2. ASSUME pc[g] = "read", snapshot[g] # {} PROVE Contents(txt[g])' = Contents(txt[g])
      BY <2>1, <2>2, ReadKept DEF Contents
    <2> QED
      BY <1>f, <2>1, <2>2 DEF Frozen
  <1>3. CASE QueryZone(g)
    <2>1. UNCHANGED <<cell, next, answer, req>> /\ next[g] = 1 /\ answer[g] = <<>> /\ pc[g] = "query"
      BY <1>3, <1>t DEF QueryZone, storeVars, ControlInv, Control
    <2>2. ASSUME pc'[g] = "read", NEW s \in snapshot'[g]
          PROVE  s = Contents(txt[g])' /\ 1 <= txt'[g].len + 1 /\ <<>> = [i \in 1..0 |-> s[i]]
      <3>1. txt'[g] = zones[req[g].lookup].answers /\ snapshot'[g] \subseteq {Answers(req[g].lookup)}
        BY <1>3, <1>t, <2>2 DEF QueryZone, Reply, Goto, TypeInv, TypeOK, HandlerTypeOK, ControlInv
      <3>2. s = Contents(txt[g])'
        BY <2>1, <3>1 DEF Answers, Contents
      <3>3. req[g].lookup \in ZoneNames /\ zones[req[g].lookup] # NoZone
        BY <1>3, <1>t, <2>2 DEF QueryZone, HasZone, Reply, Goto, TypeInv, TypeOK, HandlerTypeOK
      <3>4. txt'[g].len \in Nat
        BY <1>t, <3>1, <3>3, ListsInUse, StoreAssumption DEF Slice
      <3>5. 1 <= txt'[g].len + 1
        BY <3>4
      <3> QED
        BY <3>2, <3>5
    <2>3. ~(pc'[g] = "respond" /\ req'[g].qtype = "TXT" /\ reply'[g].rcode = "NOERROR")
      BY <1>3, <1>t, <2>1 DEF QueryZone, Reply, Goto, TypeInv, TypeOK, HandlerTypeOK
    <2> QED
      BY <2>1, <2>2, <2>3 DEF Frozen
  <1>4. CASE ReadAnswer(g)
    <2>1. UNCHANGED <<cell, txt, req, snapshot>> /\ pc[g] = "read"
      BY <1>4 DEF ReadAnswer, storeVars, historyVars
    <2>2. \A s \in snapshot[g] :
            /\ s = Contents(txt[g]) /\ next[g] <= txt[g].len + 1
            /\ answer[g] = [i \in 1..(next[g] - 1) |-> s[i]]
      BY <1>f, <2>1 DEF Frozen
    <2>3. txt[g].len \in Nat /\ next[g] \in Nat \ {0} /\ next[g] - 1 \in Nat
      BY <1>t, StoreAssumption DEF TypeInv, TypeOK, HandlerTypeOK, Slice
    <2>4. CASE next[g] <= txt[g].len
      <3>1. /\ pc' = pc /\ next'[g] = next[g] + 1
            /\ answer'[g] = Append(answer[g], cell[txt[g].arr][next[g]])
        BY <1>4, <1>t, <2>4 DEF ReadAnswer, TypeInv, TypeOK, HandlerTypeOK
      <3>2. ASSUME NEW s \in snapshot[g]
            PROVE  /\ s = Contents(txt[g])' /\ next'[g] <= txt'[g].len + 1
                   /\ answer'[g] = [i \in 1..(next'[g] - 1) |-> s[i]]
        <4>0. s = [i \in 1..txt[g].len |-> cell[txt[g].arr][i]]
          BY <2>2 DEF Contents
        <4>1. s[next[g]] = cell[txt[g].arr][next[g]]
          BY <2>3, <2>4, <4>0
        <4>2. answer[g] = [i \in 1..(next[g] - 1) |-> s[i]]
          BY <2>2
        <4>3. Append([i \in 1..(next[g] - 1) |-> s[i]], s[next[g]]) = [i \in 1..next[g] |-> s[i]]
          BY <2>3
        <4>4. next'[g] - 1 = next[g] /\ next'[g] <= txt[g].len + 1
          BY <2>3, <2>4, <3>1
        <4> QED
          BY <2>1, <2>2, <3>1, <4>1, <4>2, <4>3, <4>4 DEF Contents
      <3> QED
        BY <2>1, <3>1, <3>2 DEF Frozen
    <2>5. CASE ~(next[g] <= txt[g].len)
      <3>1. answer' = answer /\ pc'[g] = "respond"
        BY <1>4, <1>t, <2>5 DEF ReadAnswer, Reply, Goto, TypeInv, TypeOK, HandlerTypeOK
      <3>2. ASSUME NEW s \in snapshot[g] PROVE s = answer[g]
        <4>0. next[g] <= txt[g].len + 1
          BY <2>2
        <4>1. next[g] - 1 = txt[g].len
          BY <2>3, <2>5, <4>0
        <4> QED
          BY <2>2, <4>1 DEF Contents
      <3> QED
        BY <2>1, <3>1, <3>2 DEF Frozen
    <2> QED
      BY <2>4, <2>5
  <1>5. ASSUME Serve(g), ~QueryZone(g), ~ReadAnswer(g) PROVE Frozen(g)'
    <2>1. pc'[g] # "read"
      BY <1>5, <1>t DEF Serve, Verify, LookupZone, Authorise, ApplyRecord, ClearRecord, AppendRecord, RefuseRecord,
                  StoreZone, Respond, Reply, Goto, TypeInv, TypeOK, HandlerTypeOK
    <2>2. pc'[g] = "respond" => req'[g].kind # "query"
      BY <1>5, <1>t DEF Serve, Verify, LookupZone, Authorise, ApplyRecord, StoreZone, Respond, Goto,
                  TypeInv, TypeOK, HandlerTypeOK, ControlInv, Control, Writing
    <2> QED
      BY <2>1, <2>2 DEF Frozen
  <1> QED
    BY <1>1, <1>2, <1>3, <1>4, <1>5

\* A step other than the query's own load keeps the writers ahead of it.
LEMMA AheadNext ==
  ASSUME OneUpdater, SerialInv, SnapshotInv, NoClear', [Next]_vars, NEW g \in Handlers
  PROVE  Ahead(g)'
  <1> SUFFICES ASSUME pc'[g] = "read", snapshot'[g] # {}
               PROVE  /\ \A f \in Handlers : Writing(f)' /\ SharesArray(txt[g], txt[f])' =>
                           txt'[g].len <= txt'[f].len
                      /\ \A z \in ZoneNames : zones'[z] # NoZone /\ SharesArray(txt[g], zones[z].answers)' =>
                           txt'[g].len <= zones'[z].answers.len
    BY DEF Ahead
  <1>t. TypeInv /\ Inv /\ ControlInv
    BY DEF SerialInv, Inv
  <1>l. txt[g] \in Slice /\ SliceOK(txt[g]) /\ txt[g].arr \in InUse /\ txt[g].len \in Nat
    BY <1>t, ListsInUse, StoreAssumption DEF Slice
  <1>a. pc[g] = "read" /\ snapshot[g] # {} =>
          /\ \A f \in Handlers : Writing(f) /\ SharesArray(txt[g], txt[f]) => txt[g].len <= txt[f].len
          /\ \A z \in ZoneNames : zones[z] # NoZone /\ SharesArray(txt[g], zones[z].answers) =>
               txt[g].len <= zones[z].answers.len
    BY DEF SnapshotInv, Ahead
  <1>1. CASE ~\E h \in Handlers : Serve(h)
    <2>1. UNCHANGED <<cell, txt>>
      BY <1>1, <1>t, OtherSteps
    <2>2. pc[g] = "read" /\ snapshot[g] # {} /\ \A f \in Handlers : Writing(f)' => Writing(f)
      <3>1. CASE UNCHANGED <<pc, req, acked, snapshot>>
        BY <3>1 DEF Writing
      <3>2. ASSUME NEW h \in Handlers, NEW r \in Serves[h], Receive(h, r)
            PROVE  pc[g] = "read" /\ snapshot[g] # {} /\ \A f \in Handlers : Writing(f)' => Writing(f)
        BY <1>t, <3>2 DEF Receive, Goto, Writing, TypeInv, TypeOK, HandlerTypeOK
      <3> QED
        BY <1>1, <1>t, <3>1, <3>2, OtherSteps
    <2>3. \A z \in ZoneNames : zones'[z] # NoZone =>
            \/ zones[z] # NoZone /\ zones'[z].answers = zones[z].answers
            \/ zones'[z].answers = NilSlice
      BY <1>1, <1>t, OtherSteps
    <2> QED
      BY <1>a, <2>1, <2>2, <2>3 DEF SharesArray, NilSlice
  <1>2. ASSUME QueryZone(g)
        PROVE  /\ \A f \in Handlers : Writing(f)' /\ SharesArray(txt[g], txt[f])' =>
                    txt'[g].len <= txt'[f].len
               /\ \A z \in ZoneNames : zones'[z] # NoZone /\ SharesArray(txt[g], zones[z].answers)' =>
                    txt'[g].len <= zones'[z].answers.len
    <2>1. /\ UNCHANGED <<storeVars, req, next>> /\ pc[g] = "query"
          /\ HasZone(req[g].lookup) /\ txt' = [txt EXCEPT ![g] = zones[req[g].lookup].answers]
      BY <1>2, <1>t DEF QueryZone, Reply, Goto, TypeInv, TypeOK, HandlerTypeOK
    <2>2. PICK y \in ZoneNames : y = req[g].lookup /\ zones[y] # NoZone
      BY <2>1 DEF HasZone
    <2>3. txt'[g] = zones[y].answers /\ zones[y].answers.len \in Nat
      BY <1>t, <2>1, <2>2, ListsInUse, StoreAssumption DEF TypeInv, TypeOK, HandlerTypeOK, Slice
    <2>4. ASSUME NEW f \in Handlers, Writing(f)', SharesArray(txt[g], txt[f])'
          PROVE  txt'[g].len <= txt'[f].len
      <3>1. f # g /\ pc'[f] = pc[f]
        <4>1. pc' = [pc EXCEPT ![g] = pc'[g]]
          BY <1>2, <1>t DEF QueryZone, Reply, Goto, TypeInv, TypeOK, HandlerTypeOK
        <4> QED
          BY <1>2, <1>t, <2>4, OthersRest DEF Writing, Serve
      <3>2. txt'[f] = txt[f] /\ Writing(f)
        BY <2>1, <2>4, <3>1 DEF Writing
      <3>3. SharesArray(zones[y].answers, txt[f])
        BY <2>3, <2>4, <3>2 DEF SharesArray
      <3>4. req[f].lookup = y
        BY <1>t, <2>2, <3>3 DEF Inv, Isolated, HandlersAtZone
      <3>5. ~Clears(req[f])
        BY <2>1, <3>1, <3>2 DEF NoClear, Writing, Clears
      <3>6. ~Cleared(f)
        <4>1. CASE pc[f] = "records"
          BY <1>t, <3>5, <4>1, DoneInRecords
        <4>2. CASE pc[f] = "key"
          BY <1>t, <4>2 DEF ControlInv, Control, Cleared, Done
        <4> QED
          BY <3>2, <4>1, <4>2 DEF Writing
      <3>7. Extends(txt[f], zones[y].answers)
        BY <2>2, <3>2, <3>4, <3>6 DEF SerialInv, PriorInv, Prior
      <3> QED
        BY <2>3, <3>2, <3>7 DEF Extends
    <2>5. ASSUME NEW z \in ZoneNames, zones'[z] # NoZone, SharesArray(txt[g], zones[z].answers)'
          PROVE  txt'[g].len <= zones'[z].answers.len
      <3>1. zones' = zones
        BY <2>1 DEF storeVars
      <3>2. z = y
        BY <1>t, <2>2, <2>3, <2>5, <3>1 DEF Inv, Isolated, ZonesApart, SharesArray
      <3> QED
        BY <2>3, <3>1, <3>2
    <2> QED
      BY <2>4, <2>5
  <1>3. ASSUME NEW h \in Handlers, Serve(h), h # g \/ ~QueryZone(g)
        PROVE  /\ \A f \in Handlers : Writing(f)' /\ SharesArray(txt[g], txt[f])' =>
                    txt'[g].len <= txt'[f].len
               /\ \A z \in ZoneNames : zones'[z] # NoZone /\ SharesArray(txt[g], zones[z].answers)' =>
                    txt'[g].len <= zones'[z].answers.len
    <2>1. pc[g] = "read" /\ snapshot[g] # {} /\ txt'[g] = txt[g]
      <3>1. CASE h = g
        <4>1. ReadAnswer(g)
          BY <1>3, <1>t, <3>1 DEF Serve, Verify, LookupZone, Authorise, ApplyRecord, ClearRecord, AppendRecord,
                     RefuseRecord, StoreZone, Respond, Reply, Goto, TypeInv, TypeOK, HandlerTypeOK
        <4> QED
          BY <4>1 DEF ReadAnswer, historyVars
      <3>2. CASE h # g
        BY <1>3, <1>t, <3>2, OthersRest
      <3> QED
        BY <3>1, <3>2
    <2>2. ASSUME NEW f \in Handlers, f # h, Writing(f)', SharesArray(txt[g], txt[f])'
          PROVE  txt'[g].len <= txt'[f].len
      <3>1. txt'[f] = txt[f] /\ Writing(f)
        BY <1>3, <1>t, <2>2, OthersRest DEF Writing
      <3> QED
        BY <1>a, <2>1, <2>2, <3>1 DEF SharesArray
    <2>3. ASSUME Writing(h)', SharesArray(txt[g], txt[h])'
          PROVE  txt'[g].len <= txt'[h].len
      <3>1. CASE LookupZone(h)
        <4>1. HasZone(req[h].lookup) /\ txt'[h] = zones[req[h].lookup].answers
          BY <1>t, <2>3, <3>1 DEF LookupZone, Reply, Goto, Writing, TypeInv, TypeOK, HandlerTypeOK
        <4>2. PICK z \in ZoneNames : z = req[h].lookup /\ zones[z] # NoZone
          BY <4>1 DEF HasZone
        <4>3. SharesArray(txt[g], zones[z].answers)
          BY <2>1, <2>3, <4>1, <4>2 DEF SharesArray
        <4> QED
          BY <1>a, <2>1, <4>1, <4>2, <4>3
      <3>2. CASE Authorise(h)
        <4>1. txt' = txt /\ Writing(h)
          BY <3>2 DEF Authorise, Writing
        <4> QED
          BY <1>a, <2>1, <2>3, <4>1 DEF SharesArray
      <3>3. CASE ApplyRecord(h)
        <4>1. pc[h] = "records" /\ next[h] \in DOMAIN req[h].records /\ Writing(h)
          BY <1>t, <3>3, RecordStep DEF Writing
        <4>2. Op(h, next[h]) # "clear"
          BY <2>1, <4>1 DEF SnapshotInv, NoClear, Clears, Op
        <4>3. pc'[h] # "respond"
          BY <2>3 DEF Writing
        <4>4. PICK t \in Slice, v \in Values : AppendsTo(h, v, t)
          <5>1. \E t \in Slice : AppendsTo(h, Val(h, next[h]), t)
            BY <1>t, <3>3, <4>2, <4>3, RecordStep
          <5> QED
            BY <5>1 DEF AppendsTo
        <4>5. txt'[h] = t
          BY <1>t, <4>4 DEF AppendsTo, TypeInv, TypeOK, HandlerTypeOK
        <4>6. t.arr \notin InUse \/ t.arr = txt[h].arr
          BY <1>t, <4>4, AppendWrites
        <4>7. t.len = txt[h].len + 1 /\ txt[h].len \in Nat
          BY <1>t, <4>4, AppendAdds, ListsInUse, StoreAssumption DEF Slice
        <4>8. SharesArray(txt[g], txt[h])
          BY <1>l, <2>1, <2>3, <4>5, <4>6 DEF SharesArray
        <4>9. txt[g].len <= txt[h].len
          BY <1>a, <2>1, <4>1, <4>8
        <4> QED
          BY <1>l, <2>1, <4>5, <4>7, <4>9
      <3>4. ~(Verify(h) \/ StoreZone(h) \/ QueryZone(h) \/ ReadAnswer(h) \/ Respond(h))
        BY <1>t, <2>3 DEF Verify, StoreZone, QueryZone, ReadAnswer, Respond, Writing, Reply, Goto,
                          TypeInv, TypeOK, HandlerTypeOK
      <3> QED
        BY <1>3, <3>1, <3>2, <3>3, <3>4 DEF Serve
    <2>4. ASSUME NEW z \in ZoneNames, zones'[z] # NoZone, SharesArray(txt[g], zones[z].answers)'
          PROVE  txt'[g].len <= zones'[z].answers.len
      <3>1. CASE zones' = zones
        BY <1>a, <2>1, <2>4, <3>1 DEF SharesArray
      <3>2. CASE Stores(h)
        <4>1. /\ zones'[req[h].exact].answers = txt[h]
              /\ \A y \in ZoneNames \ {req[h].exact} : zones'[y] = zones[y]
          BY <1>t, <3>2, StoreEffect
        <4>2. Writing(h)
          BY <3>2 DEF Stores, Writing
        <4>3. CASE z # req[h].exact
          BY <1>a, <2>1, <2>4, <4>1, <4>3 DEF SharesArray
        <4>4. CASE z = req[h].exact
          BY <1>a, <2>1, <2>4, <4>1, <4>2, <4>4 DEF SharesArray
        <4> QED
          BY <4>3, <4>4
      <3> QED
        BY <1>3, <1>t, <3>1, <3>2, ServeChanges DEF AppendsTo, storeVars
    <2> QED
      BY <2>2, <2>3, <2>4
  <1> QED
    BY <1>1, <1>2, <1>3

\* With one updater, a TXT response is the list its zone held when the query
\* looked it up, unless an update that clears was under way at some moment of
\* the query, whatever queries, key and zone changes run beside it.
THEOREM ResponsesAreSnapshots ==
  ASSUME OneUpdater
  PROVE  Spec => []SnapshotReads
  <1>1. Init => SerialInv /\ SnapshotInv
    BY SerialInit DEF Init, SnapshotInv, NoClear, Frozen, Ahead
  <1>2. SerialInv /\ SnapshotInv /\ [Next]_vars => SerialInv' /\ SnapshotInv'
    <2> SUFFICES ASSUME SerialInv, SnapshotInv, [Next]_vars PROVE SerialInv' /\ SnapshotInv'
      OBVIOUS
    <2>1. SerialInv'
      BY SerialNext
    <2>2. NoClear'
      BY NoClearNext DEF SnapshotInv
    <2> QED
      BY <2>1, <2>2, FrozenNext, AheadNext DEF SnapshotInv
  <1>3. SnapshotInv => SnapshotReads
    <2> SUFFICES ASSUME SnapshotInv, NEW h \in Handlers, \A s \in snapshot[h] : s = answer[h]
                 PROVE  snapshot[h] \in {{}, {answer[h]}}
      BY DEF SnapshotInv, Frozen, SnapshotReads
    <2> QED
      OBVIOUS
  <1> QED
    BY <1>1, <1>2, <1>3, PTL DEF Spec
------------------------------------------------------------------------------
(* The handlers implement ChallengeZones.                                  *)

\* l is the last of the first n records that clears, or 0 if none does.
ClearsLast(h, l, n) ==
  /\ l \in 0..n
  /\ l > 0 => Op(h, l) = "clear"
  /\ \A i \in (l + 1)..n : Op(h, i) # "clear"

\* How much of the zone's list is left in that of the handler.
Kept(z, l) == IF l = 0 THEN zones[z].answers.len ELSE 0

\* The handler's list has the values of the records l + 1 to n behind what it kept.
Counted(h, z, l, n) ==
  /\ txt[h].len = Kept(z, l) + (n - l)
  /\ \A i \in 1..(n - l) : cell[txt[h].arr][Kept(z, l) + i] = Val(h, l + i)

\* The list of a handler at work is what it kept of the zone's and the values
\* of the records done since the last clear.
Tally(h, z) ==
  \E l \in Nat : ClearsLast(h, l, next[h] - 1) /\ Counted(h, z, l, next[h] - 1)

Tallied(h) ==
  Writing(h) => \A z \in ZoneNames : z = req[h].lookup /\ zones[z] # NoZone => Tally(h, z)

PlainInv == SerialInv /\ \A h \in Handlers : Tallied(h)

\* What the message of a handler at work looks like.
LEMMA PlainRecords ==
  ASSUME NoRemovals, TypeInv, ControlInv, NEW h \in Handlers, Writing(h)
  PROVE  /\ req[h] \in Requests /\ req[h].kind = "update" /\ req[h].records \in Seq(UpdateRecord)
         /\ \A j \in DOMAIN req[h].records : Op(h, j) # "remove"
  <1>1. req[h] \in Requests /\ req[h].kind = "update"
    BY DEF ControlInv, Control, Writing, TypeInv, TypeOK, HandlerTypeOK
  <1>2. req[h].records \in Seq(UpdateRecord)
    BY <1>1, ServerAssumption DEF Request
  <1> QED
    BY <1>1, <1>2 DEF NoRemovals, Op

LEMMA TalliedNext ==
  ASSUME OneUpdater, NoRemovals, ZonesStay, PlainInv, [Next]_vars, NEW g \in Handlers
  PROVE  Tallied(g)'
  <1> SUFFICES ASSUME Writing(g)', NEW z \in ZoneNames, z = req'[g].lookup, zones'[z] # NoZone
               PROVE  Tally(g, z)'
    BY DEF Tallied
  <1>t. TypeInv /\ Inv /\ ControlInv
    BY DEF PlainInv, SerialInv, Inv
  <1>a. Writing(g) /\ z = req[g].lookup /\ zones[z] # NoZone => Tally(g, z)
    BY DEF PlainInv, Tallied
  <1>1. CASE ~\E h \in Handlers : Serve(h)
    <2>1. pc'[g] = pc[g] /\ req'[g] = req[g]
      BY <1>1, <1>t, OtherSteps DEF Receive, Goto, Writing, TypeInv, TypeOK, HandlerTypeOK
    <2>2. UNCHANGED <<cell, txt, next>>
      BY <1>1, <1>t, OtherSteps
    <2>3. zones[z] # NoZone /\ zones'[z].answers = zones[z].answers
      BY <1>1, <1>t, OtherSteps DEF ZonesStay, NoNewZones
    <2>4. Tally(g, z)
      BY <1>a, <2>1, <2>3 DEF Writing
    <2> QED
      BY <2>1, <2>2, <2>3, <2>4 DEF Tally, ClearsLast, Counted, Kept, Op, Val
  <1>2. ASSUME NEW h \in Handlers, h # g, Serve(h) PROVE Tally(g, z)'
    <2>1. pc'[g] = pc[g] /\ req'[g] = req[g] /\ txt'[g] = txt[g] /\ next'[g] = next[g]
      BY <1>2, <1>t, OthersRest
    <2>2. UNCHANGED storeVars
      BY <1>2, <1>t, <2>1, WriterAlone DEF Writing
    <2>3. Tally(g, z)
      BY <1>a, <2>1, <2>2 DEF Writing, storeVars
    <2> QED
      BY <2>1, <2>2, <2>3 DEF Tally, ClearsLast, Counted, Kept, Op, Val, storeVars
  <1>3. ASSUME Serve(g) PROVE Tally(g, z)'
    <2>1. CASE LookupZone(g)
      <3>1. /\ UNCHANGED <<storeVars, next, req>> /\ pc[g] = "zone"
            /\ txt'[g] = zones[req[g].lookup].answers
        BY <1>t, <2>1 DEF LookupZone, Reply, Goto, Writing, TypeInv, TypeOK, HandlerTypeOK
      <3>2. next'[g] = 1 /\ txt'[g] = zones'[z].answers
        BY <1>t, <3>1 DEF ControlInv, Control, storeVars
      <3>3. txt'[g].len \in Nat
        BY <1>t, <3>1, <3>2, ListsInUse, StoreAssumption DEF Slice, storeVars
      <3>4. ClearsLast(g, 0, next[g] - 1)' /\ Counted(g, z, 0, next[g] - 1)'
        BY <3>2, <3>3 DEF ClearsLast, Counted, Kept
      <3> QED
        BY <3>4 DEF Tally
    <2>2. CASE Authorise(g)
      <3>1. UNCHANGED <<storeVars, txt, next, req>> /\ Writing(g)
        BY <2>2 DEF Authorise, Writing
      <3>2. Tally(g, z)
        BY <1>a, <3>1 DEF storeVars
      <3> QED
        BY <3>1, <3>2 DEF Tally, ClearsLast, Counted, Kept, Op, Val, storeVars
    <2>3. CASE ApplyRecord(g)
      <3>1. /\ pc[g] = "records" /\ next[g] \in DOMAIN req[g].records /\ Writing(g)
            /\ UNCHANGED <<zones, req>>
        BY <1>t, <2>3, RecordStep DEF Writing
      <3>2. pc'[g] # "respond"
        BY DEF Writing
      <3>3. Op(g, next[g]) # "remove"
        BY <1>t, <3>1, PlainRecords
      <3>4. next' = [next EXCEPT ![g] = @ + 1]
        BY <1>t, <2>3, <3>2, RecordStep
      <3>5. next[g] \in Nat \ {0} /\ next'[g] = next[g] + 1
        BY <1>t, <3>4 DEF TypeInv, TypeOK, HandlerTypeOK
      <3>6. PICK n \in Nat : n = next[g] /\ next'[g] - 1 = n /\ n > 0
        BY <3>5
      <3>7. CASE Op(g, n) = "clear"
        <4>1. txt' = [txt EXCEPT ![g].len = 0]
          BY <1>t, <2>3, <3>2, <3>6, <3>7, RecordStep
        <4>2. txt'[g].len = 0
          BY <1>t, <4>1 DEF TypeInv, TypeOK, HandlerTypeOK, Slice
        <4>3. ClearsLast(g, n, n)'
          BY <3>1, <3>6, <3>7 DEF ClearsLast, Op
        <4>4. Counted(g, z, n, n)'
          BY <3>6, <4>2 DEF Counted, Kept
        <4> QED
          BY <3>6, <4>3, <4>4 DEF Tally
      <3>8. CASE Op(g, n) = "append"
        <4>1. PICK t \in Slice : AppendsTo(g, Val(g, n), t)
          BY <1>t, <2>3, <3>2, <3>6, <3>8, RecordStep
        <4>2. PICK v \in Values : v = Val(g, n)
          BY <4>1 DEF AppendsTo
        <4>3. txt'[g] = t
          BY <1>t, <4>1 DEF AppendsTo, TypeInv, TypeOK, HandlerTypeOK
        <4>4. /\ t.len = txt[g].len + 1 /\ cell'[t.arr][t.len] = v
              /\ \A i \in 1..txt[g].len : cell'[t.arr][i] = cell[txt[g].arr][i]
          BY <1>t, <4>1, <4>2, AppendAdds
        <4>5. PICK l \in Nat : ClearsLast(g, l, n - 1) /\ Counted(g, z, l, n - 1)
          BY <1>a, <3>1, <3>6 DEF Tally
        <4>6. ClearsLast(g, l, n)'
          BY <3>1, <3>6, <3>8, <4>5 DEF ClearsLast, Op
        <4>7. PICK k \in Nat : k = Kept(z, l)
          BY <1>t, <3>1, ListsInUse, StoreAssumption DEF Slice, Kept
        <4>8. /\ l <= n - 1 /\ txt[g].len = k + (n - 1 - l)
              /\ \A i \in 1..(n - 1 - l) : cell[txt[g].arr][k + i] = Val(g, l + i)
          BY <3>6, <4>5, <4>7 DEF ClearsLast, Counted
        <4>9. t.len = k + (n - l)
          BY <4>4, <4>8
        <4>10. ASSUME NEW i \in 1..(n - l)
               PROVE  cell'[t.arr][k + i] = Val(g, l + i)
          <5>1. CASE i = n - l
            <6>1. k + i = t.len /\ l + i = n
              BY <4>8, <4>9, <5>1
            <6> QED
              BY <4>2, <4>4, <6>1
          <5>2. CASE i # n - l
            <6>1. i \in 1..(n - 1 - l) /\ k + i \in 1..txt[g].len
              BY <4>8, <5>2
            <6> QED
              BY <4>4, <4>8, <6>1
          <5> QED
            BY <5>1, <5>2
        <4>11. Kept(z, l)' = k /\ \A i : Val(g, i)' = Val(g, i)
          BY <3>1, <4>7 DEF Kept, Val
        <4>12. Counted(g, z, l, n)'
          BY <4>3, <4>9, <4>10, <4>11 DEF Counted
        <4> QED
          BY <3>6, <4>6, <4>12 DEF Tally
      <3> QED
        BY <1>t, <2>3, <3>2, <3>3, <3>6, <3>7, <3>8, RecordStep
    <2>4. ~(Verify(g) \/ StoreZone(g) \/ QueryZone(g) \/ ReadAnswer(g) \/ Respond(g))
      BY <1>t DEF Verify, StoreZone, QueryZone, ReadAnswer, Respond, Writing, Reply, Goto,
                  TypeInv, TypeOK, HandlerTypeOK
    <2> QED
      BY <1>3, <2>1, <2>2, <2>3, <2>4 DEF Serve
  <1> QED
    BY <1>1, <1>2, <1>3

LEMMA ContentsSeq ==
  ASSUME TypeInv, NEW s \in Slice, SliceOK(s)
  PROVE  /\ Contents(s) \in Seq(Values \cup {Blank}) /\ Len(Contents(s)) = s.len
         /\ \A i \in 1..s.len : Contents(s)[i] = cell[s.arr][i]
  <1>1. s.len \in Nat /\ s.len <= MaxLen /\ MaxLen \in Nat
    BY StoreAssumption DEF Slice
  <1>2. \A i \in 1..s.len : s.arr \in Arrays /\ i \in Index
    BY <1>1 DEF Slice, SliceOK, Index
  <1>3. \A i \in 1..s.len : cell[s.arr][i] \in Values \cup {Blank}
    BY <1>2 DEF TypeInv, TypeOK, StoreTypeOK
  <1> QED
    BY <1>1, <1>3 DEF Contents

\* ChallengeZones finds the last clear.
LEMMA LastClearIs ==
  ASSUME NEW records, NEW n \in Nat, NEW l \in 0..n, l > 0 => records[l].op = "clear",
         \A i \in (l + 1)..n : records[i].op # "clear"
  PROVE  Zones!LastClear(records, n) = l
  <1> DEFINE P(k) == (k > 0 => records[k].op = "clear") /\ \A i \in (k + 1)..n : records[i].op # "clear"
  <1>1. P(l)
    OBVIOUS
  <1>2. ASSUME NEW k \in 0..n, P(k) PROVE k = l
    <2>1. ~(k < l)
      <3> SUFFICES ASSUME k < l PROVE FALSE
        OBVIOUS
      <3>1. l \in (k + 1)..n /\ l > 0
        OBVIOUS
      <3> QED
        BY <1>2, <3>1
    <2>2. ~(l < k)
      <3> SUFFICES ASSUME l < k PROVE FALSE
        OBVIOUS
      <3>1. k \in (l + 1)..n /\ k > 0
        OBVIOUS
      <3> QED
        BY <1>2, <3>1
    <2> QED
      BY <2>1, <2>2
  <1>3. Zones!LastClear(records, n) = CHOOSE k \in 0..n : P(k)
    BY DEF Zones!LastClear
  <1> HIDE DEF P
  <1> QED
    BY <1>1, <1>2, <1>3

\* When its loop is over, the list of a handler is what the update promises.
LEMMA ListPromised ==
  ASSUME NoRemovals, PlainInv, NEW h \in Handlers, pc[h] = "records", next[h] > Len(req[h].records),
         NEW z \in ZoneNames, z = req[h].lookup, zones[z] # NoZone
  PROVE  /\ \A i \in DOMAIN req[h].records : Op(h, i) \in {"clear", "append"}
         /\ Contents(txt[h]) = Zones!ApplyRecords(Answers(z), req[h].records)
  <1>t. TypeInv /\ ControlInv /\ Writing(h)
    BY DEF PlainInv, SerialInv, Inv, Writing
  <1> DEFINE records == req[h].records
             V == Values \cup {Blank}
  <1>1. records \in Seq(UpdateRecord) /\ \A j \in DOMAIN records : Op(h, j) # "remove"
    BY <1>t, PlainRecords
  <1>2. Done(h) = DOMAIN records /\ next[h] - 1 = Len(records) /\ Len(records) \in Nat
    <2>1. Done(h) \subseteq DOMAIN records
      BY <1>t DEF ControlInv, Control
    <2>2. next[h] \in Nat \ {0} /\ next[h] > Len(records) /\ Len(records) \in Nat /\ DOMAIN records = 1..Len(records)
      BY <1>t, <1>1 DEF TypeInv, TypeOK, HandlerTypeOK
    <2>3. next[h] - 1 <= Len(records)
      <3> SUFFICES ASSUME next[h] - 1 > Len(records) PROVE FALSE
        BY <2>2
      <3>1. Len(records) + 1 \in Done(h)
        BY <2>2 DEF Done
      <3> QED
        BY <2>1, <2>2, <3>1
    <2> QED
      BY <2>2, <2>3 DEF Done
  <1>3. \A i \in DOMAIN records : Op(h, i) \in {"clear", "append"}
    BY <1>t, <1>1, <1>2 DEF ControlInv, Control
  <1>4. txt[h] \in Slice /\ SliceOK(txt[h]) /\ zones[z].answers \in Slice /\ SliceOK(zones[z].answers)
    BY <1>t, ListsInUse
  <1>5. /\ Contents(txt[h]) \in Seq(V) /\ Len(Contents(txt[h])) = txt[h].len
        /\ \A i \in 1..txt[h].len : Contents(txt[h])[i] = cell[txt[h].arr][i]
    <2>1. PICK s \in Slice : s = txt[h]
      BY <1>4
    <2> QED
      BY <1>t, <1>4, <2>1, ContentsSeq
  <1>6. /\ Answers(z) \in Seq(V) /\ Len(Answers(z)) = zones[z].answers.len
        /\ \A i \in 1..zones[z].answers.len : Answers(z)[i] = cell[zones[z].answers.arr][i]
    <2>1. PICK s \in Slice : s = zones[z].answers
      BY <1>4
    <2> QED
      BY <1>t, <1>4, <2>1, ContentsSeq DEF Answers
  <1>7. PICK n \in Nat : n = Len(records) /\ next[h] - 1 = n
    BY <1>2
  <1>8. PICK l \in Nat : ClearsLast(h, l, n) /\ Counted(h, z, l, n)
    BY <1>t, <1>7 DEF PlainInv, Tallied, Tally
  <1>9. l \in 0..n /\ Zones!LastClear(records, n) = l
    BY <1>8, LastClearIs DEF ClearsLast, Op
  <1> DEFINE kept  == IF l = 0 THEN Answers(z) ELSE <<>>
             added == [i \in 1..(n - l) |-> records[l + i].value]
  <1>10. Zones!ApplyRecords(Answers(z), records) = kept \o added
    BY <1>7, <1>9 DEF Zones!ApplyRecords
  <1>11. added \in Seq(V) /\ Len(added) = n - l /\ \A i \in 1..(n - l) : added[i] = Val(h, l + i)
    <2>1. \A i \in 1..n : records[i].value \in Values
      <3>1. PICK rs \in Seq(UpdateRecord) : rs = records
        BY <1>1
      <3>2. \A i \in 1..Len(rs) : rs[i] \in UpdateRecord
        OBVIOUS
      <3> QED
        BY <1>7, <3>1, <3>2 DEF UpdateRecord
    <2>2. PICK d \in Nat : d = n - l
      BY <1>9
    <2>3. \A i \in 1..d : l + i \in 1..n /\ added[i] = Val(h, l + i) /\ Val(h, l + i) \in Values
      BY <1>9, <2>1, <2>2 DEF Val
    <2>4. added = [i \in 1..d |-> Val(h, l + i)]
      BY <2>2 DEF Val
    <2> HIDE DEF added
    <2>5. added \in Seq(V)
      BY <2>3, <2>4
    <2>6. Len(added) = d
      BY <2>3, <2>4
    <2> QED
      BY <2>2, <2>3, <2>5, <2>6
  <1>12. PICK m \in Nat : m = Kept(z, l)
    BY <1>4, StoreAssumption DEF Slice, Kept
  <1>13. /\ kept \in Seq(V) /\ Len(kept) = m
         /\ \A i \in 1..m : kept[i] = cell[txt[h].arr][i]
    <2>1. CASE l = 0
      <3>1. ~Cleared(h)
        BY <1>2, <1>7, <1>8, <2>1 DEF ClearsLast, Cleared, Done
      <3>2. \A i \in 1..zones[z].answers.len : cell[txt[h].arr][i] = cell[zones[z].answers.arr][i]
        BY <1>t, <3>1 DEF PlainInv, SerialInv, PriorInv, Prior, Extends
      <3> QED
        BY <1>6, <1>12, <2>1, <3>2 DEF Kept
    <2>2. CASE l # 0
      BY <1>12, <2>2 DEF Kept
    <2> QED
      BY <2>1, <2>2
  <1>14. /\ txt[h].len = m + (n - l)
         /\ \A i \in 1..(n - l) : cell[txt[h].arr][m + i] = Val(h, l + i)
    BY <1>8, <1>12 DEF Counted
  <1> HIDE DEF added, kept, V, records
  <1>15. /\ kept \o added \in Seq(V)
         /\ Len(kept \o added) = Len(kept) + Len(added)
         /\ \A i \in 1..(Len(kept) + Len(added)) :
              (kept \o added)[i] = IF i <= Len(kept) THEN kept[i] ELSE added[i - Len(kept)]
    BY <1>11, <1>13, ConcatProperties
  <1>16. PICK d \in Nat : d = n - l
    BY <1>9
  <1>17. ASSUME NEW i \in 1..(m + d)
         PROVE  Contents(txt[h])[i] = (kept \o added)[i]
    <2>1. /\ Contents(txt[h])[i] = cell[txt[h].arr][i]
          /\ (kept \o added)[i] = IF i <= m THEN kept[i] ELSE added[i - m]
      BY <1>5, <1>11, <1>13, <1>14, <1>15, <1>16
    <2>2. CASE i <= m
      BY <1>13, <2>1, <2>2
    <2>3. CASE ~(i <= m)
      <3>1. PICK k \in 1..d : k = i - m /\ m + k = i
        BY <2>3
      <3> QED
        BY <1>11, <1>14, <1>16, <2>1, <2>3, <3>1
    <2> QED
      BY <2>2, <2>3
  <1>18. Len(Contents(txt[h])) = m + d /\ Len(kept \o added) = m + d
    BY <1>5, <1>11, <1>13, <1>14, <1>15, <1>16
  <1>19. Contents(txt[h]) = kept \o added
    BY <1>5, <1>15, <1>17, <1>18, SeqEqual
  <1> QED
    BY <1>3, <1>10, <1>19 DEF records

\* The promised book of zones, as the instance of ChallengeZones maps it.
Entry(z) == IF zones[z] = NoZone THEN NoZone ELSE [serial |-> zones[z].serial, answers |-> Answers(z)]

Book == [z \in ZoneNames |-> Entry(z)]

BookStep == Zones!Next \/ Book' = Book

LEMMA EntryKept ==
  ASSUME NEW z \in ZoneNames, zones'[z] = NoZone <=> zones[z] = NoZone,
         zones[z] # NoZone =>
           /\ zones'[z].serial = zones[z].serial /\ zones'[z].answers = zones[z].answers
           /\ \A i \in 1..zones[z].answers.len :
                cell'[zones[z].answers.arr][i] = cell[zones[z].answers.arr][i]
  PROVE  Entry(z)' = Entry(z)
  BY DEF Entry, Answers, Contents

LEMMA BookKept ==
  ASSUME \A z \in ZoneNames : Entry(z)' = Entry(z)
  PROVE  BookStep
  BY DEF BookStep, Book

\* A zone that is there has an entry.
LEMMA EntryThere ==
  ASSUME TypeInv, NEW y \in ZoneNames, zones[y] # NoZone
  PROVE  Entry(y) # NoZone
  <1>1. zones[y] \in Zone
    BY DEF TypeInv, TypeOK, StoreTypeOK
  <1>2. PICK s \in Slice : s = zones[y].answers /\ SliceOK(s)
    BY ListsInUse
  <1>3. Answers(y) \in Seq(Values \cup {Blank})
    BY <1>2, ContentsSeq DEF Answers
  <1> QED
    BY <1>1, <1>3, BookAssumption DEF Entry, Zone

\* Management leaves the book alone as long as zones stay.
LEMMA OtherBook ==
  ASSUME ZonesStay, PlainInv, [Next]_vars, ~\E h \in Handlers : Serve(h)
  PROVE  BookStep
  <1>1. ASSUME NEW z \in ZoneNames PROVE Entry(z)' = Entry(z)
    <2>1. Inv
      BY DEF PlainInv, SerialInv
    <2>2. cell' = cell /\ (zones'[z] = NoZone => zones[z] = NoZone)
      BY <2>1, OtherSteps DEF ZonesStay, NoNewZones
    <2>3. zones'[z] # NoZone =>
            /\ zones[z] # NoZone /\ zones'[z].answers = zones[z].answers
            /\ zones'[z].serial = zones[z].serial
      BY <2>1, OtherSteps DEF ZonesStay, NoNewZones
    <2> QED
      BY <2>2, <2>3, EntryKept
  <1> QED
    BY <1>1, BookKept

\* An append after a clear leaves the zone alone or overwrites one entry.
LEMMA EarlyBook ==
  ASSUME NoRemovals, PlainInv, NEW h \in Handlers, NEW t \in Slice, NEW v \in Values, AppendsTo(h, v, t),
         next[h] \in DOMAIN req[h].records, Op(h, next[h]) = "append", v = Val(h, next[h]),
         NEW y \in ZoneNames, y = req[h].exact, zones[y] # NoZone, Cleared(h)
  PROVE  BookStep
  <1>t. TypeInv /\ Inv /\ ControlInv /\ pc[h] = "records" /\ zones' = zones
    BY DEF PlainInv, SerialInv, Inv, AppendsTo
  <1>1. PICK n \in Nat : n = next[h] /\ n > 0
    BY <1>t DEF TypeInv, TypeOK, HandlerTypeOK
  <1>2. req[h].lookup = y
    BY <1>t, WritesItsZone
  <1>3. PICK l \in Nat : ClearsLast(h, l, n - 1) /\ Counted(h, y, l, n - 1)
    BY <1>t, <1>1, <1>2 DEF PlainInv, Tallied, Tally, Writing
  <1>4. l > 0 /\ l <= n - 1
    BY <1>1, <1>3 DEF ClearsLast, Cleared, Done
  <1>5. t.len = n - l /\ t.len \in Nat
    BY <1>t, <1>1, <1>3, <1>4, AppendAdds DEF Counted, Kept
  <1>6. Zones!LastClear(req[h].records, n) = l
    <2>1. l \in 0..n /\ Op(h, l) = "clear" /\ \A i \in (l + 1)..n : Op(h, i) # "clear"
      BY <1>1, <1>3, <1>4 DEF ClearsLast
    <2> QED
      BY <2>1, LastClearIs DEF Op
  <1>7. PICK s \in Slice : s = zones[y].answers
    BY <1>t, ListsInUse
  <1>8. SliceOK(s) /\ s.arr \in InUse /\ s.len \in 0..MaxLen /\ MaxLen \in Nat
    BY <1>t, <1>7, ListsInUse, StoreAssumption DEF Slice
  <1>9. ASSUME NEW z \in ZoneNames, z # y PROVE Entry(z)' = Entry(z)
    <2>1. CASE zones[z] = NoZone
      BY <1>t, <2>1, EntryKept
    <2>2. CASE zones[z] # NoZone
      <3>1. ZoneKept(z)
        BY <1>t, <1>9, <2>2, AppendHidden DEF PlainInv, SerialInv, PriorInv
      <3> QED
        BY <1>t, <3>1, EntryKept DEF ZoneKept
    <2> QED
      BY <2>1, <2>2
  <1>10. CASE \A i \in 1..s.len : cell'[s.arr][i] = cell[s.arr][i]
    <2>1. Entry(y)' = Entry(y)
      BY <1>t, <1>7, <1>10, EntryKept
    <2> QED
      BY <1>9, <2>1, BookKept
  <1>11. CASE ~\A i \in 1..s.len : cell'[s.arr][i] = cell[s.arr][i]
    <2>1. PICK c \in 1..s.len : cell'[s.arr][c] # cell[s.arr][c]
      BY <1>11
    <2>2. s.arr \in Arrays /\ \A i \in 1..s.len : i \in Index
      BY <1>8, <2>1 DEF SliceOK, Slice, Index
    <2>3. /\ s.arr = t.arr
          /\ \A a \in Arrays, i \in Index :
               cell'[a][i] = IF a = t.arr /\ i = t.len THEN v ELSE cell[a][i]
      BY <1>t, <1>8, <2>1, <2>2, AppendWrites
    <2>4. t.len \in 1..s.len
      BY <2>1, <2>2, <2>3
    <2>5. \A i \in 1..s.len : cell'[s.arr][i] = IF i = t.len THEN v ELSE cell[s.arr][i]
      BY <2>2, <2>3
    <2>6. Answers(y) = [i \in 1..s.len |-> cell[s.arr][i]] /\ Answers(y)' = [i \in 1..s.len |-> cell'[s.arr][i]]
      BY <1>t, <1>7 DEF Answers, Contents
    <2>7. Answers(y)' = [Answers(y) EXCEPT ![t.len] = v]
      <3>1. PICK old, new : old = cell[s.arr] /\ new = cell'[s.arr]
        OBVIOUS
      <3>2. [i \in 1..s.len |-> new[i]] = [[i \in 1..s.len |-> old[i]] EXCEPT ![t.len] = v]
        BY <2>4, <2>5, <3>1
      <3> QED
        BY <2>6, <3>1, <3>2
    <2>8. Entry(y) = [serial |-> zones[y].serial, answers |-> Answers(y)]
          /\ Entry(y)' = [serial |-> zones[y].serial, answers |-> Answers(y)']
      BY <1>t DEF Entry
    <2>9. Entry(y)' = [Entry(y) EXCEPT !.answers[t.len] = v]
      BY <2>7, <2>8
    <2>10. Book' = [Book EXCEPT ![y].answers[t.len] = v]
      BY <1>9, <2>9 DEF Book
    <2>11. Book[y] # NoZone /\ t.len \in DOMAIN Book[y].answers
      <3>1. Book[y] = Entry(y) /\ Entry(y).answers = Answers(y)
        BY <2>8 DEF Book
      <3>2. DOMAIN Answers(y) = 1..s.len
        BY <2>6
      <3> QED
        BY <1>t, <2>4, <3>1, <3>2, EntryThere
    <2>12. PICK u \in {r \in Requests : r.kind = "update"} : u = req[h]
      BY <1>t, PlainRecords DEF Writing
    <2>13. n \in DOMAIN u.records /\ u.records[n].op = "append" /\ u.records[n].value = v /\ u.exact = y
      BY <1>1, <2>12 DEF Op, Val
    <2>14. Zones!ShowEarly(u.exact, u.records)
      <3>1. LET last == Zones!LastClear(u.records, n)
            IN  /\ u.records[n].op = "append" /\ last > 0 /\ n - last \in DOMAIN Book[y].answers
                /\ Book' = [Book EXCEPT ![y].answers[n - last] = u.records[n].value]
        BY <1>4, <1>5, <1>6, <2>10, <2>11, <2>12, <2>13
      <3> QED
        BY <2>11, <2>13, <3>1 DEF Zones!ShowEarly, Book, Entry
    <2> QED
      BY <2>12, <2>14 DEF BookStep, Zones!Next
  <1> QED
    BY <1>10, <1>11

\* A turn of the loop over the records leaves the book alone unless the list was cleared.
LEMMA RecordBook ==
  ASSUME NoRemovals, PlainInv, NEW h \in Handlers, ApplyRecord(h)
  PROVE  BookStep
  <1>t. TypeInv /\ Inv /\ ControlInv
    BY DEF PlainInv, SerialInv, Inv
  <1>1. /\ pc[h] = "records" /\ next[h] \in DOMAIN req[h].records /\ zones' = zones
    BY <1>t, RecordStep
  <1>2. CASE cell' = cell
    BY <1>1, <1>2, EntryKept, BookKept
  <1>3. CASE /\ Op(h, next[h]) \in {"append", "remove"}
             /\ \E t \in Slice : AppendsTo(h, Val(h, next[h]), t)
    <2>1. PICK v \in Values, t \in Slice : AppendsTo(h, v, t) /\ v = Val(h, next[h])
      BY <1>3 DEF AppendsTo
    <2>2. Op(h, next[h]) = "append" /\ req[h].exact \in ZoneNames
      BY <1>t, <1>1, <1>3, PlainRecords, WritesItsZone DEF Writing
    <2>3. CASE Cleared(h) /\ zones[req[h].exact] # NoZone
      BY <1>1, <2>1, <2>2, <2>3, EarlyBook
    <2>4. CASE ~(Cleared(h) /\ zones[req[h].exact] # NoZone)
      <3>1. ASSUME NEW z \in ZoneNames PROVE Entry(z)' = Entry(z)
        <4>1. CASE zones[z] = NoZone
          BY <1>1, <4>1, EntryKept
        <4>2. CASE zones[z] # NoZone
          <5>1. ZoneKept(z)
            BY <1>t, <2>1, <2>4, <4>2, AppendHidden DEF PlainInv, SerialInv, PriorInv
          <5> QED
            BY <1>1, <5>1, EntryKept DEF ZoneKept
        <4> QED
          BY <4>1, <4>2
      <3> QED
        BY <3>1, BookKept
    <2> QED
      BY <2>3, <2>4
  <1> QED
    BY <1>t, <1>2, <1>3, RecordStep

\* SetZone makes the whole update visible at once.
LEMMA StoreBook ==
  ASSUME NoRemovals, PlainInv, NEW h \in Handlers, StoreZone(h)
  PROVE  BookStep
  <1>t. TypeInv /\ Inv /\ ControlInv
    BY DEF PlainInv, SerialInv, Inv
  <1>1. CASE UNCHANGED storeVars
    BY <1>1, EntryKept, BookKept DEF storeVars
  <1>2. CASE Stores(h)
    <2>1. /\ pc[h] = "records" /\ next[h] > Len(req[h].records) /\ SetZone(req[h].exact, txt[h])
      BY <1>2 DEF StoreZone, Stores
    <2>2. /\ req[h].exact \in ZoneNames /\ req[h].lookup = req[h].exact
          /\ zones[req[h].exact] # NoZone /\ zones'[req[h].exact].answers = txt[h]
          /\ \A x \in ZoneNames \ {req[h].exact} : zones'[x] = zones[x]
          /\ cell' = cell
      BY <1>t, <1>2, StoreEffect
    <2>3. PICK y \in ZoneNames : y = req[h].exact
      BY <2>2
    <2>4. zones[y] \in Zone /\ zones[y] # NoZone /\ txt[h] \in Slice
      BY <1>t, <2>2, <2>3 DEF TypeInv, TypeOK, StoreTypeOK, HandlerTypeOK
    <2>5. zones'[y].serial = (zones[y].serial + 1) % SerialModulus /\ zones'[y] # NoZone
      <3> DEFINE new == [zones[y] EXCEPT !.serial = (zones[y].serial + 1) % SerialModulus, !.answers = txt[h]]
      <3>1. zones'[y] = new
        BY <1>t, <2>1, <2>3 DEF SetZone, TypeInv, TypeOK, StoreTypeOK
      <3>2. (zones[y].serial + 1) % SerialModulus \in 0..(SerialModulus - 1)
        BY <2>4, SerialRange DEF Zone
      <3>3. new \in Zone /\ new.serial = (zones[y].serial + 1) % SerialModulus
        BY <2>4, <3>2 DEF Zone
      <3> QED
        BY <3>1, <3>3, StoreAssumption
    <2>6. /\ \A i \in DOMAIN req[h].records : Op(h, i) \in {"clear", "append"}
          /\ Contents(txt[h]) = Zones!ApplyRecords(Answers(y), req[h].records)
      BY <2>1, <2>2, <2>3, <2>4, ListPromised
    <2>7. Answers(y)' = Contents(txt[h])
      BY <2>2, <2>3 DEF Answers, Contents
    <2>8. Entry(y)' = [serial |-> (Entry(y).serial + 1) % SerialModulus,
                       answers |-> Zones!ApplyRecords(Entry(y).answers, req[h].records)]
      BY <2>4, <2>5, <2>6, <2>7 DEF Entry
    <2>9. \A x \in ZoneNames \ {y} : Entry(x)' = Entry(x)
      BY <2>2, <2>3 DEF Entry, Answers, Contents
    <2>10. Book' = [Book EXCEPT ![y] = [serial |-> (@.serial + 1) % SerialModulus,
                                        answers |-> Zones!ApplyRecords(@.answers, req[h].records)]]
      BY <2>3, <2>8, <2>9 DEF Book
    <2>11. Book[y] # NoZone
      BY <1>t, <2>4, EntryThere DEF Book
    <2>12. PICK u \in {r \in Requests : r.kind = "update"} : u = req[h]
      BY <1>t, <2>1, PlainRecords DEF Writing
    <2>13. Zones!ApplyUpdate(u.exact, u.records)
      BY <2>3, <2>6, <2>10, <2>11, <2>12 DEF Zones!ApplyUpdate, Book, Entry, Op
    <2> QED
      BY <2>12, <2>13 DEF BookStep, Zones!Next
  <1> QED
    BY <1>1, <1>2 DEF StoreZone, Stores, Reply, Goto, TypeInv, TypeOK, HandlerTypeOK, PlainInv, SerialInv, Inv

LEMMA BookInit == Init => Zones!Init
  <1> SUFFICES ASSUME Init PROVE Zones!Init
    OBVIOUS
  <1> DEFINE Entries == {NoZone} \cup [serial : 0..(SerialModulus - 1), answers : Seq(Values)]
  <1>1. ASSUME NEW z \in ZoneNames
        PROVE  Entry(z) \in Entries
    <2>1. CASE zones[z] = NoZone
      BY <2>1 DEF Entry
    <2>2. CASE zones[z] # NoZone
      <3>1. zones[z] \in Zone
        BY <2>2, TypeInit DEF TypeInv, TypeOK, StoreTypeOK
      <3>2. PICK s \in Slice : s = zones[z].answers
        BY <3>1 DEF Zone
      <3>3. s.len \in Nat /\ \A i \in 1..s.len : cell[s.arr][i] \in Values
        BY <2>2, <3>2, InitialLists, StoreAssumption DEF Init, Slice
      <3>4. Answers(z) \in Seq(Values)
        BY <3>2, <3>3 DEF Answers, Contents
      <3> QED
        BY <2>2, <3>1, <3>4 DEF Entry, Zone
    <2> QED
      BY <2>1, <2>2
  <1>2. Book \in [ZoneNames -> Entries]
    BY <1>1 DEF Book
  <1> QED
    BY <1>2 DEF Zones!Init, Book, Entry

\* With one updater, no removals and zones that stay, what the zones show changes
\* as ChallengeZones allows: by whole updates, every record and one step of the
\* serial at once, or nothing if a record is refused; and, for an update that
\* appends after a clear, also by entries of the old list that it overwrites
\* before it is applied or refused.
THEOREM ZonesImplemented ==
  ASSUME OneUpdater, NoRemovals, ZonesStay
  PROVE  Spec => ImplementsZones
  <1>1. Init => PlainInv
    BY SerialInit DEF Init, PlainInv, Tallied, Writing
  <1>2. PlainInv /\ [Next]_vars => PlainInv'
    BY SerialNext, TalliedNext DEF PlainInv
  <1>3. PlainInv /\ [Next]_vars => BookStep
    <2> SUFFICES ASSUME PlainInv, [Next]_vars PROVE BookStep
      OBVIOUS
    <2>1. CASE ~\E h \in Handlers : Serve(h)
      BY <2>1, OtherBook
    <2>2. ASSUME NEW h \in Handlers, Serve(h) PROVE BookStep
      <3>1. CASE UNCHANGED storeVars
        BY <3>1, EntryKept, BookKept DEF storeVars
      <3> QED
        BY <2>2, <3>1, RecordBook, StoreBook
           DEF Serve, Verify, LookupZone, Authorise, QueryZone, ReadAnswer, Respond
    <2> QED
      BY <2>1, <2>2
  <1>4. BookStep => [Zones!Next]_([z \in ZoneNames |-> IF zones[z] = NoZone THEN NoZone
                                     ELSE [serial |-> zones[z].serial, answers |-> Answers(z)]])
    BY DEF BookStep, Book, Entry
  <1> QED
    BY <1>1, <1>2, <1>3, <1>4, BookInit, PTL DEF Spec, ImplementsZones, Zones!Spec
==============================================================================
