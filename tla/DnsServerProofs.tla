-------------------------- MODULE DnsServerProofs ---------------------------
(***************************************************************************)
(* Proofs about DnsServer, for every set of keys, zones, values, handlers  *)
(* and messages and every bound.                                           *)
(***************************************************************************)
EXTENDS DnsServer, TLAPS

\* A slice without a backing array is empty.
SliceOK(s) == s.arr = NilArray => s.len = 0

SlicesOK ==
  /\ \A z \in ZoneNames : zones[z] # NoZone => SliceOK(zones[z].answers)
  /\ \A h \in Handlers : SliceOK(txt[h])

TypeInv == TypeOK /\ SlicesOK

\* The serial stays a uint32.
LEMMA SerialRange ==
  ASSUME NEW n \in 0..(SerialModulus - 1)
  PROVE  (n + 1) % SerialModulus \in 0..(SerialModulus - 1)
  BY StoreAssumption

LEMMA NewZoneType == NilSlice \in Slice /\ NewZone \in Zone
  BY StoreAssumption DEF NilSlice, Slice, NewZone, Zone

\* The lists at the start, and the arrays behind them.
LEMMA InitialHeap ==
  ASSUME StoreInit
  PROVE  /\ capacity \in [Arrays -> 0..MaxLen]
         /\ cell \in [Arrays -> [Index -> Values \cup {Blank}]]
  <1>1. ASSUME NEW a \in Arrays
        PROVE  /\ Len(InitialArrays[a]) \in 0..MaxLen
               /\ \A i \in Index : i <= Len(InitialArrays[a]) => InitialArrays[a][i] \in Values \cup {Blank}
    BY ConfigAssumption, StoreAssumption DEF Index
  <1> QED
    BY <1>1 DEF StoreInit

LEMMA InitialLists ==
  ASSUME StoreInit, NEW z \in ZoneNames, zones[z] # NoZone
  PROVE  /\ SliceOK(zones[z].answers)
         /\ \A i \in 1..zones[z].answers.len : cell[zones[z].answers.arr][i] \in Values
         /\ \A y \in ZoneNames \ {z} : zones[y] # NoZone =>
              zones[y].answers.arr # zones[z].answers.arr \/ zones[z].answers.arr = NilArray
  <1>1. zones \in InitialZones /\ zones[z] \in Zone /\ OwnArray(zones, z)
    BY ConfigAssumption DEF StoreInit
  <1>2. PICK s \in Slice : s = zones[z].answers
    BY <1>1 DEF Zone
  <1>3. ASSUME NEW i \in 1..s.len PROVE cell[s.arr][i] \in Values
    <2>1. s.arr \in Arrays /\ i <= Len(InitialArrays[s.arr]) /\ InitialArrays[s.arr][i] \in Values
      BY <1>1, <1>2, StoreAssumption, ConfigAssumption DEF OwnArray, Slice
    <2>2. i \in Index
      BY StoreAssumption DEF Slice, Index
    <2> QED
      BY <2>1, <2>2 DEF StoreInit
  <1> QED
    BY <1>1, <1>2, <1>3 DEF OwnArray, SliceOK

LEMMA TypeInit == Init => TypeInv
  <1> SUFFICES ASSUME Init PROVE TypeInv
    OBVIOUS
  <1> USE DEF Init, StoreInit
  <1>1. zones \in InitialZones /\ zones \in [ZoneNames -> Zone \cup {NoZone}]
    BY ConfigAssumption
  <1>2. /\ capacity \in [Arrays -> 0..MaxLen]
        /\ cell \in [Arrays -> [Index -> Values \cup {Blank}]]
    BY InitialHeap
  <1>3. StoreTypeOK
    BY <1>1, <1>2, ConfigAssumption DEF StoreTypeOK
  <1>4. \A h \in Handlers : pc[h] = "idle" <=> req[h] = NoRequest
    BY ServerAssumption
  <1>5. HandlerTypeOK
    BY <1>4, NewZoneType DEF HandlerTypeOK, Rcodes, NoReply, Steps
  <1>6. HistoryTypeOK
    <2>1. \A z \in ZoneNames : zones[z] # NoZone => AnswerSet(z) \subseteq Values
      BY <1>1, InitialLists DEF AnswerSet
    <2> QED
      BY <2>1, ServerAssumption DEF HistoryTypeOK
  <1>7. SlicesOK
    BY <1>1, InitialLists DEF SlicesOK, SliceOK, NilSlice
  <1> QED
    BY <1>3, <1>5, <1>6, <1>7 DEF TypeInv, TypeOK

\* The window variables are Boolean whatever the step does.
LEMMA WatchType ==
  ASSUME HistoryTypeOK, Watch
  PROVE  matched' \in [Handlers -> BOOLEAN] /\ bound' \in [Handlers -> BOOLEAN]
  BY Zenon DEF Watch

\* What a handler's step keeps when it leaves the store alone.
LEMMA StoreQuiet ==
  ASSUME TypeInv, UNCHANGED storeVars
  PROVE  /\ StoreTypeOK'
         /\ \A z \in ZoneNames : zones'[z] # NoZone => SliceOK(zones'[z].answers)
  BY DEF TypeInv, TypeOK, StoreTypeOK, SlicesOK, storeVars

\* Every step on the way to a response keeps the handlers' types.
LEMMA ReplyType ==
  ASSUME TypeInv, NEW h \in Handlers, pc[h] # "idle", UNCHANGED req,
         NEW rcode \in Rcodes, NEW tsig \in BOOLEAN, Reply(h, rcode, tsig)
  PROVE  /\ pc' \in [Handlers -> Steps]
         /\ reply' \in [Handlers -> [rcode : Rcodes, tsig : BOOLEAN]]
         /\ \A g \in Handlers : pc'[g] = "idle" <=> req'[g] = NoRequest
  BY DEF TypeInv, TypeOK, HandlerTypeOK, Reply, Goto, Steps

LEMMA GotoType ==
  ASSUME TypeInv, NEW h \in Handlers, pc[h] # "idle", UNCHANGED <<req, reply>>,
         NEW step \in Steps \ {"idle"}, Goto(h, step)
  PROVE  /\ pc' \in [Handlers -> Steps]
         /\ reply' \in [Handlers -> [rcode : Rcodes, tsig : BOOLEAN]]
         /\ \A g \in Handlers : pc'[g] = "idle" <=> req'[g] = NoRequest
  BY DEF TypeInv, TypeOK, HandlerTypeOK, Goto

\* The result of an append is a slice with an array, and the heap keeps its type.
LEMMA AppendType ==
  ASSUME TypeInv, NEW s \in Slice, SliceOK(s), NEW v \in Values, NEW t \in Slice,
         NEW inUse, GoAppend(s, v, t, inUse)
  PROVE  /\ t.arr \in Arrays
         /\ t.len = s.len + 1
         /\ capacity' \in [Arrays -> 0..MaxLen]
         /\ cell' \in [Arrays -> [Index -> Values \cup {Blank}]]
  <1> USE StoreAssumption DEF TypeInv, TypeOK, StoreTypeOK, Slice
  <1>1. CASE AppendInPlace(s, v, t)
    <2>1. s.arr \in Arrays /\ s.len < capacity[s.arr] /\ s.len + 1 \in Index
      BY <1>1 DEF AppendInPlace, Cap, Index
    <2>2. cell' = [cell EXCEPT ![s.arr] = [@ EXCEPT ![s.len + 1] = v]]
      BY <1>1 DEF AppendInPlace
    <2>3. [cell[s.arr] EXCEPT ![s.len + 1] = v] \in [Index -> Values \cup {Blank}]
      BY <2>1
    <2> QED
      BY <1>1, <2>1, <2>2, <2>3 DEF AppendInPlace
  <1>2. CASE AppendGrowing(s, v, t, inUse)
    <2> DEFINE new == CHOOSE a \in Arrays : a \notin inUse
    <2> DEFINE cells == [i \in Index |-> IF i <= s.len THEN cell[s.arr][i]
                                         ELSE IF i = s.len + 1 THEN v ELSE Blank]
    <2>1. new \in Arrays
      BY <1>2 DEF AppendGrowing
    <2>2. /\ t = [arr |-> new, len |-> s.len + 1]
          /\ capacity' = [capacity EXCEPT ![new] = GrownCap(s)]
          /\ cell' = [cell EXCEPT ![new] = cells]
          /\ GrownCap(s) <= MaxLen
      BY <1>2 DEF AppendGrowing
    <2>3. GrownCap(s) \in 0..MaxLen
      BY <2>2 DEF GrownCap, Cap
    <2>4. cells \in [Index -> Values \cup {Blank}]
      <3> SUFFICES ASSUME NEW i \in Index
                   PROVE  cells[i] \in Values \cup {Blank}
        OBVIOUS
      <3>1. i <= s.len => s.arr \in Arrays
        BY DEF SliceOK, Index
      <3> QED
        BY <3>1
    <2> HIDE DEF cells, new
    <2> QED
      BY <2>1, <2>2, <2>3, <2>4
  <1> QED
    BY <1>1, <1>2 DEF GoAppend

\* The steps of a handler that is serving a message, action by action.
LEMMA ServeType ==
  ASSUME TypeInv, NEW h \in Handlers, Serve(h)
  PROVE  StoreTypeOK' /\ HandlerTypeOK' /\ SlicesOK'
  <1> USE StoreAssumption, ServerAssumption DEF TypeInv, TypeOK, SlicesOK
  <1>r. req[h] \in Requests \/ req[h] = NoRequest
    BY DEF HandlerTypeOK
  <1>1. CASE Verify(h)
    <2>1. pc[h] # "idle" /\ UNCHANGED <<storeVars, req, txt, next, answer>>
      BY <1>1 DEF Verify
    <2>2. \/ Reply(h, "NOTAUTH", FALSE)
          \/ (Goto(h, "query") \/ Goto(h, "zone")) /\ UNCHANGED reply
      BY <1>1 DEF Verify
    <2>3. HandlerTypeOK'
      BY <2>1, <2>2, ReplyType, GotoType DEF HandlerTypeOK, Rcodes, Steps
    <2> QED
      BY <2>1, <2>3, StoreQuiet
  <1>2. CASE LookupZone(h)
    <2>1. pc[h] # "idle" /\ UNCHANGED <<storeVars, req, next, answer>>
      BY <1>2 DEF LookupZone
    <2>2. \/ /\ \E rcode \in Rcodes, tsig \in BOOLEAN : Reply(h, rcode, tsig)
             /\ UNCHANGED txt
          \/ /\ Goto(h, "key") /\ UNCHANGED reply
             /\ HasZone(req[h].lookup)
             /\ txt' = [txt EXCEPT ![h] = zones[req[h].lookup].answers]
      BY <1>2 DEF LookupZone, Rcodes
    <2>3. txt' \in [Handlers -> Slice] /\ \A g \in Handlers : SliceOK(txt'[g])
      <3>1. \/ UNCHANGED txt
            \/ /\ HasZone(req[h].lookup)
               /\ txt' = [txt EXCEPT ![h] = zones[req[h].lookup].answers]
        BY <2>2
      <3> QED
        BY <3>1 DEF HasZone, StoreTypeOK, HandlerTypeOK, Zone
    <2>4. HandlerTypeOK'
      BY <2>1, <2>2, <2>3, ReplyType, GotoType DEF HandlerTypeOK, Steps
    <2> QED
      BY <2>1, <2>3, <2>4, StoreQuiet
  <1>3. CASE Authorise(h)
    <2>1. pc[h] # "idle" /\ UNCHANGED <<storeVars, req, txt, next, answer>>
      BY <1>3 DEF Authorise
    <2>2. \/ Reply(h, "NOTAUTH", TRUE)
          \/ Goto(h, "records") /\ UNCHANGED reply
      BY <1>3 DEF Authorise
    <2>3. HandlerTypeOK'
      BY <2>1, <2>2, ReplyType, GotoType DEF HandlerTypeOK, Rcodes, Steps
    <2> QED
      BY <2>1, <2>3, StoreQuiet
  <1>4. CASE ApplyRecord(h)
    <2>1. pc[h] # "idle" /\ UNCHANGED <<keys, zones, req, answer>>
      BY <1>4 DEF ApplyRecord
    <2>2. CASE ClearRecord(h)
      <3>1. txt[h] \in Slice /\ [txt[h] EXCEPT !.len = 0] \in Slice
        <4>1. txt[h] \in Slice
          BY DEF HandlerTypeOK
        <4>2. 0 \in 0..MaxLen
          OBVIOUS
        <4> QED
          BY <4>1, <4>2 DEF Slice
      <3>2. txt' = [txt EXCEPT ![h] = [txt[h] EXCEPT !.len = 0]]
        BY <2>2 DEF ClearRecord
      <3>3. SliceOK([txt[h] EXCEPT !.len = 0])
        BY <3>1 DEF Slice, SliceOK
      <3>4. txt' \in [Handlers -> Slice] /\ \A g \in Handlers : SliceOK(txt'[g])
        BY <3>1, <3>2, <3>3 DEF HandlerTypeOK
      <3>5. HandlerTypeOK'
        BY <2>1, <2>2, <3>4 DEF ClearRecord, HandlerTypeOK
      <3> QED
        BY <2>1, <2>2, <3>4, <3>5, StoreQuiet DEF ClearRecord, storeVars
    <2>3. CASE AppendRecord(h) /\ next[h] <= Len(req[h].records)
      <3> DEFINE v == req[h].records[next[h]].value
      <3>1. v \in Values
        <4>1. req[h] \in Request
          BY <2>1, <1>r DEF HandlerTypeOK
        <4>2. req[h].records \in Seq(UpdateRecord)
          BY <4>1 DEF Request
        <4>3. next[h] \in 1..Len(req[h].records)
          BY <2>3, <4>2 DEF HandlerTypeOK
        <4>4. req[h].records[next[h]] \in UpdateRecord
          BY <4>2, <4>3
        <4> QED
          BY <4>4 DEF UpdateRecord
      <3> HIDE DEF v
      <3>2. PICK t \in Slice : GoAppend(txt[h], v, t, InUse) /\ txt' = [txt EXCEPT ![h] = t]
        BY <2>3 DEF AppendRecord, v
      <3>3. txt[h] \in Slice /\ SliceOK(txt[h])
        BY DEF HandlerTypeOK
      <3>4. /\ t.arr \in Arrays
            /\ capacity' \in [Arrays -> 0..MaxLen]
            /\ cell' \in [Arrays -> [Index -> Values \cup {Blank}]]
        BY <3>1, <3>2, <3>3, AppendType
      <3>5. StoreTypeOK'
        BY <2>1, <3>4 DEF StoreTypeOK
      <3>6. HandlerTypeOK'
        BY <2>1, <2>3, <3>2 DEF AppendRecord, HandlerTypeOK
      <3>7. SlicesOK'
        BY <2>1, <3>2, <3>4 DEF SliceOK, HandlerTypeOK
      <3> QED
        BY <3>5, <3>6, <3>7
    <2>4. CASE RefuseRecord(h, "NOTAUTH") \/ RefuseRecord(h, "REFUSED")
      <3>1. /\ Reply(h, "NOTAUTH", TRUE) \/ Reply(h, "REFUSED", TRUE)
            /\ UNCHANGED <<capacity, cell, txt, next>>
        BY <2>4 DEF RefuseRecord
      <3>2. HandlerTypeOK'
        BY <2>1, <3>1, ReplyType DEF HandlerTypeOK, Rcodes
      <3> QED
        BY <2>1, <3>1, <3>2, StoreQuiet DEF storeVars
    <2> QED
      BY <1>4, <2>2, <2>3, <2>4 DEF ApplyRecord
  <1>5. CASE StoreZone(h)
    <2>1. pc[h] # "idle" /\ UNCHANGED <<req, txt, next, answer>>
      BY <1>5 DEF StoreZone
    <2>2. Reply(h, "NOERROR", TRUE) \/ Reply(h, "SERVFAIL", TRUE)
      BY <1>5 DEF StoreZone
    <2>3. HandlerTypeOK'
      BY <2>1, <2>2, ReplyType DEF HandlerTypeOK, Rcodes
    <2>4. CASE SetZone(req[h].exact, txt[h])
      <3> DEFINE z == req[h].exact
      <3>1. z \in ZoneNames /\ zones[z] \in Zone /\ txt[h] \in Slice
        BY <2>4 DEF SetZone, HasZone, StoreTypeOK, HandlerTypeOK
      <3> DEFINE new == [zones[z] EXCEPT !.serial = (zones[z].serial + 1) % SerialModulus,
                                         !.answers = txt[h]]
      <3>2. new \in Zone /\ new.answers = txt[h]
        BY <3>1, SerialRange DEF Zone
      <3>3. zones' = [zones EXCEPT ![z] = new] /\ UNCHANGED <<keys, capacity, cell>>
        BY <2>4, <3>1 DEF SetZone, Zone
      <3> HIDE DEF z, new
      <3>4. StoreTypeOK'
        BY <3>1, <3>2, <3>3 DEF StoreTypeOK
      <3>5. SlicesOK'
        BY <2>1, <3>1, <3>2, <3>3 DEF StoreTypeOK
      <3> QED
        BY <2>3, <3>4, <3>5
    <2>5. CASE UNCHANGED storeVars
      BY <2>1, <2>3, <2>5, StoreQuiet
    <2> QED
      BY <1>5, <2>4, <2>5 DEF StoreZone
  <1>6. CASE QueryZone(h)
    <2>1. pc[h] # "idle" /\ UNCHANGED <<storeVars, req, next, answer>>
      BY <1>6 DEF QueryZone
    <2>2. \/ \E rcode \in Rcodes, tsig \in BOOLEAN : Reply(h, rcode, tsig)
          \/ Goto(h, "read") /\ UNCHANGED reply
      BY <1>6 DEF QueryZone, Rcodes, Signed
    <2>3. \/ UNCHANGED txt
          \/ /\ HasZone(req[h].lookup)
             /\ txt' = [txt EXCEPT ![h] = zones[req[h].lookup].answers]
      BY <1>6 DEF QueryZone
    <2>4. txt' \in [Handlers -> Slice] /\ \A g \in Handlers : SliceOK(txt'[g])
      BY <2>3 DEF HasZone, StoreTypeOK, HandlerTypeOK, Zone
    <2>5. HandlerTypeOK'
      BY <2>1, <2>2, <2>4, ReplyType, GotoType DEF HandlerTypeOK, Steps
    <2> QED
      BY <2>1, <2>4, <2>5, StoreQuiet
  <1>7. CASE ReadAnswer(h)
    <2>1. pc[h] # "idle" /\ UNCHANGED <<storeVars, req, txt>>
      BY <1>7 DEF ReadAnswer
    <2>2. CASE next[h] <= txt[h].len
      <3>1. txt[h].arr \in Arrays /\ next[h] \in Index
        BY <2>2 DEF HandlerTypeOK, SliceOK, Slice, Index
      <3>2. cell[txt[h].arr][next[h]] \in Values \cup {Blank}
        BY <3>1 DEF StoreTypeOK
      <3>3. /\ answer' = [answer EXCEPT ![h] = Append(@, cell[txt[h].arr][next[h]])]
            /\ next' = [next EXCEPT ![h] = @ + 1]
            /\ UNCHANGED <<pc, reply>>
        BY <1>7, <2>2 DEF ReadAnswer
      <3>4. answer' \in [Handlers -> Seq(Values \cup {Blank})]
        <4>1. Append(answer[h], cell[txt[h].arr][next[h]]) \in Seq(Values \cup {Blank})
          BY <3>2 DEF HandlerTypeOK
        <4> QED
          BY <3>3, <4>1 DEF HandlerTypeOK
      <3>5. next' \in [Handlers -> Nat \ {0}]
        BY <3>3 DEF HandlerTypeOK
      <3>6. pc' = pc /\ req' = req /\ txt' = txt /\ reply' = reply
        BY <2>1, <3>3
      <3>7. HandlerTypeOK'
        BY <3>4, <3>5, <3>6 DEF HandlerTypeOK
      <3> QED
        BY <2>1, <3>7, StoreQuiet
    <2>3. CASE ~(next[h] <= txt[h].len)
      <3>1. \E tsig \in BOOLEAN : Reply(h, "NOERROR", tsig)
        BY <1>7, <2>3 DEF ReadAnswer, Signed
      <3>2. UNCHANGED <<answer, next>>
        BY <1>7, <2>3 DEF ReadAnswer
      <3>3. HandlerTypeOK'
        BY <2>1, <3>1, <3>2, ReplyType DEF HandlerTypeOK, Rcodes
      <3> QED
        BY <2>1, <3>3, StoreQuiet
    <2> QED
      BY <2>2, <2>3
  <1>8. CASE Respond(h)
    <2>1. UNCHANGED storeVars
      BY <1>8 DEF Respond
    <2>2. HandlerTypeOK' /\ \A g \in Handlers : SliceOK(txt'[g])
      BY <1>8, NewZoneType DEF Respond, Goto, HandlerTypeOK, Steps, Rcodes, NoReply, SliceOK, NilSlice
    <2> QED
      BY <2>1, <2>2, StoreQuiet
  <1> QED
    BY <1>1, <1>2, <1>3, <1>4, <1>5, <1>6, <1>7, <1>8 DEF Serve
\* Management operations touch neither the arrays nor the handlers.
LEMMA AdminType ==
  ASSUME TypeInv, Admin, UNCHANGED txt
  PROVE  StoreTypeOK' /\ SlicesOK'
  <1> USE NewZoneType DEF TypeInv, TypeOK, SlicesOK
  <1>1. ASSUME NEW k \in KeyNames, KeyAdmin(k) PROVE StoreTypeOK' /\ SlicesOK'
    BY <1>1 DEF KeyAdmin, CreateKey, DeleteKey, SetKeySecret, BindKey, UnbindKey, StoreTypeOK, Key
  <1>2. ASSUME NEW z \in ZoneNames, CreateZone(z) PROVE StoreTypeOK' /\ SlicesOK'
    BY <1>2 DEF CreateZone, StoreTypeOK, SliceOK, NewZone, NilSlice
  <1>3. ASSUME NEW z \in ZoneNames, DeleteZone(z) PROVE StoreTypeOK' /\ SlicesOK'
    BY <1>3 DEF DeleteZone, StoreTypeOK, Key
  <1>4. ASSUME NEW z \in ZoneNames, NEW d \in BOOLEAN, SetZoneDebug(z, d)
        PROVE  StoreTypeOK' /\ SlicesOK'
    BY <1>4 DEF SetZoneDebug, StoreTypeOK, Zone
  <1> QED
    BY <1>1, <1>2, <1>3, <1>4 DEF Admin, ZoneAdmin

LEMMA HistoryType ==
  ASSUME TypeInv, Next
  PROVE  HistoryTypeOK'
  <1> USE ServerAssumption DEF TypeInv, TypeOK, HistoryTypeOK
  <1>1. matched' \in [Handlers -> BOOLEAN] /\ bound' \in [Handlers -> BOOLEAN]
    BY WatchType DEF Next, Step
  <1>2. received' \in 0..MaxRequests
    <2>1. received' = received \/ (received < MaxRequests /\ received' = received + 1)
      BY DEF Next, Step, Serve, Receive, Verify, LookupZone, Authorise, ApplyRecord, StoreZone,
             QueryZone, ReadAnswer, Respond, Manage, Quiesce
    <2> QED
      BY <2>1
  <1>3. ASSUME NEW r \in Requests
        PROVE  Appends(r) \subseteq Values /\ Wanted(r) \subseteq Values
    <2>1. r.records \in Seq(UpdateRecord)
      BY DEF Request
    <2>2. \A i \in DOMAIN r.records : r.records[i] \in UpdateRecord
      BY <2>1
    <2>3. \A i \in DOMAIN r.records : r.records[i].value \in Values
      BY <2>2 DEF UpdateRecord
    <2> QED
      BY <2>3 DEF Appends, Wanted
  <1>4. submitted' \in [ZoneNames -> SUBSET Values]
    <2>1. CASE \E h \in Handlers : Authorise(h)
      <3> PICK h \in Handlers : Authorise(h)
        BY <2>1
      <3>1. req[h] \in Requests
        BY DEF Authorise, HandlerTypeOK
      <3>2. Appends(req[h]) \subseteq Values
        BY <1>3, <3>1
      <3> QED
        BY <3>2 DEF Authorise
    <2>2. CASE ~\E h \in Handlers : Authorise(h)
      BY <2>2 DEF Next, Step, Serve, Receive, Verify, LookupZone, ApplyRecord, StoreZone,
                  QueryZone, ReadAnswer, Respond, Manage, Quiesce, historyVars
    <2> QED
      BY <2>1, <2>2
  <1>5. acked' \subseteq ((ZoneNames \cup {NoName}) \X Values)
    <2>1. CASE \E h \in Handlers : Respond(h)
      <3> PICK h \in Handlers : Respond(h)
        BY <2>1
      <3>1. req[h] \in Requests
        BY DEF Respond, HandlerTypeOK
      <3>2. Wanted(req[h]) \subseteq Values /\ req[h].exact \in ZoneNames \cup {NoName}
        BY <1>3, <3>1 DEF Request
      <3> QED
        BY <3>2 DEF Respond
    <2>2. CASE ~\E h \in Handlers : Respond(h)
      BY <2>2 DEF Next, Step, Serve, Receive, Verify, LookupZone, Authorise, ApplyRecord, StoreZone,
                  QueryZone, ReadAnswer, Manage, Quiesce, historyVars
    <2> QED
      BY <2>1, <2>2
  <1> QED
    BY <1>1, <1>2, <1>4, <1>5

LEMMA TypeNext == TypeInv /\ [Next]_vars => TypeInv'
  <1> SUFFICES ASSUME TypeInv, Next PROVE TypeInv'
    <2>1. TypeInv /\ UNCHANGED vars => TypeInv'
      BY DEF TypeInv, TypeOK, StoreTypeOK, HandlerTypeOK, HistoryTypeOK, SlicesOK, SliceOK,
             vars, storeVars, handlerVars, windowVars, historyVars
    <2> QED
      BY <2>1
  <1>1. HistoryTypeOK'
    BY HistoryType
  <1>2. ASSUME NEW h \in Handlers, NEW r \in Serves[h], Receive(h, r)
        PROVE  StoreTypeOK' /\ HandlerTypeOK' /\ SlicesOK'
    <2>1. r \in Requests /\ r # NoRequest
      BY ServerAssumption
    <2>2. UNCHANGED <<storeVars, txt, next, answer, reply>>
      BY <1>2 DEF Receive
    <2>3. HandlerTypeOK'
      BY <1>2, <2>1, <2>2 DEF Receive, Goto, HandlerTypeOK, TypeInv, TypeOK, Steps
    <2> QED
      BY <2>2, <2>3, StoreQuiet DEF SlicesOK, TypeInv
  <1>3. ASSUME NEW h \in Handlers, Serve(h)
        PROVE  StoreTypeOK' /\ HandlerTypeOK' /\ SlicesOK'
    BY <1>3, ServeType
  <1>4. ASSUME Manage PROVE StoreTypeOK' /\ HandlerTypeOK' /\ SlicesOK'
    BY <1>4, AdminType DEF Manage, handlerVars, HandlerTypeOK, TypeInv, TypeOK
  <1>5. ASSUME Quiesce PROVE StoreTypeOK' /\ HandlerTypeOK' /\ SlicesOK'
    BY <1>5, StoreQuiet DEF Quiesce, handlerVars, HandlerTypeOK, TypeInv, TypeOK, SlicesOK
  <1> QED
    BY <1>1, <1>2, <1>3, <1>4, <1>5 DEF Next, Step, TypeInv, TypeOK

\* The state always has the types the Go declarations give it, the serial
\* being a uint32 and every slice within its array pool.
THEOREM TypeCorrect == Spec => []TypeOK
  <1>1. Spec => []TypeInv
    BY TypeInit, TypeNext, PTL DEF Spec
  <1>2. TypeInv => TypeOK
    BY DEF TypeInv
  <1> QED
    BY <1>1, <1>2, PTL
-----------------------------------------------------------------------------
(* The request window: what a handler has seen by the time it writes.      *)

IdleWindow(h) == pc[h] = "idle" => txt[h] = NilSlice /\ answer[h] = <<>>

ZoneWindow(h) ==
  pc[h] = "zone" /\ req[h].kind = "update" /\ req[h].single /\ Signed(req[h]) => matched[h]

KeyWindow(h) == pc[h] = "key" => Signed(req[h]) /\ matched[h]

RecordsWindow(h) ==
  pc[h] = "records" =>
    /\ matched[h] /\ bound[h]
    /\ req[h].exact \in ZoneNames /\ req[h].lookup = req[h].exact
    /\ Appends(req[h]) \subseteq submitted[req[h].exact]

Window ==
  \A h \in Handlers : IdleWindow(h) /\ ZoneWindow(h) /\ KeyWindow(h) /\ RecordsWindow(h)

\* What has been seen stays seen until the response, and what holds in the
\* next state is seen in it.
LEMMA WatchKeeps ==
  ASSUME Watch, NEW h \in Handlers, pc'[h] # "idle"
  PROVE  /\ matched[h] => matched'[h]
         /\ bound[h] => bound'[h]
         /\ SecretMatches(req[h])' => matched'[h]
         /\ (Signed(req[h]) /\ HasKey(req[h].tsig.key) /\ KeyHasZone(req[h]))' => bound'[h]
  BY DEF Watch

\* No step takes back what was submitted.
LEMMA SubmittedGrows ==
  ASSUME TypeInv, Next, NEW z \in ZoneNames
  PROVE  submitted[z] \subseteq submitted'[z]
  BY DEF Next, Step, Serve, Receive, Verify, LookupZone, Authorise, ApplyRecord, StoreZone, QueryZone,
         ReadAnswer, Respond, Manage, Quiesce, historyVars, TypeInv, TypeOK, HistoryTypeOK

\* A handler's step leaves the other handlers alone.
LEMMA OthersKeep ==
  ASSUME TypeInv, NEW h \in Handlers, Serve(h), NEW g \in Handlers, g # h
  PROVE  /\ pc'[g] = pc[g] /\ req'[g] = req[g] /\ txt'[g] = txt[g]
         /\ answer'[g] = answer[g]
  BY DEF Serve, Verify, LookupZone, Authorise, ApplyRecord, ClearRecord, AppendRecord, RefuseRecord,
         StoreZone, QueryZone, ReadAnswer, Respond, Reply, Goto, TypeInv, TypeOK, HandlerTypeOK

LEMMA WindowInit == Init => Window
  BY DEF Init, Window, IdleWindow, ZoneWindow, KeyWindow, RecordsWindow

LEMMA WindowServe ==
  ASSUME TypeInv, Window, Next, Watch, NEW h \in Handlers, Serve(h)
  PROVE  Window'
  <1> USE DEF TypeInv, TypeOK, HandlerTypeOK
  <1>1. ASSUME NEW g \in Handlers, g # h
        PROVE  (IdleWindow(g) /\ ZoneWindow(g) /\ KeyWindow(g) /\ RecordsWindow(g))'
    <2>1. pc'[g] = pc[g] /\ req'[g] = req[g] /\ txt'[g] = txt[g] /\ answer'[g] = answer[g]
      BY <1>1, OthersKeep
    <2>2. pc'[g] # "idle" => (matched[g] => matched'[g]) /\ (bound[g] => bound'[g])
      BY WatchKeeps
    <2>3. IdleWindow(g)' /\ ZoneWindow(g)' /\ KeyWindow(g)'
      BY <2>1, <2>2 DEF Window, IdleWindow, ZoneWindow, KeyWindow, Signed
    <2>4. RecordsWindow(g)'
      <3>1. SUFFICES ASSUME pc[g] = "records"
                     PROVE  Appends(req[g])' \subseteq submitted'[req[g].exact]
        BY <2>1, <2>2 DEF Window, RecordsWindow
      <3>2. Appends(req[g])' = Appends(req[g])
        BY <2>1 DEF Appends
      <3>3. /\ req[g].exact \in ZoneNames
            /\ Appends(req[g]) \subseteq submitted[req[g].exact]
        BY <3>1 DEF Window, RecordsWindow
      <3> QED
        BY <3>2, <3>3, SubmittedGrows
    <2> QED
      BY <2>3, <2>4
  <1>2. IdleWindow(h)'
    BY DEF Serve, Verify, LookupZone, Authorise, ApplyRecord, ClearRecord, AppendRecord, RefuseRecord,
           StoreZone, QueryZone, ReadAnswer, Respond, Reply, Goto, IdleWindow
  <1>3. ZoneWindow(h)'
    <2> SUFFICES ASSUME pc'[h] = "zone", req'[h].kind = "update", req'[h].single, Signed(req'[h])
                 PROVE  matched'[h]
      BY DEF ZoneWindow, Signed
    <2>1. Verify(h)
      BY DEF Serve, Verify, LookupZone, Authorise, ApplyRecord, ClearRecord, AppendRecord, RefuseRecord,
             StoreZone, QueryZone, ReadAnswer, Respond, Reply, Goto
    <2>2. SecretMatches(req[h]) /\ UNCHANGED <<keys, req>>
      BY <2>1 DEF Verify, Reply, Goto, storeVars
    <2>3. SecretMatches(req[h])'
      BY <2>2 DEF SecretMatches, Signed, HasKey
    <2> QED
      BY <2>3, WatchKeeps
  <1>4. KeyWindow(h)'
    <2> SUFFICES ASSUME pc'[h] = "key" PROVE Signed(req'[h]) /\ matched'[h]
      BY DEF KeyWindow, Signed
    <2>1. LookupZone(h)
      BY DEF Serve, Verify, LookupZone, Authorise, ApplyRecord, ClearRecord, AppendRecord, RefuseRecord,
             StoreZone, QueryZone, ReadAnswer, Respond, Reply, Goto
    <2>2. Signed(req[h]) /\ matched[h] /\ UNCHANGED req
      BY <2>1 DEF LookupZone, Reply, Goto, Window, ZoneWindow
    <2> QED
      BY <2>2, WatchKeeps
  <1>5. RecordsWindow(h)'
    <2> SUFFICES ASSUME pc'[h] = "records"
                 PROVE  /\ matched'[h] /\ bound'[h]
                        /\ req'[h].exact \in ZoneNames /\ req'[h].lookup = req'[h].exact
                        /\ Appends(req'[h]) \subseteq submitted'[req'[h].exact]
      BY DEF RecordsWindow, Appends
    <2>1. CASE Authorise(h)
      <3>1. /\ pc[h] = "key" /\ UNCHANGED <<keys, req>>
            /\ HasKey(req[h].tsig.key) /\ KeyHasZone(req[h])
            /\ submitted' = [submitted EXCEPT ![req[h].exact] = @ \cup Appends(req[h])]
        BY <2>1 DEF Authorise, Reply, Goto, storeVars
      <3>2. Signed(req[h]) /\ matched[h] /\ matched'[h]
        BY <3>1, WatchKeeps DEF Window, KeyWindow
      <3>3. (Signed(req[h]) /\ HasKey(req[h].tsig.key) /\ KeyHasZone(req[h]))'
        BY <3>1, <3>2 DEF Signed, HasKey, KeyHasZone
      <3>4. bound'[h]
        BY <3>3, WatchKeeps
      <3>5. keys[req[h].tsig.key] \in Key
        BY <3>1 DEF HasKey, StoreTypeOK
      <3>6. req[h].exact \in ZoneNames
        BY <3>1, <3>5 DEF KeyHasZone, Key
      <3>7. req[h] \in Requests
        BY <3>1
      <3>8. req[h].lookup = req[h].exact
        BY <3>6, <3>7, CanonicalNames
      <3> QED
        BY <3>1, <3>2, <3>4, <3>6, <3>8 DEF HistoryTypeOK
    <2>2. CASE pc[h] = "records"
      <3>1. UNCHANGED <<req, submitted>>
        BY <2>2 DEF Serve, Verify, LookupZone, Authorise, ApplyRecord, StoreZone, QueryZone,
                    ReadAnswer, Respond, historyVars
      <3> QED
        BY <2>2, <3>1, WatchKeeps DEF Window, RecordsWindow
    <2> QED
      BY <2>1, <2>2 DEF Serve, Verify, LookupZone, Authorise, ApplyRecord, ClearRecord, AppendRecord,
             RefuseRecord, StoreZone, QueryZone, ReadAnswer, Respond, Reply, Goto
  <1> QED
    BY <1>1, <1>2, <1>3, <1>4, <1>5 DEF Window

LEMMA WindowNext == TypeInv /\ Window /\ [Next]_vars => Window'
  <1> SUFFICES ASSUME TypeInv, Window, Next PROVE Window'
    <2>1. Window /\ UNCHANGED vars => Window'
      BY DEF Window, IdleWindow, ZoneWindow, KeyWindow, RecordsWindow, vars, handlerVars, windowVars,
             historyVars, Signed, Appends
    <2> QED
      BY <2>1
  <1>1. Watch
    BY DEF Next, Step
  <1>2. CASE \E h \in Handlers : Serve(h)
    BY <1>1, <1>2, WindowServe
  <1>3. ASSUME NEW h \in Handlers, NEW r \in Serves[h], Receive(h, r) PROVE Window'
    <2>1. UNCHANGED <<txt, answer, submitted>>
      BY <1>3 DEF Receive
    <2>2. /\ pc[h] = "idle" /\ (pc'[h] = "zone" => ~Signed(req'[h]))
          /\ pc'[h] \in {"verify", "query", "zone"}
          /\ \A g \in Handlers \ {h} : pc'[g] = pc[g] /\ req'[g] = req[g]
      BY <1>3 DEF Receive, Goto, TypeInv, TypeOK, HandlerTypeOK
    <2>3. \A g \in Handlers : pc'[g] # "idle" =>
            (matched[g] => matched'[g]) /\ (bound[g] => bound'[g])
      BY <1>1, WatchKeeps
    <2> QED
      BY <2>1, <2>2, <2>3 DEF Window, IdleWindow, ZoneWindow, KeyWindow, RecordsWindow, Signed, Appends
  <1>4. CASE Manage \/ Quiesce
    <2>1. UNCHANGED <<pc, req, txt, answer, submitted>>
      BY <1>4 DEF Manage, Quiesce, handlerVars, historyVars
    <2>2. \A g \in Handlers : pc'[g] # "idle" =>
            (matched[g] => matched'[g]) /\ (bound[g] => bound'[g])
      BY <1>1, WatchKeeps
    <2> QED
      BY <2>1, <2>2 DEF Window, IdleWindow, ZoneWindow, KeyWindow, RecordsWindow, Signed, Appends
  <1> QED
    BY <1>2, <1>3, <1>4 DEF Next, Step
-----------------------------------------------------------------------------
(* The shared arrays: who may refer to which, and what they contain.       *)

SharesArray(s, t) == s.arr = t.arr /\ s.arr # NilArray

ZonesApart ==
  \A y, z \in ZoneNames :
    zones[y] # NoZone /\ zones[z] # NoZone /\ SharesArray(zones[y].answers, zones[z].answers)
      => y = z

HandlersAtZone ==
  \A z \in ZoneNames, h \in Handlers :
    zones[z] # NoZone /\ SharesArray(zones[z].answers, txt[h]) => req[h].lookup = z

HandlersApart ==
  \A g, h \in Handlers : SharesArray(txt[g], txt[h]) => req[g].lookup = req[h].lookup

Isolated == ZonesApart /\ HandlersAtZone /\ HandlersApart

\* Loads zone z into the handler's slice.
Loads(h, z) ==
  /\ UNCHANGED <<storeVars, req, answer>>
  /\ HasZone(z) /\ txt' = [txt EXCEPT ![h] = zones[z].answers]

Empties(h) ==
  /\ UNCHANGED <<storeVars, req, answer>>
  /\ txt' = [txt EXCEPT ![h].len = 0]

AppendsTo(h, v, t) ==
  /\ pc[h] = "records" /\ v \in Appends(req[h]) /\ v \in Values
  /\ GoAppend(txt[h], v, t, InUse) /\ txt' = [txt EXCEPT ![h] = t]
  /\ UNCHANGED <<keys, zones, req, answer>>

Stores(h) ==
  /\ pc[h] = "records" /\ pc'[h] # "records"
  /\ SetZone(req[h].exact, txt[h])
  /\ UNCHANGED <<req, txt, answer>>

Finishes(h) ==
  /\ UNCHANGED storeVars
  /\ req' = [req EXCEPT ![h] = NoRequest]
  /\ txt' = [txt EXCEPT ![h] = NilSlice]
  /\ answer' = [answer EXCEPT ![h] = <<>>]

ReadsOne(h) ==
  /\ UNCHANGED <<storeVars, req, txt>>
  /\ next[h] <= txt[h].len
  /\ answer' = [answer EXCEPT ![h] = Append(@, cell[txt[h].arr][next[h]])]

Rests == UNCHANGED <<storeVars, req, txt, answer>>

\* What a handler's step does to the shared arrays.
LEMMA Effects ==
  ASSUME TypeInv, NEW h \in Handlers, Serve(h)
  PROVE  \/ Rests \/ Loads(h, req[h].lookup) \/ Empties(h) \/ Stores(h) \/ Finishes(h)
         \/ ReadsOne(h)
         \/ \E t \in Slice, v \in Values : AppendsTo(h, v, t)
  <1> USE DEF TypeInv, TypeOK, HandlerTypeOK
  <1>1. CASE Verify(h) \/ Authorise(h)
    BY <1>1 DEF Verify, Authorise, Rests
  <1>2. CASE LookupZone(h)
    BY <1>2 DEF LookupZone, Rests, Loads
  <1>3. CASE QueryZone(h)
    BY <1>3 DEF QueryZone, Rests, Loads
  <1>4. CASE ApplyRecord(h)
    <2>1. pc[h] = "records" /\ UNCHANGED <<keys, zones, req, answer>>
      BY <1>4 DEF ApplyRecord
    <2>2. CASE ClearRecord(h)
      BY <2>1, <2>2 DEF ClearRecord, Empties, storeVars
    <2>3. CASE RefuseRecord(h, "NOTAUTH") \/ RefuseRecord(h, "REFUSED")
      BY <2>1, <2>3 DEF RefuseRecord, Rests, storeVars
    <2>4. CASE /\ AppendRecord(h) /\ next[h] <= Len(req[h].records)
               /\ req[h].records[next[h]].op \in {"append", "remove"}
      <3> DEFINE v == req[h].records[next[h]].value
      <3>1. req[h] \in Request
        BY <2>1, ServerAssumption
      <3>2. req[h].records \in Seq(UpdateRecord)
        BY <3>1 DEF Request
      <3>3. next[h] \in DOMAIN req[h].records
        BY <2>4, <3>2
      <3>4. v \in Appends(req[h])
        BY <2>4, <3>3 DEF Appends
      <3>5. req[h].records[next[h]] \in UpdateRecord
        BY <3>2, <3>3
      <3>6. v \in Values
        BY <3>5 DEF UpdateRecord
      <3> HIDE DEF v
      <3>7. PICK t \in Slice : GoAppend(txt[h], v, t, InUse) /\ txt' = [txt EXCEPT ![h] = t]
        BY <2>4 DEF AppendRecord, v
      <3>8. AppendsTo(h, v, t)
        BY <2>1, <3>4, <3>6, <3>7 DEF AppendsTo
      <3> QED
        BY <3>6, <3>8
    <2> QED
      BY <1>4, <2>2, <2>3, <2>4 DEF ApplyRecord
  <1>5. CASE StoreZone(h)
    <2>1. pc[h] = "records" /\ pc'[h] # "records" /\ UNCHANGED <<req, txt, answer>>
      BY <1>5 DEF StoreZone, Reply, Goto
    <2> QED
      BY <1>5, <2>1 DEF StoreZone, Stores, Rests
  <1>6. CASE ReadAnswer(h)
    BY <1>6 DEF ReadAnswer, Rests, ReadsOne
  <1>7. CASE Respond(h)
    BY <1>7 DEF Respond, Finishes
  <1> QED
    BY <1>1, <1>2, <1>3, <1>4, <1>5, <1>6, <1>7 DEF Serve

\* An append writes at most one cell of the handler's own array, or fills an
\* array that nobody refers to.
LEMMA AppendWrites ==
  ASSUME TypeInv, NEW h \in Handlers, NEW v \in Values, NEW t \in Slice, AppendsTo(h, v, t)
  PROVE  \/ /\ t.arr = txt[h].arr /\ t.arr \in Arrays /\ t.len = txt[h].len + 1
            /\ \A a \in Arrays, i \in Index :
                 cell'[a][i] = IF a = t.arr /\ i = t.len THEN v ELSE cell[a][i]
         \/ /\ t.arr \in Arrays /\ t.arr \notin InUse /\ t.len = txt[h].len + 1
            /\ \A a \in Arrays \ {t.arr}, i \in Index : cell'[a][i] = cell[a][i]
            /\ \A i \in 1..t.len :
                 cell'[t.arr][i] = IF i = t.len THEN v ELSE cell[txt[h].arr][i]
  <1> USE StoreAssumption DEF TypeInv, TypeOK
  <1> DEFINE s == txt[h]
  <1>0. s \in Slice /\ SliceOK(s) /\ GoAppend(s, v, t, InUse)
    BY DEF AppendsTo, HandlerTypeOK, SlicesOK
  <1> HIDE DEF s
  <1>t. t.arr \in Arrays /\ t.len = s.len + 1
    BY <1>0, AppendType
  <1>1. CASE AppendInPlace(s, v, t)
    <2>1. t.arr = s.arr
      BY <1>0, <1>1 DEF AppendInPlace, Slice
    <2>2. cell' = [cell EXCEPT ![s.arr] = [@ EXCEPT ![s.len + 1] = v]]
      BY <1>1 DEF AppendInPlace
    <2>3. \A a \in Arrays, i \in Index :
            cell'[a][i] = IF a = t.arr /\ i = t.len THEN v ELSE cell[a][i]
      BY <1>t, <2>1, <2>2 DEF StoreTypeOK
    <2> QED
      BY <1>t, <2>1, <2>3 DEF s
  <1>2. CASE AppendGrowing(s, v, t, InUse)
    <2> DEFINE new == CHOOSE a \in Arrays : a \notin InUse
    <2> DEFINE cells == [i \in Index |-> IF i <= s.len THEN cell[s.arr][i]
                                         ELSE IF i = s.len + 1 THEN v ELSE Blank]
    <2>1. new \in Arrays /\ new \notin InUse
      BY <1>2 DEF AppendGrowing
    <2>2. t.arr = new /\ cell' = [cell EXCEPT ![new] = cells]
      BY <1>2 DEF AppendGrowing
    <2>3. \A i \in 1..t.len : i \in Index
      BY <1>t DEF Slice, Index
    <2>4. \A i \in 1..t.len : cells[i] = IF i = t.len THEN v ELSE cell[s.arr][i]
      BY <1>0, <1>t, <2>3 DEF Slice
    <2> HIDE DEF new, cells
    <2>5. \A a \in Arrays \ {t.arr}, i \in Index : cell'[a][i] = cell[a][i]
      BY <2>1, <2>2 DEF StoreTypeOK
    <2>6. \A i \in 1..t.len : cell'[t.arr][i] = IF i = t.len THEN v ELSE cell[s.arr][i]
      BY <2>1, <2>2, <2>4 DEF StoreTypeOK
    <2> QED
      BY <1>t, <2>1, <2>2, <2>5, <2>6 DEF s
  <1> QED
    BY <1>0, <1>1, <1>2 DEF GoAppend
\* Values in the arrays come from updates for the zone that refers to them.
SliceFrom(s, z) == \A i \in 1..s.len : cell[s.arr][i] \in submitted[z]

ZoneFrom(z) == zones[z] # NoZone => SliceFrom(zones[z].answers, z)

HandlerFrom(h) ==
  /\ txt[h].len > 0 \/ answer[h] # <<>> => req[h].lookup \in ZoneNames
  /\ SliceFrom(txt[h], req[h].lookup)
  /\ \A i \in DOMAIN answer[h] : answer[h][i] \in submitted[req[h].lookup]

Provenance == (\A z \in ZoneNames : ZoneFrom(z)) /\ (\A h \in Handlers : HandlerFrom(h))

Inv == TypeInv /\ Window /\ Isolated /\ Provenance

LEMMA HeapInit == Init => Isolated /\ Provenance
  <1> SUFFICES ASSUME Init PROVE Isolated /\ Provenance
    OBVIOUS
  <1>1. Isolated
    BY StoreAssumption, InitialLists
       DEF Init, NilSlice, Isolated, ZonesApart, HandlersAtZone, HandlersApart, SharesArray
  <1>2. \A z \in ZoneNames : ZoneFrom(z)
    BY DEF Init, ZoneFrom, SliceFrom, AnswerSet
  <1>3. Provenance
    BY <1>2, StoreAssumption DEF Init, NilSlice, Provenance, HandlerFrom, SliceFrom
  <1> QED
    BY <1>1, <1>3

\* The zone a handler writes for is the one it looked up.
LEMMA WritesItsZone ==
  ASSUME Inv, NEW h \in Handlers, pc[h] = "records"
  PROVE  /\ req[h].exact \in ZoneNames /\ req[h].lookup = req[h].exact
         /\ matched[h] /\ bound[h]
         /\ Appends(req[h]) \subseteq submitted[req[h].exact]
  BY DEF Inv, Window, RecordsWindow

\* Storing the handler's slice changes its zone and nothing else.
LEMMA StoreEffect ==
  ASSUME Inv, NEW h \in Handlers, Stores(h)
  PROVE  /\ req[h].exact \in ZoneNames /\ req[h].lookup = req[h].exact
         /\ zones[req[h].exact] # NoZone /\ zones'[req[h].exact].answers = txt[h]
         /\ \A z \in ZoneNames \ {req[h].exact} : zones'[z] = zones[z]
         /\ UNCHANGED <<keys, capacity, cell, req, txt, answer>>
  <1> USE StoreAssumption DEF Inv, TypeInv, TypeOK, StoreTypeOK
  <1> DEFINE z0 == req[h].exact
  <1>1. z0 \in ZoneNames /\ req[h].lookup = z0
    BY WritesItsZone DEF Stores
  <1>2. /\ SetZone(z0, txt[h]) /\ UNCHANGED <<req, txt, answer>>
    BY DEF Stores
  <1> HIDE DEF z0
  <1>3. zones[z0] \in Zone /\ zones[z0] # NoZone
    BY <1>1, <1>2 DEF SetZone, HasZone
  <1> DEFINE new == [zones[z0] EXCEPT !.serial = (zones[z0].serial + 1) % SerialModulus,
                                      !.answers = txt[h]]
  <1>4. zones' = [zones EXCEPT ![z0] = new]
    BY <1>2 DEF SetZone
  <1>5. new.answers = txt[h]
    BY <1>3 DEF Zone
  <1> HIDE DEF new
  <1>6. zones'[z0].answers = txt[h] /\ \A z \in ZoneNames \ {z0} : zones'[z] = zones[z]
    BY <1>1, <1>4, <1>5
  <1> QED
    BY <1>1, <1>2, <1>3, <1>6 DEF SetZone, z0

\* Storing the handler's slice in the zone it looked up keeps the arrays apart.
LEMMA IsolatedStore ==
  ASSUME Inv, NEW h \in Handlers, Stores(h)
  PROVE  Isolated'
  <1> DEFINE z0 == req[h].exact
  <1>1. /\ z0 \in ZoneNames /\ req[h].lookup = z0
        /\ zones'[z0].answers = txt[h]
        /\ \A z \in ZoneNames \ {z0} : zones'[z] = zones[z]
        /\ req' = req /\ txt' = txt
    BY StoreEffect
  <1>2. ZonesApart /\ HandlersAtZone /\ HandlersApart
    BY DEF Inv, Isolated
  <1> HIDE DEF z0
  <1>3. ASSUME NEW y \in ZoneNames, NEW z \in ZoneNames, zones'[y] # NoZone, zones'[z] # NoZone,
               SharesArray(zones'[y].answers, zones'[z].answers)
        PROVE  y = z
    <2>1. CASE y # z0 /\ z # z0
      BY <1>1, <1>2, <1>3, <2>1 DEF ZonesApart
    <2>2. CASE y = z0 /\ z # z0
      <3>1. zones[z] # NoZone /\ SharesArray(zones[z].answers, txt[h])
        BY <1>1, <1>3, <2>2 DEF SharesArray
      <3> QED
        BY <1>1, <1>2, <2>2, <3>1 DEF HandlersAtZone
    <2>3. CASE y # z0 /\ z = z0
      <3>1. zones[y] # NoZone /\ SharesArray(zones[y].answers, txt[h])
        BY <1>1, <1>3, <2>3 DEF SharesArray
      <3> QED
        BY <1>1, <1>2, <2>3, <3>1 DEF HandlersAtZone
    <2> QED
      BY <2>1, <2>2, <2>3
  <1>4. ASSUME NEW z \in ZoneNames, NEW g \in Handlers, zones'[z] # NoZone,
               SharesArray(zones'[z].answers, txt'[g])
        PROVE  req'[g].lookup = z
    <2>1. CASE z = z0
      <3>1. SharesArray(txt[g], txt[h])
        BY <1>1, <1>4, <2>1 DEF SharesArray
      <3> QED
        BY <1>1, <1>2, <2>1, <3>1 DEF HandlersApart
    <2>2. CASE z # z0
      BY <1>1, <1>2, <1>4, <2>2 DEF HandlersAtZone
    <2> QED
      BY <2>1, <2>2
  <1>5. HandlersApart'
    BY <1>1, <1>2 DEF HandlersApart, SharesArray
  <1> QED
    BY <1>3, <1>4, <1>5 DEF Isolated, ZonesApart, HandlersAtZone

LEMMA IsolatedServe ==
  ASSUME Inv, NEW h \in Handlers, Serve(h)
  PROVE  Isolated'
  <1> USE StoreAssumption DEF Inv, TypeInv, TypeOK, HandlerTypeOK, Isolated, ZonesApart, HandlersAtZone,
             HandlersApart, SharesArray
  <1>1. CASE Rests \/ ReadsOne(h)
    <2>1. zones' = zones /\ req' = req /\ txt' = txt
      BY <1>1 DEF Rests, ReadsOne, storeVars
    <2> QED
      BY <2>1
  <1>2. CASE Loads(h, req[h].lookup)
    BY <1>2 DEF Loads, storeVars, HasZone
  <1>3. CASE Empties(h)
    <2>1. \A g \in Handlers : txt'[g].arr = txt[g].arr
      BY <1>3 DEF Empties, Slice
    <2>2. zones' = zones /\ req' = req
      BY <1>3 DEF Empties, storeVars
    <2>3. ZonesApart'
      BY <2>2
    <2>4. HandlersAtZone'
      BY <2>1, <2>2
    <2>5. HandlersApart'
      <3> SUFFICES ASSUME NEW f \in Handlers, NEW g \in Handlers, SharesArray(txt[f], txt[g])'
                   PROVE  req'[f].lookup = req'[g].lookup
        OBVIOUS
      <3>1. txt'[f].arr = txt[f].arr /\ txt'[g].arr = txt[g].arr
        BY <2>1
      <3>2. SharesArray(txt[f], txt[g])
        BY <3>1
      <3> QED
        BY <2>2, <3>2
    <2> QED
      BY <2>3, <2>4, <2>5
  <1>4. CASE Stores(h)
    BY <1>4, IsolatedStore
  <1>5. CASE Finishes(h)
    BY <1>5 DEF Finishes, storeVars, NilSlice
  <1>6. ASSUME NEW t \in Slice, NEW v \in Values, AppendsTo(h, v, t) PROVE Isolated'
    <2>1. UNCHANGED <<zones, req>> /\ txt' = [txt EXCEPT ![h] = t]
      BY <1>6 DEF AppendsTo
    <2>2. t.arr = txt[h].arr \/ t.arr \notin InUse
      BY <1>6, AppendWrites
    <2> QED
      BY <2>1, <2>2 DEF InUse, StoredArrays
  <1> QED
    BY <1>1, <1>2, <1>3, <1>4, <1>5, <1>6, Effects

\* Whatever a step leaves alone keeps its provenance.
LEMMA ProvenanceKeeps ==
  ASSUME Inv, Next, UNCHANGED cell
  PROVE  /\ \A z \in ZoneNames : zones'[z] = zones[z] => ZoneFrom(z)'
         /\ \A g \in Handlers :
              txt'[g] = txt[g] /\ answer'[g] = answer[g] /\ req'[g] = req[g] => HandlerFrom(g)'
  <1> USE DEF Inv, TypeInv, TypeOK
  <1>g. \A z \in ZoneNames : submitted[z] \subseteq submitted'[z]
    BY SubmittedGrows
  <1>1. ASSUME NEW z \in ZoneNames, zones'[z] = zones[z] PROVE ZoneFrom(z)'
    BY <1>1, <1>g DEF Provenance, ZoneFrom, SliceFrom
  <1>2. ASSUME NEW g \in Handlers, txt'[g] = txt[g], answer'[g] = answer[g], req'[g] = req[g]
        PROVE  HandlerFrom(g)'
    <2>1. HandlerFrom(g) /\ txt[g] \in Slice
      BY DEF Provenance, HandlerTypeOK
    <2>2. CASE req[g].lookup \in ZoneNames
      BY <1>2, <1>g, <2>1, <2>2 DEF HandlerFrom, SliceFrom
    <2>3. CASE txt[g].len = 0 /\ answer[g] = <<>>
      BY <1>2, <2>3 DEF HandlerFrom, SliceFrom
    <2> QED
      BY <2>1, <2>2, <2>3 DEF HandlerFrom, Slice
  <1> QED
    BY <1>1, <1>2

LEMMA ProvenanceServe ==
  ASSUME Inv, Next, NEW h \in Handlers, Serve(h)
  PROVE  Provenance'
  <1> USE StoreAssumption DEF Inv, TypeInv, TypeOK, HandlerTypeOK
  <1>g. \A z \in ZoneNames : submitted[z] \subseteq submitted'[z]
    BY SubmittedGrows
  <1>1. CASE Rests
    BY <1>1, ProvenanceKeeps DEF Rests, storeVars, Provenance
  <1>2. CASE Loads(h, req[h].lookup)
    <2>1. UNCHANGED <<cell, zones, req, answer>> /\ \A g \in Handlers \ {h} : txt'[g] = txt[g]
      BY <1>2 DEF Loads, storeVars
    <2>2. /\ req[h].lookup \in ZoneNames /\ zones[req[h].lookup] # NoZone
          /\ txt'[h] = zones[req[h].lookup].answers
      BY <1>2 DEF Loads, HasZone
    <2>3. HandlerFrom(h)'
      <3>1. ZoneFrom(req[h].lookup)' /\ HandlerFrom(h)
        BY <2>1, <2>2, ProvenanceKeeps DEF Provenance
      <3>2. SliceFrom(txt[h], req[h].lookup)'
        BY <2>1, <2>2, <3>1 DEF ZoneFrom, SliceFrom
      <3> QED
        BY <1>g, <2>1, <2>2, <3>1, <3>2 DEF HandlerFrom
    <2> QED
      BY <2>1, <2>3, ProvenanceKeeps DEF Provenance
  <1>3. CASE Empties(h)
    <2>1. /\ UNCHANGED <<cell, zones, req, answer>> /\ txt'[h].len = 0
          /\ \A g \in Handlers \ {h} : txt'[g] = txt[g]
      BY <1>3 DEF Empties, storeVars, Slice
    <2>2. HandlerFrom(h)'
      <3>1. HandlerFrom(h)
        BY DEF Provenance
      <3>2. answer[h] # <<>> => req[h].lookup \in ZoneNames
        BY <3>1 DEF HandlerFrom
      <3>3. SliceFrom(txt[h], req[h].lookup)'
        BY <2>1 DEF SliceFrom
      <3>4. \A i \in DOMAIN answer[h] : answer[h][i] \in submitted'[req[h].lookup]
        <4> SUFFICES ASSUME NEW i \in DOMAIN answer[h]
                     PROVE  answer[h][i] \in submitted'[req[h].lookup]
          OBVIOUS
        <4>1. answer[h] # <<>>
          OBVIOUS
        <4> QED
          BY <1>g, <3>1, <3>2, <4>1 DEF HandlerFrom
      <3> QED
        BY <2>1, <3>2, <3>3, <3>4 DEF HandlerFrom
    <2> QED
      BY <2>1, <2>2, ProvenanceKeeps DEF Provenance
  <1>4. CASE Stores(h)
    <2>1. ZoneFrom(req[h].exact)'
      <3>1. HandlerFrom(h)'
        BY <1>4, StoreEffect, ProvenanceKeeps
      <3> QED
        BY <1>4, <3>1, StoreEffect DEF HandlerFrom, ZoneFrom, SliceFrom
    <2> QED
      BY <1>4, <2>1, StoreEffect, ProvenanceKeeps DEF Provenance
  <1>5. CASE Finishes(h)
    <2>1. /\ UNCHANGED <<zones, cell>> /\ txt'[h].len = 0 /\ answer'[h] = <<>>
          /\ \A g \in Handlers \ {h} : txt'[g] = txt[g] /\ answer'[g] = answer[g] /\ req'[g] = req[g]
      BY <1>5 DEF Finishes, storeVars, NilSlice
    <2>2. HandlerFrom(h)'
      BY <2>1 DEF HandlerFrom, SliceFrom
    <2> QED
      BY <2>1, <2>2, ProvenanceKeeps DEF Provenance
  <1>6. CASE ReadsOne(h)
    <2>1. next[h] \in 1..txt[h].len /\ txt[h].len > 0 /\ HandlerFrom(h)
      BY <1>6 DEF ReadsOne, Slice, Provenance
    <2>2. /\ req[h].lookup \in ZoneNames
          /\ cell[txt[h].arr][next[h]] \in submitted[req[h].lookup]
      BY <2>1 DEF HandlerFrom, SliceFrom
    <2>3. /\ UNCHANGED <<zones, cell, req, txt>>
          /\ answer'[h] = Append(answer[h], cell[txt[h].arr][next[h]])
          /\ \A g \in Handlers \ {h} : answer'[g] = answer[g]
      BY <1>6 DEF ReadsOne, storeVars
    <2>4. \A i \in DOMAIN answer'[h] : answer'[h][i] \in submitted[req[h].lookup]
      <3>1. answer[h] \in Seq(Values \cup {Blank})
        OBVIOUS
      <3>2. \A i \in DOMAIN answer[h] : answer[h][i] \in submitted[req[h].lookup]
        BY <2>1 DEF HandlerFrom
      <3> QED
        BY <2>2, <2>3, <3>1, <3>2
    <2>5. SliceFrom(txt[h], req[h].lookup)'
      BY <1>g, <2>1, <2>2, <2>3 DEF HandlerFrom, SliceFrom
    <2>6. HandlerFrom(h)'
      BY <1>g, <2>2, <2>3, <2>4, <2>5 DEF HandlerFrom
    <2> QED
      BY <2>3, <2>6, ProvenanceKeeps DEF Provenance
  <1>7. ASSUME NEW t \in Slice, NEW v \in Values, AppendsTo(h, v, t) PROVE Provenance'
    <2>0. \/ /\ t.arr = txt[h].arr /\ t.arr \in Arrays /\ t.len = txt[h].len + 1
             /\ \A a \in Arrays, i \in Index :
                  cell'[a][i] = IF a = t.arr /\ i = t.len THEN v ELSE cell[a][i]
          \/ /\ t.arr \in Arrays /\ t.arr \notin InUse /\ t.len = txt[h].len + 1
             /\ \A a \in Arrays \ {t.arr}, i \in Index : cell'[a][i] = cell[a][i]
             /\ \A i \in 1..t.len :
                  cell'[t.arr][i] = IF i = t.len THEN v ELSE cell[txt[h].arr][i]
      BY <1>7, AppendWrites
    <2> DEFINE z0 == req[h].lookup
    <2>1. /\ UNCHANGED <<zones, req, answer>>
          /\ txt'[h] = t /\ \A g \in Handlers \ {h} : txt'[g] = txt[g]
      BY <1>7 DEF AppendsTo
    <2>2. pc[h] = "records" /\ v \in Appends(req[h])
      BY <1>7 DEF AppendsTo
    <2>3. z0 \in ZoneNames /\ v \in submitted[z0]
      BY <2>2, WritesItsZone
    <2> HIDE DEF z0
    <2>4. SliceFrom(txt[h], z0)
      BY DEF Provenance, HandlerFrom, z0
    <2>5. \A s \in Slice, z \in ZoneNames :
            /\ SliceOK(s) /\ SliceFrom(s, z)
            /\ s.arr \in InUse
            /\ s.arr = txt[h].arr /\ s.arr # NilArray => z = z0
            => SliceFrom(s, z)'
      <3> SUFFICES ASSUME NEW s \in Slice, NEW z \in ZoneNames, SliceOK(s), SliceFrom(s, z),
                          s.arr \in InUse, s.arr = txt[h].arr /\ s.arr # NilArray => z = z0,
                          NEW i \in 1..s.len
                   PROVE  cell'[s.arr][i] \in submitted'[z]
        BY DEF SliceFrom
      <3>1. s.arr \in Arrays /\ i \in Index /\ s.arr # NilArray
        BY DEF SliceOK, Slice, Index
      <3>2. cell[s.arr][i] \in submitted'[z] /\ (z = z0 => v \in submitted'[z])
        BY <1>g, <2>3 DEF SliceFrom
      <3>3. cell'[s.arr][i] = cell[s.arr][i] \/ (s.arr = txt[h].arr /\ cell'[s.arr][i] = v)
        BY <2>0, <3>1
      <3> QED
        BY <3>1, <3>2, <3>3
    <2>6. SliceFrom(t, z0)'
      <3> SUFFICES ASSUME NEW i \in 1..t.len PROVE cell'[t.arr][i] \in submitted'[z0]
        BY <2>1 DEF SliceFrom, z0
      <3>0. t.len = txt[h].len + 1 /\ t.arr \in Arrays
        BY <2>0
      <3>m. t.len \in 0..MaxLen /\ MaxLen \in Nat
        BY DEF Slice
      <3>i. i \in Index
        BY <3>m DEF Index
      <3>1. t.len = txt[h].len + 1 /\ i \in Index /\ t.arr \in Arrays
        BY <3>0, <3>i
      <3>2. i # t.len => cell[txt[h].arr][i] \in submitted'[z0]
        <4> SUFFICES ASSUME i # t.len PROVE cell[txt[h].arr][i] \in submitted'[z0]
          OBVIOUS
        <4>1. txt[h].len \in 0..MaxLen /\ MaxLen \in Nat
          BY StoreAssumption DEF Slice, Inv, TypeInv, TypeOK, HandlerTypeOK
        <4>2. PICK n \in Nat : n = txt[h].len
          BY <4>1
        <4>3. i \in 1..n
          BY <3>0, <4>2
        <4> QED
          BY <1>g, <2>3, <2>4, <4>2, <4>3 DEF SliceFrom
      <3>3. cell'[t.arr][i] = v \/ (i # t.len /\ cell'[t.arr][i] = cell[txt[h].arr][i])
        BY <2>0, <3>1
      <3> QED
        BY <1>g, <2>3, <3>2, <3>3 DEF z0
    <2>7. ASSUME NEW z \in ZoneNames, zones'[z] # NoZone PROVE SliceFrom(zones[z].answers, z)'
      <3>1. zones[z] # NoZone /\ zones[z].answers \in Slice /\ zones' = zones
        BY <2>1, <2>7 DEF StoreTypeOK, Zone
      <3>2. zones[z].answers.arr \in InUse /\ SliceOK(zones[z].answers)
        BY <3>1 DEF InUse, StoredArrays, SlicesOK
      <3>3. zones[z].answers.arr = txt[h].arr /\ zones[z].answers.arr # NilArray => z = z0
        BY <3>1 DEF Isolated, ZonesApart, HandlersAtZone, HandlersApart, SharesArray, z0
      <3>4. SliceFrom(zones[z].answers, z)
        BY <3>1 DEF Provenance, ZoneFrom
      <3>5. \A i \in 1..zones[z].answers.len : cell'[zones[z].answers.arr][i] \in submitted'[z]
        BY <2>5, <3>1, <3>2, <3>3, <3>4 DEF SliceFrom
      <3> QED
        BY <3>1, <3>5 DEF SliceFrom
    <2>8. ASSUME NEW g \in Handlers PROVE SliceFrom(txt[g], req[g].lookup)'
      <3>1. CASE g = h
        BY <2>1, <2>6, <3>1 DEF SliceFrom, z0
      <3>2. CASE g # h /\ txt[g].len > 0
        <4>1. req[g].lookup \in ZoneNames /\ SliceFrom(txt[g], req[g].lookup)
          BY <3>2 DEF Provenance, HandlerFrom
        <4>2. txt[g] \in Slice /\ SliceOK(txt[g]) /\ txt[g].arr \in InUse
          BY DEF SlicesOK, InUse
        <4>3. txt[g].arr = txt[h].arr /\ txt[g].arr # NilArray => req[g].lookup = z0
          BY DEF Isolated, ZonesApart, HandlersAtZone, HandlersApart, SharesArray, z0
        <4>4. \A i \in 1..txt[g].len : cell'[txt[g].arr][i] \in submitted'[req[g].lookup]
          BY <2>5, <4>1, <4>2, <4>3 DEF SliceFrom
        <4> QED
          BY <2>1, <3>2, <4>4 DEF SliceFrom
      <3>3. CASE g # h /\ txt[g].len = 0
        BY <2>1, <3>3 DEF SliceFrom
      <3>4. txt[g] \in Slice
        OBVIOUS
      <3> QED
        BY <3>1, <3>2, <3>3, <3>4 DEF Slice
    <2>9. \A g \in Handlers : txt'[g].len > 0 \/ answer'[g] # <<>> => req'[g].lookup \in ZoneNames
      <3> SUFFICES ASSUME NEW g \in Handlers, txt'[g].len > 0 \/ answer'[g] # <<>>
                   PROVE  req[g].lookup \in ZoneNames
        BY <2>1
      <3>1. CASE g = h
        BY <2>3, <3>1 DEF z0
      <3>2. CASE g # h
        BY <2>1, <3>2 DEF Provenance, HandlerFrom
      <3> QED
        BY <3>1, <3>2
    <2>10. \A g \in Handlers : \A i \in DOMAIN answer'[g] : answer'[g][i] \in submitted'[req'[g].lookup]
      <3> SUFFICES ASSUME NEW g \in Handlers, NEW i \in DOMAIN answer[g]
                   PROVE  answer[g][i] \in submitted'[req[g].lookup]
        BY <2>1
      <3>1. answer[g] # <<>>
        OBVIOUS
      <3> QED
        BY <1>g, <3>1 DEF Provenance, HandlerFrom
    <2> QED
      BY <2>7, <2>8, <2>9, <2>10 DEF Provenance, ZoneFrom, HandlerFrom
  <1> QED
    BY <1>1, <1>2, <1>3, <1>4, <1>5, <1>6, <1>7, Effects
\* Receiving a message and managing keys and zones hand out no array.
LEMMA HeapOther ==
  ASSUME Inv, Next, ~\E h \in Handlers : Serve(h)
  PROVE  Isolated' /\ Provenance'
  <1> USE DEF Inv, TypeInv, TypeOK
  <1>1. UNCHANGED <<capacity, cell, txt, answer>>
    BY DEF Next, Step, Receive, Manage, Quiesce, Admin, KeyAdmin, ZoneAdmin, CreateKey, DeleteKey,
           SetKeySecret, BindKey, UnbindKey, CreateZone, DeleteZone, SetZoneDebug, storeVars, handlerVars
  <1>2. \A z \in ZoneNames : zones'[z] # NoZone =>
          \/ zones[z] # NoZone /\ zones'[z].answers = zones[z].answers
          \/ zones'[z].answers = NilSlice
    <2>1. CASE UNCHANGED zones
      BY <2>1
    <2>2. CASE \E z \in ZoneNames : ZoneAdmin(z)
      BY <2>2 DEF ZoneAdmin, CreateZone, DeleteZone, SetZoneDebug, NewZone, StoreTypeOK, Zone
    <2>3. UNCHANGED zones \/ \E z \in ZoneNames : ZoneAdmin(z)
      BY DEF Next, Step, Receive, Manage, Quiesce, Admin, KeyAdmin, CreateKey, DeleteKey,
             SetKeySecret, BindKey, UnbindKey, storeVars
    <2> QED
      BY <2>1, <2>2, <2>3
  <1>3. \A g \in Handlers : req'[g] = req[g] \/ (txt[g] = NilSlice /\ answer[g] = <<>>)
    <2>1. CASE UNCHANGED req
      BY <2>1
    <2>2. CASE \E h \in Handlers, r \in Requests : Receive(h, r)
      BY <2>2 DEF Receive, Window, IdleWindow, HandlerTypeOK
    <2>3. UNCHANGED req \/ \E h \in Handlers, r \in Requests : Receive(h, r)
      BY ServerAssumption DEF Next, Step, Manage, Quiesce, handlerVars
    <2> QED
      BY <2>1, <2>2, <2>3
  <1>4. Isolated'
    BY <1>1, <1>2, <1>3 DEF Isolated, ZonesApart, HandlersAtZone, HandlersApart, SharesArray, NilSlice
  <1>5. ASSUME NEW z \in ZoneNames PROVE ZoneFrom(z)'
    <2>1. submitted[z] \subseteq submitted'[z]
      BY SubmittedGrows
    <2> QED
      BY <1>1, <1>2, <2>1 DEF Provenance, ZoneFrom, SliceFrom, NilSlice
  <1>6. ASSUME NEW g \in Handlers PROVE HandlerFrom(g)'
    <2>1. CASE req'[g] = req[g]
      BY <1>1, <2>1, ProvenanceKeeps
    <2>2. CASE txt[g] = NilSlice /\ answer[g] = <<>>
      BY <1>1, <2>2 DEF HandlerFrom, SliceFrom, NilSlice
    <2> QED
      BY <1>3, <2>1, <2>2
  <1> QED
    BY <1>4, <1>5, <1>6 DEF Provenance

LEMMA InvInit == Init => Inv
  BY TypeInit, WindowInit, HeapInit DEF Inv

LEMMA InvNext == Inv /\ [Next]_vars => Inv'
  <1> SUFFICES ASSUME Inv, [Next]_vars PROVE Inv'
    OBVIOUS
  <1>1. TypeInv' /\ Window'
    BY TypeNext, WindowNext DEF Inv
  <1>2. CASE Next
    <2>1. CASE \E h \in Handlers : Serve(h)
      BY <1>1, <1>2, <2>1, IsolatedServe, ProvenanceServe DEF Inv
    <2>2. CASE ~\E h \in Handlers : Serve(h)
      BY <1>1, <1>2, <2>2, HeapOther DEF Inv
    <2> QED
      BY <2>1, <2>2
  <1>3. CASE UNCHANGED vars
    BY <1>1, <1>3 DEF Inv, Isolated, ZonesApart, HandlersAtZone, HandlersApart, SharesArray, Provenance,
       ZoneFrom, HandlerFrom, SliceFrom, vars, storeVars, handlerVars, historyVars
  <1> QED
    BY <1>2, <1>3

LEMMA Invariance == Spec => []Inv
  BY InvInit, InvNext, PTL DEF Spec

\* No array ever serves two zones, whatever copies the handlers hold: an
\* in-place append can only be seen in the zone it is meant for.
THEOREM ZonesIsolated == Spec => []ZoneIsolation
  <1>1. Inv => ZoneIsolation
    <2> SUFFICES ASSUME Inv, NEW y \in ZoneNames, NEW z \in ZoneNames, y # z,
                        NEW a \in Held(y), a \in Held(z)
                 PROVE  FALSE
      BY DEF ZoneIsolation
    <2> USE DEF Inv, Isolated, SharesArray
    <2>1. a # NilArray
      BY DEF Held
    <2>2. \/ zones[y] # NoZone /\ zones[y].answers.arr = a
          \/ \E h \in Handlers : txt[h].arr = a /\ req[h].lookup = y
      BY DEF Held
    <2>3. \/ zones[z] # NoZone /\ zones[z].answers.arr = a
          \/ \E h \in Handlers : txt[h].arr = a /\ req[h].lookup = z
      BY DEF Held
    <2> QED
      BY <2>1, <2>2, <2>3 DEF ZonesApart, HandlersAtZone, HandlersApart
  <1> QED
    BY <1>1, Invariance, PTL

\* Whatever a zone shows, and whatever a TXT response has collected, was sent
\* in an update authorised for that zone.
THEOREM AnswersProvenance == Spec => []AnswersSubmitted
  <1>1. Inv => AnswersSubmitted
    <2> SUFFICES ASSUME Inv PROVE AnswersSubmitted
      OBVIOUS
    <2>1. ASSUME NEW z \in ZoneNames, zones[z] # NoZone PROVE AnswerSet(z) \subseteq submitted[z]
      BY <2>1 DEF Inv, Provenance, ZoneFrom, SliceFrom, AnswerSet
    <2>2. ASSUME NEW h \in Handlers, NEW i \in DOMAIN answer[h]
          PROVE  answer[h][i] \in submitted[req[h].lookup]
      BY <2>2 DEF Inv, Provenance, HandlerFrom
    <2> QED
      BY <2>1, <2>2 DEF AnswersSubmitted
  <1> QED
    BY <1>1, Invariance, PTL
-----------------------------------------------------------------------------
(* Who changes what a zone shows.                                          *)

WritesTo(h, z) ==
  /\ pc[h] = "records" /\ <<pc, txt, reply>>' # <<pc, txt, reply>>
  /\ req[h].exact = z /\ matched[h] /\ bound[h]

\* What a zone shows depends on its serial, its slice and the cells of it.
LEMMA ShowsSame ==
  ASSUME NEW z \in ZoneNames, zones'[z].serial = zones[z].serial, zones'[z].answers = zones[z].answers,
         \A i \in 1..zones[z].answers.len :
           cell'[zones[z].answers.arr][i] = cell[zones[z].answers.arr][i]
  PROVE  Shows(z)' = Shows(z)
  BY DEF Shows, Contents

\* An append shows only in the zone of the handler that makes it.
LEMMA AppendShows ==
  ASSUME Inv, NEW h \in Handlers, NEW v \in Values, NEW t \in Slice, AppendsTo(h, v, t),
         NEW z \in ZoneNames, zones[z] # NoZone, Shows(z)' # Shows(z)
  PROVE  WritesTo(h, z)
  <1> DEFINE s == zones[z].answers
  <1>1. zones' = zones /\ txt' = [txt EXCEPT ![h] = t] /\ pc[h] = "records"
    BY DEF AppendsTo
  <1>2. TypeInv /\ txt[h] \in Slice /\ s \in Slice /\ SliceOK(s) /\ txt \in [Handlers -> Slice]
    BY StoreAssumption DEF Inv, TypeInv, TypeOK, HandlerTypeOK, StoreTypeOK, SlicesOK, Zone
  <1>3. PICK i \in 1..s.len : cell'[s.arr][i] # cell[s.arr][i]
    BY <1>1, ShowsSame
  <1>4. s.arr \in Arrays /\ i \in Index
    BY <1>2, <1>3, StoreAssumption DEF Slice, SliceOK, Index
  <1>5. s.arr \in InUse
    BY DEF InUse, StoredArrays
  <1>w. \/ t.arr = txt[h].arr /\ t.arr \in Arrays /\ t.len = txt[h].len + 1
            /\ \A a \in Arrays, j \in Index :
                 cell'[a][j] = IF a = t.arr /\ j = t.len THEN v ELSE cell[a][j]
        \/ t.arr \in Arrays /\ t.arr \notin InUse /\ t.len = txt[h].len + 1
            /\ \A a \in Arrays \ {t.arr}, j \in Index : cell'[a][j] = cell[a][j]
    BY <1>2, AppendWrites
  <1> HIDE DEF s
  <1>6. s.arr = txt[h].arr /\ t.len = txt[h].len + 1
    BY <1>3, <1>4, <1>5, <1>w
  <1>7. SharesArray(s, txt[h])
    BY <1>4, <1>6, StoreAssumption DEF SharesArray
  <1>8. req[h].lookup = z
    BY <1>7 DEF Inv, Isolated, HandlersAtZone, s
  <1>9. txt'[h] = t /\ t # txt[h]
    <2>1. txt[h].len + 1 # txt[h].len
      BY <1>2, StoreAssumption DEF Slice
    <2> QED
      BY <1>1, <1>2, <1>6, <2>1
  <1>10. req[h].lookup = req[h].exact /\ matched[h] /\ bound[h]
    BY <1>1, WritesItsZone
  <1> QED
    BY <1>1, <1>8, <1>9, <1>10 DEF WritesTo

\* A handler's step that changes what a zone shows writes to it.
LEMMA ServeShows ==
  ASSUME Inv, NEW h \in Handlers, Serve(h),
         NEW z \in ZoneNames, zones[z] # NoZone, Shows(z)' # Shows(z)
  PROVE  WritesTo(h, z)
  <1>1. CASE UNCHANGED storeVars
    BY <1>1, ShowsSame DEF storeVars
  <1>2. CASE Stores(h)
    <2>1. cell' = cell /\ \A y \in ZoneNames \ {req[h].exact} : zones'[y] = zones[y]
      BY <1>2, StoreEffect
    <2>2. z = req[h].exact
      BY <2>1, ShowsSame
    <2>3. pc[h] = "records" /\ pc'[h] # "records"
      BY <1>2 DEF Stores
    <2>4. matched[h] /\ bound[h]
      BY <2>3, WritesItsZone
    <2> QED
      BY <2>2, <2>3, <2>4 DEF WritesTo
  <1>3. CASE \E t \in Slice, v \in Values : AppendsTo(h, v, t)
    BY <1>3, AppendShows
  <1>4. TypeInv
    BY DEF Inv
  <1>5. UNCHANGED storeVars \/ Stores(h) \/ \E t \in Slice, v \in Values : AppendsTo(h, v, t)
    BY <1>4, Effects DEF Rests, Loads, Empties, Finishes, ReadsOne
  <1> QED
    BY <1>1, <1>2, <1>3, <1>5

\* Management creates and deletes zones but never changes what one shows.
LEMMA OtherShows ==
  ASSUME Inv, Next, ~\E h \in Handlers : Serve(h),
         NEW z \in ZoneNames, zones[z] # NoZone, zones'[z] # NoZone
  PROVE  Shows(z)' = Shows(z)
  <1>1. zones[z] \in Zone /\ zones \in [ZoneNames -> Zone \cup {NoZone}]
    BY DEF Inv, TypeInv, TypeOK, StoreTypeOK
  <1>2. cell' = cell
    BY DEF Next, Step, Receive, Manage, Quiesce, Admin, KeyAdmin, ZoneAdmin, CreateKey, DeleteKey,
           SetKeySecret, BindKey, UnbindKey, CreateZone, DeleteZone, SetZoneDebug, storeVars
  <1>3. CASE UNCHANGED zones
    BY <1>2, <1>3, ShowsSame
  <1>4. ASSUME NEW y \in ZoneNames, ZoneAdmin(y)
        PROVE  zones'[z].serial = zones[z].serial /\ zones'[z].answers = zones[z].answers
    BY <1>1, <1>4 DEF ZoneAdmin, CreateZone, DeleteZone, SetZoneDebug, Zone
  <1>5. UNCHANGED zones \/ \E y \in ZoneNames : ZoneAdmin(y)
    BY DEF Next, Step, Receive, Manage, Quiesce, Admin, KeyAdmin, CreateKey, DeleteKey,
           SetKeySecret, BindKey, UnbindKey, storeVars
  <1> QED
    BY <1>2, <1>3, <1>4, <1>5, ShowsSame

\* What a zone shows is changed only on behalf of a request whose signature
\* and binding were good at some moment since it was received.
THEOREM WritesAuthorised == Spec => AuthorisedWrites
  <1> DEFINE Allowed == \A z \in ZoneNames :
               zones[z] # NoZone /\ zones'[z] # NoZone /\ Shows(z)' # Shows(z) =>
                 \E h \in Handlers :
                   /\ pc[h] = "records" /\ <<pc, txt, reply>>' # <<pc, txt, reply>>
                   /\ req[h].exact = z /\ matched[h] /\ bound[h]
  <1>1. Inv /\ [Next]_vars => [Allowed]_vars
    <2> SUFFICES ASSUME Inv, Next, NEW z \in ZoneNames, zones[z] # NoZone, zones'[z] # NoZone,
                        Shows(z)' # Shows(z)
                 PROVE  \E h \in Handlers : WritesTo(h, z)
      BY DEF WritesTo
    <2>1. \E h \in Handlers : Serve(h)
      BY OtherShows
    <2> QED
      BY <2>1, ServeShows
  <1>2. Spec => [][Allowed]_vars
    BY <1>1, Invariance, PTL DEF Spec
  <1> QED
    BY <1>2 DEF AuthorisedWrites
=============================================================================
