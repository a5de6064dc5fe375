----------------------------- MODULE DnsServer ------------------------------
(***************************************************************************)
(* The request handlers of core/server.go and core/tsig.go over the        *)
(* in-memory backend.  Each request is served by a goroutine of its own;   *)
(* a handler is such a goroutine, and a step of it is one backend call or  *)
(* one access to the shared backing array of a zone's answers.             *)
(*                                                                         *)
(* An UPDATE runs tsigProvider.Verify (GetKey), getZone, GetKey again, the *)
(* loop over the update records, SetZone and, when the response carries a  *)
(* TSIG, tsigProvider.Generate (a third GetKey).  Nothing is held between  *)
(* these steps: other handlers and the administrator interleave freely.    *)
(***************************************************************************)
EXTENDS InMemory

CONSTANTS
  Handlers,     \* bound: requests in flight
  Requests,     \* the messages clients may send
  Serves,       \* bound: which messages each handler may pick up
  MaxRequests,  \* bound: messages picked up in a behaviour
  NoRequest, NoTsig, NoName

VARIABLES
  received,  \* messages picked up so far (only for MaxRequests)
  pc,        \* where each handler is
  req,       \* the message it serves
  txt,       \* its txtValues / the answers of its copy of the zone
  next,      \* index of the next record or answer
  answer,    \* TXT strings of the response being built
  reply,     \* [rcode, tsig]: code of the response and whether it carries a TSIG
  (* History variables: they restrict nothing.                             *)
  matched,   \* since reception, the key has at some moment had the secret of the request
  bound,     \* since reception, the key has at some moment been bound to the zone
  submitted, \* per zone, the values it started with and those of authorised updates
  acked,     \* <<zone, value>>: appends acknowledged and not cleared since
  snapshot   \* {the list a query found when it looked up the zone}, or {} once a zone
             \* may be cleared meanwhile

handlerVars == <<pc, req, txt, next, answer, reply>>
windowVars  == <<matched, bound>>
historyVars == <<submitted, acked, snapshot>>
vars == <<storeVars, received, handlerVars, windowVars, historyVars>>

Steps == {"idle", "verify", "zone", "key", "records", "query", "read", "respond"}
Rcodes == {"NOERROR", "FORMERR", "SERVFAIL", "NOTIMP", "REFUSED", "NOTAUTH"}
NoReply == [rcode |-> "NOERROR", tsig |-> FALSE]

(***************************************************************************)
(* A message.  Names are compared in three ways by the code: "lookup" is   *)
(* the lower-cased name without "_acme-challenge." that getZone asks for   *)
(* (NoName without that prefix), "exact" the name, case kept, that the     *)
(* authorisation check and SetZone use.  A TSIG carries the key name, the  *)
(* secret the client signed with and whether the server supports its       *)
(* algorithm.  An update record either clears the RRset (TXT without       *)
(* data), appends a value, names another owner, or is not a TXT record.    *)
(* The class of a record is not looked at: "remove" is a TXT with data and *)
(* class NONE, which RFC 2136 defines as the deletion of that value.       *)
(***************************************************************************)
UpdateRecord == [op : {"clear", "append", "remove", "outOfZone", "notTxt"}, value : Values]
Tsig == [key : KeyNames, secret : Secrets, supported : BOOLEAN]
Request == [kind : {"update", "query", "other"}, single : BOOLEAN, qtype : {"TXT", "other"},
            lookup : ZoneNames \cup {NoName}, exact : ZoneNames \cup {NoName},
            tsig : Tsig \cup {NoTsig}, records : Seq(UpdateRecord)]

ASSUME ServerAssumption ==
  /\ NoName \notin ZoneNames
  /\ NoRequest \notin Request
  /\ NoTsig \notin Tsig
  /\ Requests \subseteq Request
  /\ Serves \in [Handlers -> SUBSET Requests]
  /\ MaxRequests \in Nat

\* Zones are stored, and keys bound, under canonical (lower-case) names.
ASSUME CanonicalNames ==
  \A r \in Requests : r.exact \in ZoneNames => r.lookup = r.exact

Signed(r) == r.tsig # NoTsig

\* tsigProvider.hmacVerify with the secret now stored for the key.
SecretMatches(r) ==
  /\ Signed(r)
  /\ HasKey(r.tsig.key)
  /\ r.tsig.supported
  /\ keys[r.tsig.key].secret = r.tsig.secret

\* slices.Contains(key.Zones, name).
KeyHasZone(r) == r.exact \in keys[r.tsig.key].zones

Appends(r) == {r.records[i].value : i \in {j \in DOMAIN r.records : r.records[j].op \in {"append", "remove"}}}
Clears(r)  == \E i \in DOMAIN r.records : r.records[i].op = "clear"

ClearInFlight == \E h \in Handlers : pc[h] # "idle" /\ Clears(req[h])

\* The values a successful update asks for: those after its last clear.
Wanted(r) == {r.records[i].value : i \in
                {j \in DOMAIN r.records : r.records[j].op = "append"
                   /\ \A k \in DOMAIN r.records : k > j => r.records[k].op # "clear"}}

\* The arrays the garbage collector must keep.
InUse == StoredArrays \cup {txt[h].arr : h \in Handlers}

-----------------------------------------------------------------------------
Init ==
  /\ StoreInit
  /\ received = 0
  /\ pc = [h \in Handlers |-> "idle"]
  /\ req = [h \in Handlers |-> NoRequest]
  /\ txt = [h \in Handlers |-> NilSlice]
  /\ next = [h \in Handlers |-> 1]
  /\ answer = [h \in Handlers |-> <<>>]
  /\ reply = [h \in Handlers |-> NoReply]
  /\ matched = [h \in Handlers |-> FALSE]
  /\ bound = [h \in Handlers |-> FALSE]
  /\ submitted = [z \in ZoneNames |-> IF zones[z] = NoZone THEN {} ELSE AnswerSet(z)]
  /\ acked = {}
  /\ snapshot = [h \in Handlers |-> {}]

Goto(h, step) == pc' = [pc EXCEPT ![h] = step]

\* The handler builds its response: SetRcode and, with tsig, response.Extra.
Reply(h, rcode, tsig) ==
  /\ Goto(h, "respond")
  /\ reply' = [reply EXCEPT ![h] = [rcode |-> rcode, tsig |-> tsig]]

\* The library reads a message, verifies its TSIG if it has one, and calls ServeDNS.
Receive(h, r) ==
  /\ pc[h] = "idle"
  /\ received < MaxRequests
  /\ received' = received + 1
  /\ req' = [req EXCEPT ![h] = r]
  /\ Goto(h, IF Signed(r) THEN "verify"
             ELSE IF r.kind = "query" THEN "query" ELSE "zone")
  /\ acked' = IF Clears(r) THEN {p \in acked : p[1] # r.exact} ELSE acked
  /\ snapshot' = IF Clears(r) THEN [g \in Handlers |-> {}] ELSE snapshot
  /\ UNCHANGED <<storeVars, txt, next, answer, reply, submitted>>

\* Mutant of Verify: the outcome of the verification is ignored.
Verify_Ignored(h) ==
  /\ pc[h] = "verify"
  /\ Goto(h, IF req[h].kind = "query" THEN "query" ELSE "zone")
  /\ UNCHANGED <<reply, storeVars, received, req, txt, next, answer, historyVars>>

\* tsigProvider.Verify.  Only serveUpdate looks at the outcome; it answers an
\* update that failed without a TSIG, after the check of the question.
Verify(h) ==
  LET r == req[h] IN
  /\ pc[h] = "verify"
  /\ \/ r.kind = "update" /\ r.single /\ ~SecretMatches(r) /\ Reply(h, "NOTAUTH", FALSE)
     \/ /\ r.kind = "update" => ~r.single \/ SecretMatches(r)
        /\ Goto(h, IF r.kind = "query" THEN "query" ELSE "zone")
        /\ UNCHANGED reply
  /\ UNCHANGED <<storeVars, received, req, txt, next, answer, historyVars>>

\* ServeDNS and serveUpdate up to and including getZone.
LookupZone(h) ==
  LET r == req[h] IN
  /\ pc[h] = "zone"
  /\ \/ r.kind = "other" /\ Reply(h, "NOTIMP", FALSE) /\ UNCHANGED txt
     \/ r.kind = "update" /\ ~r.single /\ Reply(h, "FORMERR", FALSE) /\ UNCHANGED txt
     \/ /\ r.kind = "update" /\ r.single /\ ~Signed(r)
        /\ Reply(h, "NOTAUTH", FALSE) /\ UNCHANGED txt
     \/ /\ r.kind = "update" /\ r.single /\ Signed(r)
        /\ IF HasZone(r.lookup)
             THEN /\ Goto(h, "key")
                  /\ txt' = [txt EXCEPT ![h] = zones[r.lookup].answers]
                  /\ UNCHANGED reply
             ELSE Reply(h, "NOTAUTH", TRUE) /\ UNCHANGED txt
  /\ UNCHANGED <<storeVars, received, req, next, answer, historyVars>>

\* serveUpdate: GetKey and the check that the key is bound to the zone.
Authorise(h) ==
  LET r == req[h] IN
  /\ pc[h] = "key"
  /\ IF HasKey(r.tsig.key) /\ KeyHasZone(r)
       THEN /\ Goto(h, "records")
            /\ submitted' = [submitted EXCEPT ![r.exact] = @ \cup Appends(r)]
            /\ UNCHANGED reply
       ELSE Reply(h, "NOTAUTH", TRUE) /\ UNCHANGED submitted
  /\ UNCHANGED <<storeVars, received, req, txt, next, answer, acked, snapshot>>

\* One turn of the loop over msg.Ns.  txtValues[:0] keeps the backing array,
\* so a later append may write a cell that the stored zone still shows.
ClearRecord(h) ==
  /\ txt' = [txt EXCEPT ![h].len = 0]
  /\ next' = [next EXCEPT ![h] = @ + 1]
  /\ UNCHANGED <<capacity, cell, pc, reply>>

AppendRecord(h) ==
  /\ \E t \in Slice :
       /\ GoAppend(txt[h], req[h].records[next[h]].value, t, InUse)
       /\ txt' = [txt EXCEPT ![h] = t]
  /\ next' = [next EXCEPT ![h] = @ + 1]
  /\ UNCHANGED <<pc, reply>>

\* Mutants of RefuseRecord: a refused update is answered as a success; the
\* loop is left by a break, so that the records before the bad one are stored.
RefuseRecord_Success(h, rcode) ==
  /\ Reply(h, "NOERROR", TRUE)
  /\ UNCHANGED <<capacity, cell, txt, next>>

RefuseRecord_Break(h, rcode) ==
  /\ next' = [next EXCEPT ![h] = Len(req[h].records) + 1]
  /\ UNCHANGED <<capacity, cell, txt, pc, reply>>

RefuseRecord(h, rcode) ==
  /\ Reply(h, rcode, TRUE)
  /\ UNCHANGED <<capacity, cell, txt, next>>

ApplyRecord(h) ==
  /\ pc[h] = "records"
  /\ next[h] <= Len(req[h].records)
  /\ LET op == req[h].records[next[h]].op IN
       \/ op = "clear" /\ ClearRecord(h)
       \/ op \in {"append", "remove"} /\ AppendRecord(h)
       \/ op = "outOfZone" /\ RefuseRecord(h, "NOTAUTH")
       \/ op = "notTxt" /\ RefuseRecord(h, "REFUSED")
  /\ UNCHANGED <<keys, zones, received, req, answer, historyVars>>

\* Mutant of StoreZone: the values go to every zone the key is bound to.
StoreZone_KeyZones(h) ==
  /\ pc[h] = "records"
  /\ next[h] > Len(req[h].records)
  /\ HasKey(req[h].tsig.key)
  /\ zones' = [z \in ZoneNames |->
                 IF z \in keys[req[h].tsig.key].zones /\ HasZone(z)
                   THEN [zones[z] EXCEPT !.answers = txt[h]] ELSE zones[z]]
  /\ Reply(h, "NOERROR", TRUE)
  /\ UNCHANGED <<keys, capacity, cell, received, req, txt, next, answer, historyVars>>

\* serveUpdate: SetZone and the response.
StoreZone(h) ==
  /\ pc[h] = "records"
  /\ next[h] > Len(req[h].records)
  /\ \/ SetZone(req[h].exact, txt[h]) /\ Reply(h, "NOERROR", TRUE)
     \/ ~HasZone(req[h].exact) /\ Reply(h, "SERVFAIL", TRUE) /\ UNCHANGED storeVars
  /\ UNCHANGED <<received, req, txt, next, answer, historyVars>>

\* serveQuery up to the switch over the question type.
QueryZone(h) ==
  LET r == req[h] IN
  /\ pc[h] = "query"
  /\ \/ ~r.single /\ Reply(h, "FORMERR", Signed(r)) /\ UNCHANGED <<txt, snapshot>>
     \/ /\ r.single /\ ~HasZone(r.lookup)
        /\ Reply(h, "REFUSED", Signed(r)) /\ UNCHANGED <<txt, snapshot>>
     \/ /\ r.single /\ HasZone(r.lookup)
        /\ txt' = [txt EXCEPT ![h] = zones[r.lookup].answers]
        /\ snapshot' = [snapshot EXCEPT ![h] =
                           IF ClearInFlight THEN {} ELSE {Answers(r.lookup)}]
        /\ IF r.qtype = "TXT" THEN Goto(h, "read") /\ UNCHANGED reply
                              ELSE Reply(h, "NOERROR", Signed(r))
  /\ UNCHANGED <<storeVars, received, req, next, answer, submitted, acked>>

\* Mutants of ReadAnswer: the loop runs one cell too far; it looks at the
\* stored zone again instead of the copy.
ReadAnswer_TooFar(h) ==
  /\ pc[h] = "read"
  /\ IF next[h] <= txt[h].len + 1 /\ txt[h].len < Cap(txt[h])
       THEN /\ answer' = [answer EXCEPT ![h] = Append(@, cell[txt[h].arr][next[h]])]
            /\ next' = [next EXCEPT ![h] = @ + 1]
            /\ UNCHANGED <<pc, reply>>
       ELSE Reply(h, "NOERROR", Signed(req[h])) /\ UNCHANGED <<answer, next>>
  /\ UNCHANGED <<storeVars, received, req, txt, historyVars>>

ReadAnswer_Live(h) ==
  LET list == zones[req[h].lookup].answers IN
  /\ pc[h] = "read"
  /\ IF next[h] <= list.len
       THEN /\ answer' = [answer EXCEPT ![h] = Append(@, cell[list.arr][next[h]])]
            /\ next' = [next EXCEPT ![h] = @ + 1]
            /\ UNCHANGED <<pc, reply>>
       ELSE Reply(h, "NOERROR", Signed(req[h])) /\ UNCHANGED <<answer, next>>
  /\ UNCHANGED <<storeVars, received, req, txt, historyVars>>

\* serveQuery: the loop over the answers reads the shared array cell by cell.
ReadAnswer(h) ==
  /\ pc[h] = "read"
  /\ IF next[h] <= txt[h].len
       THEN /\ answer' = [answer EXCEPT ![h] = Append(@, cell[txt[h].arr][next[h]])]
            /\ next' = [next EXCEPT ![h] = @ + 1]
            /\ UNCHANGED <<pc, reply>>
       ELSE Reply(h, "NOERROR", Signed(req[h])) /\ UNCHANGED <<answer, next>>
  /\ UNCHANGED <<storeVars, received, req, txt, historyVars>>

\* writer.WriteMsg: a response with a TSIG is signed by tsigProvider.Generate
\* with the secret stored now; without the key or with an algorithm the server
\* does not know nothing is sent.
Sent(h)      == reply[h].tsig => HasKey(req[h].tsig.key) /\ req[h].tsig.supported
Delivered(h) == Sent(h) /\ (reply[h].tsig => keys[req[h].tsig.key].secret = req[h].tsig.secret)

\* Mutant of Respond: the handler waits until the response can be signed.
Respond_Waits(h) ==
  /\ pc[h] = "respond"
  /\ Sent(h)
  /\ Goto(h, "idle")
  /\ req' = [req EXCEPT ![h] = NoRequest]
  /\ txt' = [txt EXCEPT ![h] = NilSlice]
  /\ next' = [next EXCEPT ![h] = 1]
  /\ answer' = [answer EXCEPT ![h] = <<>>]
  /\ reply' = [reply EXCEPT ![h] = NoReply]
  /\ UNCHANGED <<storeVars, received, historyVars>>

Respond(h) ==
  /\ pc[h] = "respond"
  /\ acked' = IF req[h].kind = "update" /\ reply[h].rcode = "NOERROR" /\ Delivered(h)
                THEN acked \cup {<<req[h].exact, v>> : v \in Wanted(req[h])} ELSE acked
  /\ Goto(h, "idle")
  /\ req' = [req EXCEPT ![h] = NoRequest]
  /\ txt' = [txt EXCEPT ![h] = NilSlice]
  /\ next' = [next EXCEPT ![h] = 1]
  /\ answer' = [answer EXCEPT ![h] = <<>>]
  /\ reply' = [reply EXCEPT ![h] = NoReply]
  /\ snapshot' = [snapshot EXCEPT ![h] = {}]
  /\ UNCHANGED <<storeVars, received, submitted>>

Serve(h) ==
  \/ Verify(h) \/ LookupZone(h) \/ Authorise(h) \/ ApplyRecord(h) \/ StoreZone(h)
  \/ QueryZone(h) \/ ReadAnswer(h) \/ Respond(h)

Manage == Admin /\ UNCHANGED <<received, handlerVars, historyVars>>
\* Everything requested has been served; only the bound stops the system here.
Quiesce ==
  /\ received = MaxRequests
  /\ \A h \in Handlers : pc[h] = "idle"
  /\ UNCHANGED <<storeVars, received, handlerVars, historyVars>>

\* History of the request window, observed in every state after reception.
Watch ==
  /\ matched' = [h \in Handlers |-> pc'[h] # "idle" /\ (matched[h] \/ SecretMatches(req[h])')]
  /\ bound' = [h \in Handlers |-> pc'[h] # "idle" /\ (bound[h] \/
                 (Signed(req[h]) /\ HasKey(req[h].tsig.key) /\ KeyHasZone(req[h]))')]

Step(h) == Serve(h) /\ Watch

Next ==
  \/ \E h \in Handlers : \E r \in Serves[h] : Receive(h, r) /\ Watch
  \/ \E h \in Handlers : Step(h)
  \/ Manage /\ Watch
  \/ Quiesce /\ Watch

Spec == Init /\ [][Next]_vars

\* The Go scheduler runs every goroutine that can run; clients and the
\* administrator owe nothing.
Fairness == \A h \in Handlers : WF_vars(Step(h))
FairSpec == Spec /\ Fairness

-----------------------------------------------------------------------------
(* Properties.                                                             *)

HandlerTypeOK ==
  /\ pc \in [Handlers -> Steps]
  /\ req \in [Handlers -> Requests \cup {NoRequest}]
  /\ txt \in [Handlers -> Slice]
  /\ next \in [Handlers -> Nat \ {0}]
  /\ answer \in [Handlers -> Seq(Values \cup {Blank})]
  /\ reply \in [Handlers -> [rcode : Rcodes, tsig : BOOLEAN]]
  /\ \A h \in Handlers : pc[h] = "idle" <=> req[h] = NoRequest

HistoryTypeOK ==
  /\ received \in 0..MaxRequests
  /\ matched \in [Handlers -> BOOLEAN]
  /\ bound \in [Handlers -> BOOLEAN]
  /\ submitted \in [ZoneNames -> SUBSET Values]
  /\ acked \subseteq ((ZoneNames \cup {NoName}) \X Values)

TypeOK == StoreTypeOK /\ HandlerTypeOK /\ HistoryTypeOK

\* The arrays in use for zone z: its own and those of handlers serving it.
Held(z) ==
  ({zones[y].answers.arr : y \in {x \in ZoneNames : x = z /\ zones[x] # NoZone}}
     \cup {txt[h].arr : h \in {g \in Handlers : pc[g] # "idle" /\ req[g].lookup = z}})
  \ {NilArray}

\* GetZone hands out the stored array and the handler writes into it, but
\* never does an array serve two zones: what is written while one zone is
\* updated cannot show in another (core/server.go:239-271).
ZoneIsolation ==
  \A y, z \in ZoneNames : y # z => Held(y) \cap Held(z) = {}

\* A zone, and every answer already read for a TXT response, consists of
\* values the zone was configured with or that were sent in updates which passed
\* the authorisation for that very zone, although two handlers may append into
\* the same spare cell and a list is read while its array is written
\* (core/server.go:239-271,334).
AnswersSubmitted ==
  /\ \A z \in ZoneNames : zones[z] # NoZone => AnswerSet(z) \subseteq submitted[z]
  /\ \A h \in Handlers : pc[h] # "idle" =>
       \A i \in DOMAIN answer[h] : answer[h][i] \in submitted[req[h].lookup]

Shows(z) == <<zones[z].serial, Contents(zones[z].answers)>>

\* What an existing zone shows changes only by the step of a handler whose
\* request was signed with the secret its key had, for a zone its key was
\* bound to, at some moment since the request was received: three separate
\* GetKey calls (core/tsig.go:28,38, core/server.go:214) decide about one
\* update while the administrator rotates, unbinds and deletes.
AuthorisedWrites ==
  [][\A z \in ZoneNames :
       zones[z] # NoZone /\ zones'[z] # NoZone /\ Shows(z)' # Shows(z) =>
         \E h \in Handlers :
           /\ pc[h] = "records" /\ <<pc, txt, reply>>' # <<pc, txt, reply>>
           /\ req[h].exact = z /\ matched[h] /\ bound[h]]_vars

\* With one update at a time, an acknowledged append stays visible until an
\* update that clears the zone is received (core/server.go:265-283).
AcknowledgedAppendsVisible ==
  \A p \in acked : zones[p[1]] # NoZone => p[2] \in AnswerSet(p[1])

\* With one update at a time and none that clears, a TXT response is the list
\* the zone held when the query looked it up, although its strings are read
\* one by one from the stored array (core/server.go:301,334).
SnapshotReads ==
  \A h \in Handlers :
    pc[h] = "respond" /\ req[h].kind = "query" /\ req[h].qtype = "TXT"
      /\ reply[h].rcode = "NOERROR" => snapshot[h] \in {{}, {answer[h]}}

\* The serial changes whenever the challenge list does
\* (backend/kubernetes/manifests/02_crd.yml:29, backend/provider.go:34).
SerialTracksAnswers ==
  [][\A z \in ZoneNames :
       zones[z] # NoZone /\ zones'[z] # NoZone /\ Answers(z)' # Answers(z) =>
         zones'[z].serial # zones[z].serial]_vars

\* Every request that is picked up is finished, whatever the other handlers
\* and the administrator do: no backend call waits on another handler.
RequestsFinish == \A h \in Handlers : pc[h] # "idle" ~> pc[h] = "idle"

\* What an instance has to be like for the properties above that are about one
\* update at a time: only one handler is given updates; no update names a value
\* to remove; the administrator creates no zones, or deletes none either.
OneUpdater ==
  \A g, h \in Handlers :
    (\E r \in Serves[g] : r.kind = "update") /\ (\E r \in Serves[h] : r.kind = "update") => g = h

NoRemovals ==
  \A r \in Requests : r.kind = "update" =>
    \A i \in DOMAIN r.records : r.records[i].op # "remove"

NoNewZones == "CreateZone" \notin AdminOps
ZonesStay  == NoNewZones /\ "DeleteZone" \notin AdminOps

\* Absence is no entry of the promised book either.
ASSUME BookAssumption ==
  NoZone \notin [serial : 0..(SerialModulus - 1), answers : Seq(Values \cup {Blank})]

Zones == INSTANCE ChallengeZones WITH
  Updates <- {r \in Requests : r.kind = "update"},
  book <- [z \in ZoneNames |-> IF zones[z] = NoZone THEN NoZone
             ELSE [serial |-> zones[z].serial, answers |-> Answers(z)]]

\* With one updater, no removals and zones that stay, the copying of the
\* handlers, their in-place appends and their early refusals amount to what
\* ChallengeZones says: the records of an update take effect at once and with one
\* step of the serial, or none does; only one that appends after a clear, as
\* docs/acme-clients/nsupdate.md:11-12 shows, may replace entries beforehand.
ImplementsZones == Zones!Spec
=============================================================================
