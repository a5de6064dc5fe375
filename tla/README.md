# DNS4ACME: a verification project

DNS4ACME is an authoritative DNS server for `_acme-challenge` names. ACME clients send it
RFC 2136 updates signed with TSIG; it stores the challenge answers in a backend, in memory or as
Kubernetes objects, and answers the TXT queries of the certificate authority.

This directory holds TLA+ modules translated from the Go source, TLC configurations that check
them on small instances, and proofs that TLAPS checks for every instance. `PROJECT.json` lists the
components, the runs, the mutants that show each property can fail, the lines of code every
definition stands for, the findings, the hazards and the theorems.

```
tlc -workers 2 -config DnsServer_shared.cfg MCDnsServer.tla   # any <run>.cfg with its module
tlapm DnsServerProofs.tla                                     # any <component>Proofs.tla
```

## 1. Inventory

| component | state | operations | module |
|---|---|---|---|
| in-memory backend (`backend/inmemory`) | two maps, keys and zones, under one RWMutex | the management of keys and zones, GetKey, GetZone, SetZone, SetZoneDebug | `InMemory` |
| request handlers (`core/server.go`, `core/tsig.go`) | none of their own: a goroutine per message, and its copies of what the backend returned | ServeDNS, serveUpdate, serveQuery, getZone, Verify, Generate | `DnsServer` |
| listeners (`core/server.go`) | per protocol a mutex, a flag, a library server, two channels | Start, onStopped, Stop, shutdownListener | `Listeners` |
| Kubernetes object client (`object_crud.go`, `waiter.go`, `crd_zone.go`) | cache, mutex, three waiters with channels and reference counts | create, delete, get, set, wait, submit, loadAndWatch, onAdd, onUpdate, onDelete, close | `ObjectClient` |
| Kubernetes binding index (`provider.go`) | bindings by key, under a second mutex | BindKey, UnbindKey, the end of GetKey, updateKeyBindingIndex | `KeyBindings` |
| Kubernetes keys and secrets (`provider.go`, `crd_key.go`, `crd_secret.go`) | two more object clients | CreateKey, DeleteKey, SetKeySecret, what GetKey finds in the caches, BuildFull | `KeySecrets` |
| configuration (`internal/config`, `config.go`, `core/config.go`) and program entry (`main.go`, `dns4acme.go`) | the list of options, their values, the position in the words | ApplyDefaults, ApplyEnv, ApplyCMD, seven converters, New, Validate | `Configuration` |
| typed errors and linked list (`lang/E`, `lang`) | none: values | New, Wrap, WithAttr, HasCode, iterate | `Errors` |
| registry, descriptors, tools | tables filled once | look-ups | not modelled |

How they interact. The DNS library (`miekg/dns`) runs `ServeDNS` on a goroutine per message and
calls the TSIG provider before it and when the response is written. The handlers call the backend
through `backend.Provider`; between two calls nothing is held. The Kubernetes provider turns these
calls into reads of four caches and JSON patches of one object each, so that an operation on a key
is several requests. Other replicas, and administrators who apply manifests (`06_domain.yml`), write
the same objects. An informer goroutine feeds each cache from the
watch of the API server and wakes callers through the waiters; the informer of the bindings calls
back into the provider's index. `main` parses the configuration, whose options come from the
structures of the core and of each backend, has a backend built, calls Start and, on a signal, Stop
with a deadline.

Where it is hard, and what makes it correct:

* Handlers. GetZone copies a struct but not the array of its answers; serveUpdate truncates that
  slice in place and appends to it while queries read it. An update is read, edited and stored in
  three calls, and the key is fetched three times while an administrator may rotate, unbind or
  delete it. Correct means: no value shows in a zone for which it was not authorised, no array
  serves two zones, an update is applied as a whole, an acknowledged value stays, a request ends.
* Listeners. Each listener's end shuts the other down, while Start may not have returned and Stop
  may be running. Correct means: Stop returns and leaves nothing running, its errors have a cause,
  both listeners serve or neither.
* Object client. A caller waits for the effect of its own write to come back through a watch that
  may be slow, break, or bring writes of others. Correct means: every call returns, an acknowledged
  write is in the cache, a patch of all fields changes one of them and loses no other replica's
  update, the cache converges.
* Keys and secrets. An operation is up to three requests, each of which may fail, or arrive and not be
  answered; the two caches lag behind independently, and others write keys and secrets as well.
  Correct means: a key made by CreateKey is not seen without its secret, nothing is left behind, key
  and secret are as good as one object.
* Configuration. Three sources, each word converted by the first of seven converters that takes it,
  and errors that decide by their code whether the next one is asked. Correct means: the last word
  about an option wins and means what it says, or the first bad word ends the parsing and is named.
* Binding index. Cache and index change under two mutexes; one operation holds one and waits for
  the other's holder. Correct means: an acknowledged binding authorises, a removed one does not,
  look-ups are answered.

## 2. Modules

### InMemory, DnsServer, ChallengeZones, MCDnsServer, MCDnsServerSerial

`InMemory` has the maps as `keys` and `zones` and, because of the shared slices, Go's arrays as
`capacity` and `cell`: a slice is an array and a length, `GoAppend` is Go's `append` with its doubling
of small arrays. A zone may have answers from the start, in an array of its own that has room for more
(`InitialArrays`, `OwnArray`). Each provider method is one action, since it runs under one mutex. An
array is free when neither a zone nor a handler refers to it.

`DnsServer` extends it with the handlers. One step is one backend call or one access to a shared
array: `Receive`, `Verify` (GetKey), `LookupZone` (getZone), `Authorise` (GetKey), `ApplyRecord`
(once per record), `StoreZone` (SetZone), `QueryZone`, `ReadAnswer` (once per string), `Respond`
(Generate, GetKey). `matched`, `bound`, `submitted`, `acked` and `snapshot` are history variables;
no guard reads them. Messages are records with what the code tells apart: which name it looks up,
which name it authorises, the TSIG, the operation of each record.

Assumption `CanonicalNames`: zones and bindings are stored in lower case. getZone lowers the case
of a name, the authorisation and SetZone do not, so that a mixed-case name is looked up as one zone
and refused as another; that is in the model (`lookup` and `exact`). A zone stored under a
mixed-case name is not.

`ChallengeZones` is the abstract specification: a book of zones to which whole updates are applied
(`ApplyUpdate`). It has one more step, which is no virtue of the code but what it does: an update that
clears and then appends, like that of `docs/acme-clients/nsupdate.md:11-12`, writes its values into
the stored array before SetZone, so that they may show in place of old ones beforehand, also if the
update is then refused (`ShowEarly`). `DnsServer` maps the stored zones to that book (`Zones`), so
that `ImplementsZones` says the handlers do this and no more: not that every update is atomic. Its
`ApplyRecords` gives the list after all records in closed form, which a proof can use; the assumption
`RecordsInTurn` of `MCDnsServer` has TLC compare it, for the updates of the instance, with the records
applied one after the other. `BookAssumption` says that absence is no entry of the book. What is
promised for one update at a time only is promised for instances with `OneUpdater`, `NoRemovals`,
`NoNewZones` and `ZonesStay`; `MCDnsServerSerial` assumes them of the constants of `DnsServer_serial`.

### Listeners

The actors are `main` and the goroutines of the two listeners. The critical sections that do not wait
are single actions; the mutex that shutdownListener holds while `ShutdownContext` waits is a variable.
onStopped has a value receiver, so it sees the listeners created when it is called; the model makes
that copy when the mutex is taken. `Bind`, `LeaveLoop`, `ReturnFromServe` and `Break` are the
library's. The maps of the listeners have no mutex of their own; where two goroutines access them
under different mutexes, `Crash` lets the runtime end the process. `OthersThan(p)` are the listeners
that onStopped shuts down.

### ObjectClient, MCObjectClient

The zones' client against an API server (external: writes to an object are serialised, events arrive
in order, a broken watch is followed by a list). A call is `Begin`, the API request (`CreateObject`,
`GetOriginal`, `DeleteObject`, `PatchObject`), `CheckCondition`, and when it has to wait `WakeUp` or
`TimeOut`. `Deliver` is one callback of the informer. The paths of `wait` that return with the mutex
held, or take it twice, set `leaked`, after which nobody gets the mutex. A channel that is closed
twice, the deletion of an object that is not cached, and a deletion reported as
`DeletedFinalStateUnknown` set `crashed`. Others create, update and delete zones as this client does,
which counts the serial up; and administrators edit `debug` by hand, which leaves the serial as it is,
or apply the manifest again, which sets it to zero (`EditByHand`, `06_domain.yml:6-10`). `manual` is a
history variable that notes for each zone whether that has happened. `phase` is the life of the
informer's goroutine: it has yet to make closeDone ("watch"), has made it ("open"), runs, or has
returned ("ended"). `close` cancels it (`Cancel`) and waits for its end (`AwaitEnd`) if there is a
closeDone; an informer that is cancelled before it runs lists nothing, which is why a close that waits
for nothing is right too.

### KeyBindings, MCKeyBindings

The bindings' client and the provider's index. Here the interplay of two mutexes matters, so that
the callback is three steps: `UpdateCache` takes the client's mutex, `LockIndex` asks for the
index's, `UpdateIndex` gets it once there are no readers, changes the index and wakes the callers.
A writer that waits keeps new readers out, as `sync.RWMutex` does. `Return` includes the deferred
RUnlock of UnbindKey. Names are generated and never used twice, which makes channels and reference
counts unnecessary. `Restart` rebuilds cache and index from a list; the informer lists again later,
and what is deleted in between is never reported. BindKey's early return when the key or the zone is
not cached is a free choice, because those caches belong to other clients.

### KeyBook, KeySecrets, MCKeySecrets

A key is an object that names its secret, which is another object. On the server each is the log of
its versions (`keyLog`, `secretLog`), and the cache of each is a position in that log (`keySeen`,
`secretSeen`) that the informers move on one by one; a wait is a condition on that position, since
how a caller waits is in `ObjectClient`. Each request is one action with its outcomes: it fails
without effect, takes effect and is answered, or takes effect and is not. A context that has ended
(`expired`) makes later requests fail, the clean-up of CreateKey included.

* CreateKey: `CreateSecret`, `AwaitSecret`, `CreateKeyObject`, `AwaitKey`, `SetOwner`, and on the way
  out `Cleanup`, `AwaitCleanup`. `SetOwner` changes nothing, because the patch that mutate makes for
  a secret carries only its data.
* DeleteKey: `DeleteKey`, `AwaitDelete`. SetKeySecret: `SetKeySecret` (the key, read once), and per
  attempt `GetSecret`, `PatchSecret`, then `AwaitSet` or `AwaitRetry`.
* GetKey is the condition `Readable`. `Restart` is BuildFull: both caches are listed, calls are gone.

* Others (`OtherWrite`) are administrators, who apply and delete manifests of keys and of secrets in any
  order (`06_domain.yml:12-28`), and other replicas, whose requests come here as theirs. They create,
  repoint and delete keys, and write and delete secrets, also a secret after the key that refers to it.
  A name that CreateKey has generated is theirs to use once a key refers to it, and a key does not get
  the secret of another.

`excused`, `cut`, `foreign` (secrets that others have named) and `acked` are history variables; no
guard of the code reads them, only the environment's choice of names reads `foreign`. `KeyBook` is the
abstract specification: for each key its secret, which a call that is under way creates, replaces or
deletes at most in one step, and others may change one key in a step (`Meddle`). `KeySecrets` maps the
two objects on the server to it (`KeyIsOneObject`).

### Errors, Configuration, MCConfiguration

An error is the sequence of its layers with their codes and attributes; the linked list of a layer's
attributes is a sequence as well. `Configuration` extends this with the parser, whose control depends
on codes: `CANNOT_CONVERT_VALUE` anywhere in an error makes Option.apply try the next converter.

`TypeOptions` takes a configuration type apart as addTypeOptions does, its recursion unfolded level by
level: structures and embedded maps are replaced by their parts as often as types nest (`Nesting`),
and one that is left over would stay in the list, where `ProgramsAssumption` does not allow it. That
assumption also says what options the programs have: of types that some converter is for, no two with
the same path, since the parser would give everything to the first. `ApplyDefault`, `ApplyVariable` and
`ApplyArgument` take one word each; `Take` lets an option convert it and stores the value, stops with
the error, or panics. `NewServer` is dns4acme.New with Validate. A text is what parsers tell apart
(`number`, `fraction`, `span` of time, `level`, `address`, `empty`, `junk` or a plain word), split at
commas; the widths of 8, 16, 32 and 64 bits are 3, 4, 5 and 6. Types behind interfaces, pointers to
structures and the order of maps make no difference and are left out.

The properties are stated against the words themselves (`Said`, `Meaning`), without the parser's
position, its converters or its errors. `MCConfiguration` has the configuration of the server with
one option of each type it uses, and one with an option of each integer type.

## 3. Runs

| run | workload and bounds | shows |
|---|---|---|
| `DnsServer_shared` | 2 messages in flight of 6, 2 zones, one of them with an answer and room for one more, 1 key, 2 secrets, any management operation any time | types, `ZoneIsolation`, `AnswersSubmitted`, `AuthorisedWrites` |
| `DnsServer_serial` (`MCDnsServerSerial`) | 3 messages of 23 kinds, one update at a time next to a reader of a zone with two answers and room for two more, key deleted, debug toggled, serial modulo 3 | `ImplementsZones` (refinement), `AnswersSubmitted`, `AcknowledgedAppendsVisible`, `SnapshotReads`, `RequestsFinish` |
| `DnsServer_refused` | one handler, two updates | finding: `SerialTracksAnswers` |
| `Listeners_life` | failures to bind, while starting and while serving; both contexts may end | types and mutex discipline, `StoppedIsQuiet`, `FailedStartIsQuiet`, `StopErrorExplained`, `StopReturns`, `EndTogether` |
| `ObjectClient_single` | one caller, 5 calls of create, set, delete | `CallsSynchronous`, `CallsReturn`, `CacheConverges` |
| `ObjectClient_chaos` | 2 callers, 2 calls, 2 writes of others, by hand too, timeouts, one broken watch, calls before the first list, close included | `AcknowledgedCached`, `PatchesAtomic`, `ClosedIsQuiet` |
| `ObjectClient_parallel` | two sets of one zone | finding: `CallsReturn` |
| `KeyBindings_index` | 2 callers, 2 calls, 2 writes of others, timeouts, one restart, 2 keys and 2 zones | `AcknowledgedBinds`, `OnlyBoundZones`, `CachedBindingsIndexed`, `LookupsReturn` |
| `KeyBindings_unbind` | one binding, bound and unbound, contexts end | finding: `UnbindReturns` |
| `KeyBindings_revoked` | one binding, deleted | finding: `OnlyPresentBindings` |
| `KeySecrets_life` | one key, two secrets, 2 callers, 2 calls, timeouts, failures, lost answers, 2 writes of others, one restart | `CachedKeysReadable`, `SecretsAccounted`, `AcknowledgedSecretCached`, `KeyIsOneObject` (refinement) |
| `Configuration_parse` | two variables of 7 and three arguments of 8; four arguments that repeat options; every option with every kind of text; every integer type with 19 numbers | `TypeOK`, `LastSourceWins`, `FirstFaultReported`, `PanicsExplained` |

Why the bounds are enough. Two handlers suffice for a pairwise race on an array or a zone, provided
that the array has room when they meet. Therefore a zone starts with a list in an array that is not
full. In `DnsServer_shared` two handlers then append different values into its one spare cell, and a
query reads the cell that another handler rewrites after a clear. In `DnsServer_serial` an update
appends behind the list that a query is reading, or rewrites it from its beginning, and two appends of
one update or of two leave the array full or move it. Lists grow to eight there. Arrays are reused, so
that the pool limits how many live at a time and not how many are made; the pools are larger than
that, and an append never waits for one. The moduli are small where the wrap-around is of interest (2
and 3) and out of reach where it is not (100). In the clients two callers and one or two objects
produce every order of request, event, wake-up and timeout; a third caller adds nothing that a write
of others does not. `Listeners` has no bound but the kinds of failure. `KeySecrets` makes two calls,
which race each other or follow one another, next to two writes of others: one may create the key that
both calls work on, or a key before its secret; two secrets are what two CreateKeys of one key, or one
and an administrator, can leave. Longer sequences, and several keys, are left to the proofs. The
numbers of `Configuration_parse` are the limits of each width and their neighbours; a parser that
looks at one word at a time needs two or three to be overruled, and an argument one more to be
followed by a word that is none of its own.

What the conditions of the properties mean. `DnsServer_serial` checks its properties with one update
at a time, because the code does not lock a zone between getZone and SetZone. `SnapshotReads` speaks
of queries while nothing clears, since a clear followed by an append rewrites what is being read.
`StoppedIsQuiet`, `FailedStartIsQuiet` and `StopErrorExplained` concern servers whose start context
lives; when it ends, onStopped gives up waiting and marks listeners as stopped that still drain.
`EndTogether` excepts a listener that fails while Start is at work, after which the other one serves
alone. `PatchesAtomic` excepts a zone deleted and created again between read and patch, whose serial
is 0 again, and a serial that was set back by hand; an edit of `debug` that leaves the serial may be
undone by the patch, and nothing but that (§4). `AcknowledgedCached` excepts serials set back by hand
as well. `CallsReturn` excepts calls that wait for an informer that close has ended. `LookupsReturn`
is about the last part of GetKey, the look-up of the zones in the index. The reads of the key and of
its secret before it wait for the mutexes of two other clients, which one of their calls may hold for
ever (finding 2, `waiter.go:41`); then GetKey hangs without any unbinding. `CachedKeysReadable` is
about secrets that CreateKey has made here: a key that refers to a secret of others (`foreign`) may be
cached before its secret, because manifests are applied in any order, and another replica waits for
its own cache only. It also excepts secrets that somebody deleted (`cut`): another writer, or a
CreateKey that was told that the key could not be created when it was. `SecretsAccounted` lists why a
secret may be left behind: it was others' from the beginning (`foreign`), or (`excused`) its creation,
or the wait for it, was not answered in time, its clean-up failed, the process ended, or its key was
deleted or given another secret. `FirstFaultReported` counts every text for a bool as faulty, because
the code does (§4). `AcknowledgedSecretCached` excepts data that changed and changed back between the
read and the patch of an attempt: test and wait compare data, and SetKeySecret then returns before its
own write is cached. In `KeyBook`, `Lossy` and `meddled` allow exactly what lost answers and other
writers bring: a CreateKey may take a key's secret away, and others may change, create and delete one
key at a time.

Fairness. Weak fairness of every goroutine is the Go scheduler. `Listeners` also assumes that
requests in flight finish (`RequestsFinish`) and that the deadline of Stop passes, which `main` sets.
The clients assume that the informer goroutine runs and that the API server reports what it has
accepted; `KeyBindings` that a context with a deadline ends. Nothing is assumed of clients,
administrators, failures or panics. `ObjectClient`, `KeyBindings`, `KeySecrets` and
`Configuration` are checked without deadlock detection, since their systems stop when the calls are
answered, a goroutine has panicked, the mutex is leaked or the words are parsed; whether calls end is
the business of the liveness properties. Elsewhere it is on.

## 4. Findings

1. A refused update has already edited the stored list (`core/server.go:263`): `txtValues[:0]` keeps
   the array, so what the zone shows changes without SetZone and without a new serial.
2. A caller that is woken before its condition holds takes the mutex it holds (`waiter.go:73`).
3. UnbindKey and the informer wait for each other (`provider.go:290`), for ever if the callback is
   first.
4. The removal from the binding index is inverted (`provider.go:417`): a deleted binding goes on
   authorising.

Also in the models, without a run of their own:

* Handlers. Overlapping updates lose acknowledged values, since a zone is read, edited and stored in
  three calls (`core/server.go:271`). A record of class NONE is appended although it asks for a
  deletion.
* Listeners. A listener that fails before Start notes it as running leaves the other one serving
  alone (`core/server.go:125`). The context of Start, once ended, lets Stop succeed early or fail.
* Zones by hand. `06_domain.yml:7-8` tells administrators to change `debug` in the object, and nothing
  there says to count the serial up. The patch tests the serial only and replaces every field
  (`crd_zone.go:37-60`), so that an update which has read the zone before the edit undoes it.
* Object client. A channel closed twice, the deletion of an uncached object and a relisted deletion
  panic; an update before the informer's own list is reported as an addition and wakes nobody;
  serials compare with >= and wrap. After a refused patch the wait is for the version the attempt
  started from, which is cached already, so that all three attempts may use it.
* Keys and secrets. The owner reference of a secret is never stored, so that DeleteKey leaves the
  secret behind, although `provider.go:190` says that "Secrets are auto-deleted due to the owner
  reference if present". When the context of CreateKey has ended its clean-up never happens; when the
  answer to the creation of the key is lost it deletes the secret of a key that exists. CreateKey is
  content with any key of that name in the cache, also one that was deleted before.
* Configuration. An option of type bool cannot be set by an environment variable: "true" is refused
  and "1" panics in SetFloat (`converter_float.go:55`), although `docs/configuration/index.md:5` says
  that "All options can be passed either way". The properties of the parser say nothing against that:
  they take it from the code that a bool has a meaning for its flag only (`HasMeaning`). Numbers panic
  as well when they are given to a []byte or are out of the range of an integer option. The upper half
  of the ranges of uint and uint8 is not accepted, and panics (`converter_uint.go:23-26`).

## 5. Proofs

### DnsServerProofs

For all sets of keys, zones, values, handlers and messages and all bounds:

* `TypeCorrect`: `Spec => []TypeOK`.
* `ZonesIsolated`: `Spec => []ZoneIsolation`.
* `AnswersProvenance`: `Spec => []AnswersSubmitted`.
* `WritesAuthorised`: `Spec => AuthorisedWrites`, an action property.

They rest on `StoreAssumption`, `ServerAssumption` and `CanonicalNames`, which TLC evaluates in every
run. One inductive invariant carries all of them, `Inv == TypeInv /\ Window /\ Isolated /\ Provenance`:

* `TypeInv` adds to the types that a slice without an array is empty.
* `Window` says what a handler's position implies: past "verify" the secret has matched since the
  request came, past "key" the key was bound, and the zone looked up is the zone authorised.
* `Isolated` strengthens `ZoneIsolation`: an array is used for one zone only, by the store and by
  the handlers serving it, also when the zone has been deleted or created again meanwhile.
* `Provenance` says the cells of all slices in use, not just of the stored ones, hold submitted
  values; an in-place write then harms only lists of the same zone, whose values are submitted too.

`ZoneIsolation` alone is not inductive, since an append in place and SetZone move arrays between
handlers and zones. Each lemma takes one action: what it does to the store, to the handlers, to the
history.

### DnsServerSerialProofs

What holds only if updates do not overlap, for all sets and bounds as above, with any number of
readers and management operations:

* `AcknowledgedStaysVisible`: `Spec => []AcknowledgedAppendsVisible`, given `OneUpdater` (one handler
  at a time is given updates) and `NoNewZones` (nobody creates zones meanwhile).
* `ResponsesAreSnapshots`: `Spec => []SnapshotReads`, given `OneUpdater`.
* `ZonesImplemented`: `Spec => ImplementsZones`, the refinement of `ChallengeZones`, given `OneUpdater`,
  `NoRemovals` (no update removes a value) and `ZonesStay`. Clears may be followed by appends, and any
  record may be refused.

The hypotheses are conditions on the constants, and `DnsServer_serial` satisfies them
(`SerialWorkload`). They are what the code leaves to its users: it does not lock a zone between
getZone and SetZone, and the findings show what happens without them. `SerialInv` extends `Inv` by
what a handler's position says of its loop (`ControlInv`) and by `PriorInv`: until it clears its list,
an updater's list begins with the stored one, also when an append has moved it. On top of it:

* `AckInv`: an acknowledged value is in the list of its zone (`AckedShown`), what the records done so
  far have appended is in the updater's list (`Collected`), and when it is about to answer, in the
  zone (`Stored`); for an update that clears nothing acknowledged is left (`ClearedAway`).
  `AcknowledgedAppendsVisible` alone is not inductive, since SetZone replaces the list by the
  updater's: by `PriorInv` that one still has what was acknowledged before.
* `SnapshotInv`: what a reader has read is the beginning of the list it found, and the cells it still
  has to read hold the rest (`Frozen`), because nothing clears (`NoClear`) and the only list that is
  appended to in the same array is no shorter than its own (`Ahead`).
* `PlainInv`: the updater's list is what its last clear has left of the stored one, and behind that the
  values of the records since (`Tallied`). Then StoreZone is one step of the book. An append in place
  before it is a stutter if it writes behind the end of the stored slice, and else, after a clear, one
  `ShowEarly` (`EarlyBook`): the same value in the place it will have.

### KeySecretsProofs

For all sets of callers, keys and values, all bounds, and whether or not requests fail or lose their
answers, contexts end and the process restarts:

* `SecretsTypeCorrect`: `Spec => []TypeOK`.
* `AcknowledgedSecretRead`: `Spec => []AcknowledgedSecretCached`.
* `KeysReadable`: `Spec => []CachedKeysReadable`.
* `NoSecretLost`: `Spec => []SecretsAccounted`.
* `OneObject`: `Spec => KeyIsOneObject`, that is, `KeySecrets` implements `KeyBook`.

They rest on `SecretAssumption`, which TLC evaluates in `KeySecrets_life`. The invariant has layers:

* `TypeInv`: logs start absent and two consecutive versions differ; a secret not made yet has one
  version; no cache is ahead of its log; a set has read from the cache (`ReadOK`) and, having
  written, knows its own version and the one before it. From this `AcknowledgedSeen`: if the cache
  shows the written data, and the data has not changed back, it has the written version.
* `KeyInv`: what a key refers to belongs to that key alone and, unless others have named it or it was
  deleted, is alive since its creation and in the cache (`ReferOK`); a caller that has created a
  secret and not yet its key holds a secret nobody refers to or has touched, and the clean-up runs
  only where it is harmless or an answer was lost (`HoldOK`); two callers never hold the same secret
  (`Apart`).
* `AccountInv`: a caller gives up a secret only when it is gone, referred to or excused.

`CachedKeysReadable` is not inductive: it speaks of the cached key only, while the cache will move
on to any later version in the log; `ReferOK` therefore speaks of every version. For the refinement
each action changes `Stored` as one step of `KeyBook` or not at all: creating a secret is a stutter
because `HoldOK` keeps it unreferred until the key exists, and replacing one secret changes one key
because of `ReferOK`. Others may do the same in one step, to a single key (`OtherEffects`): the names
they may use never are those of a secret that a CreateKey is at work on, nor that of another key
(`OthersSecrets`, `OthersReferences`).

### KeyBindingsProofs

For all sets of callers, keys and zones and all bounds, timeouts, other writers and restarts included:

* `BindingsTypeCorrect`: `Spec => []TypeOK`.
* `ZonesWereBound`: `Spec => []OnlyBoundZones`.
* `CacheIndexed`: `Spec => []CachedBindingsIndexed`.
* `AcknowledgedAuthorise`: `Spec => []AcknowledgedBinds`.

They rest on `BindingAssumption`. `CachedBindingsIndexed` is broken while a callback runs, so
`CallbackOK` says by how much: the binding that is being reported, and no other. `NameOK` compares
server, cache, index and what was acknowledged name by name, and `EventOK` does so for everything
that is yet to be reported: until a binding is deleted or edited they all have the same version.
A BindKey that waits has that version on the server (`CallerOK`), and what its condition finds in
the cache is in the index because no callback can be running then.

### ListenersProofs

For all sets of failures and of contexts that may end, given `ListenersAssumption`, which only names
them:

* `ListenersTypeCorrect`: `Spec => []TypeOK`.
* `StopLeavesNothing`: `Spec => []StoppedIsQuiet`.
* `FailedStartLeavesNothing`: `Spec => []FailedStartIsQuiet`.
* `StopErrorsExplained`: `Spec => []StopErrorExplained`.

The state is finite, so TLC explores all of it; the proof adds the reason, which is who may be where
at the same time:

* `Guarded`: a listener's mutex is held exactly by the actor inside `ShutdownContext` for it.
* `MainAt`, `Begun`: which goroutines exist at each step of `main`, and what has been heard from them.
* `Watched`: while the context of Start lives, a listener that has not ended is noted as running, so
  that Stop does not pass it over, and one that was told to stop is being waited for under its mutex.
* `Swept`: the listeners that Stop has been through have ended; `Quiet` follows when it returns. This
  is where Stop and two onStopped may shut down the same listener, and the one that comes later has
  nothing left to wait for but the mutex.
* `Calm`, `Stage`: on a server whose contexts live and whose listeners do not fail, the stages of
  Stop, one after the other; in none of them does `ShutdownContext` find a server that is not
  started or was shut down before, the error that `Explained` excludes.

### ObjectClientProofs

For all sets of callers, names and values and all bounds:

* `QuietAfterClose`: `Spec => ClosedIsQuiet`.
* `AcknowledgedStay`: `Spec /\ []NoWrap => []AcknowledgedCached`.
* `AtomicPatches`: `Spec /\ []NoWrap => PatchesAtomic`.

In both the serials of a zone may be set back by hand, about which nothing is said from then on
(`Counted`), and `debug` may be edited by hand at any time, which two versions of the same serial are
then allowed to differ in. `NoWrap` says that no serial on the server has reached the last value of
its type. Without it the two properties are false: with `SerialModulus = 2` TLC finds a patch that
tests an old serial which has come round again. The code has 2^32 serials per object, the runs have
100, and no behaviour of theirs gets to the end. They also rest on `ClientAssumption`, by which the
initial objects have identities that new ones do not reuse.

* For the first, `Quiet`: after a close the informer has ended, or has not begun to list and never
  will; `Closing` says that a close that waits has found the channel made.
* For the others, `Precedes`. What may still come into the cache is `Coming`: the cached version, the
  ones that are reported, and the one on the server. These are in the order they were written, also
  after a broken watch, and two with the same identity and serial are equal but for an edit of `debug`
  (`Follows`, `EventsOrdered`), while one that has the serial of the server is what the server has
  unless somebody has edited it since (`Told`); a call starts from a version that all of them follow.
  Then a test of the serial alone identifies the object up to an edit, and a condition that compares
  serials only, as that of a set does, is right even when the cached object is another one than the
  call started from.

### ObjectClientCallsProofs

* `ClientTypeCorrect`: `Spec => []TypeOK`, given that contexts do not end during a wait (`~Timeouts`)
  and that the callers are a finite set.
* `SynchronousZones`: `Spec /\ []NoWrap /\ []Apart => []ZonesSynchronous`, given `Private`: no other
  writers and no time-outs. `Apart` says that no two calls are at work on the same object.
* `SynchronousCalls`: `Spec /\ []NoWrap => []CallsSynchronous`, given `Private` and one caller, which
  follows.

The interesting type is that of the reference counts, natural numbers no larger than the number of
callers: `WaiterInv` says that while the mutex can be had, each is the number of callers blocked on
that waiter and name. A time-out leaves its count behind, so the hypothesis cannot be dropped.

`Private` and `Apart` are how the property is meant: others' writes, or a call that gave up, may be on
the server and not in the cache yet. Calls on the same object may return too early: a create is
satisfied by the cached object that a delete has just removed from the server, and both then return
while the cache lacks the new object. Nothing is assumed of the informer or of calls on other objects,
which share the mutex and the waiters. `SynchronousZones` holds more widely than `ObjectClient_single`
checks: for any number of callers, also for calls made before the informer runs, with broken watches,
and across close. A call may then wait for ever, but it does not return too early. The invariant
`SyncInv` says that every object is `Settled` (cache, server and all that is to be reported agree)
except those a call waits for, which may be `InTransit`: the cache has the object that the call
replaces, and what is to be reported is that object and then nothing but the new one. The second part is
what a test would hardly reach, since the informer reports the objects of its own list again after the
client has listed them: none of these late reports satisfies the condition of the call or makes it fail,
which would return an error with the mutex locked.

### ConfigurationProofs

For all options, environments and command lines that satisfy `ProgramsAssumption`:

* `ApplyIsRight`: whatever the kind of an option and the text, what Option.apply makes of it is the
  text's meaning, if it has one that is fit; else an error whose logged attributes name the option, or
  a panic, for a number that is unfit (`HasMeaning`, `Meaning`, `Unfit`). So the order of the converters
  never lets a later one take what an earlier one should have, and `CANNOT_CONVERT_VALUE` around
  `VALUE_TOO_LARGE` sends an integer out of range on to the converter for floats, which panics.
* `TypeCorrect`: `Spec => []TypeOK`.
* `LastSourceWinsHolds`: `Spec => []LastSourceWins`.
* `FirstFaultReportedHolds`: `Spec => []FirstFaultReported`.
* `PanicsExplainedHolds`: `Spec => []PanicsExplained`.

The three properties speak of the end and have to be carried through the words. `Consumed` is how many
words of `Said` the parser is done with; the invariant is that none of these is faulty (`Clean`), that
each option has the value they give it (`Filled`), and that the next argument is not the text of the
option before (`Aligned`), without which a text would be read twice or not at all. `Said` itself is not
fixed: it grows when the environment and the command line are read, and `GrowWords` says that
the words before stay what they were. The proof also showed that `Find`, the first option with a
path, may be read as the option with that path only because paths are distinct.

### Model-checked only

* Liveness (`RequestsFinish`, `StopReturns`, `EndTogether`, `CallsReturn`, `CacheConverges`,
  `LookupsReturn`) is beyond the prover.
* That `ApplyRecords` equals the records applied one after the other (`RecordsInTurn`): what a
  recursive definition computes for every input is an induction over data, which the prover cannot do.
* That `TypeOptions` yields options as `ProgramsAssumption` wants them, for the same reason. TLC
  evaluates the assumption for the programs of `MCConfiguration`; the proofs hold for any programs
  that satisfy it.

## 6. Not modelled

* Wire formats, wording of errors and logs; SOA and NS responses beyond their code; TSIG arithmetic (a
  MAC matches if the secrets are equal); JSON encoding.
* Retries of DNS clients beyond the repetition of a message; the signals and the exit code of `main`.
* In `ObjectClient` and `KeyBindings`, requests to the API server that fail by themselves: a timeout
  after the write stands for a lost answer, and `KeySecrets` has both. In `KeySecrets`, requests that
  arrive after the process that sent them has ended, and look-ups between the lists of a restart. In
  `KeyBindings` also the return of UnbindKey after a failed request (`provider.go:300-313`).
* Secrets that several keys share, each with a field of its own (`02_crd.yml:85`): in `KeySecrets` a
  secret belongs to one key.
* In `KeyBindings`, what GetKey does before it looks up the zones: it reads the key and its secret
  through clients of their own, as `ObjectClient` and `KeySecrets` have it. That their mutexes may be
  held for ever is in `ObjectClient` only.
* In `Listeners`, a listener that is created between the call of onStopped and its mutex. Numbers
  written with a leading "+", which the signed converters take and the unsigned do not.
* Close of the provider is four calls of `close`; BuildFull leaves the clients it has created running
  when a later one fails (`config.go:134`), after which `main` ends.
* The help text; a command line without any words; the value an option is left with after a failed
  conversion, since the program then ends; numbers too large for a float; the conversions between
  types other than texts and flags, which only tests use; pointers to numbers.
* Registry, descriptors and build tools have no behaviour over time.

## 7. Plan

1. The handlers against the Kubernetes provider instead of the in-memory one: its GetZone hands out
   the slice of the cached object, which the handler edits in place.
