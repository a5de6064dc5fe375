------------------------------ MODULE InMemory ------------------------------
(***************************************************************************)
(* The in-memory backend (backend/inmemory/provider.go): update keys with  *)
(* a secret and the zones they are bound to, and zones with a serial and   *)
(* the list of ACME challenge answers.                                     *)
(*                                                                         *)
(* Every method of the provider runs under one sync.RWMutex, so each is    *)
(* one atomic action here; a method that returns an error changes nothing  *)
(* and is a stuttering step.                                               *)
(*                                                                         *)
(* GetZone returns *zone, a copy of the struct: the answers of the copy    *)
(* are a Go slice whose backing array is the stored one.  The arrays are   *)
(* therefore part of the state: a slice is [arr, len], capacity[a] is the  *)
(* number of cells of array a and cell[a] their content.  Arrays are taken *)
(* from a finite pool and an array is free when no slice refers to it (the *)
(* garbage collector).                                                     *)
(***************************************************************************)
EXTENDS Naturals, Sequences

CONSTANTS
  KeyNames,       \* update key names
  Secrets,        \* TSIG secrets
  ZoneNames,      \* names under which zones are stored and keys are bound
  Values,         \* challenge answers, all of one length (43 characters)
  Blank,          \* content of a cell no one has written
  NoKey, NoZone,  \* absence from the two Go maps
  Arrays, NilArray,
  MaxLen,         \* bound: the largest capacity of a backing array
  SerialModulus,  \* 2^32 in the code (uint32)
  InitialKeys, InitialZones,  \* the configurations New may be given
  InitialArrays,  \* the arrays behind the lists of those zones, <<>> if unused
  AdminOps        \* bound: the management operations an instance exercises

VARIABLES keys, zones, capacity, cell

storeVars == <<keys, zones, capacity, cell>>

Index    == 1..MaxLen
Slice    == [arr : Arrays \cup {NilArray}, len : 0..MaxLen]
Key      == [secret : Secrets, zones : SUBSET ZoneNames]
Zone     == [serial : 0..(SerialModulus - 1), answers : Slice, debug : BOOLEAN]
NilSlice == [arr |-> NilArray, len |-> 0]
NewZone  == [serial |-> 0, answers |-> NilSlice, debug |-> FALSE]

ASSUME StoreAssumption ==
  /\ MaxLen \in Nat
  /\ SerialModulus \in Nat \ {0}
  /\ NilArray \notin Arrays
  /\ NoKey \notin Key
  /\ NoZone \notin Zone

\* A zone of the configuration may have answers, within an array of its own.
OwnArray(config, z) ==
  LET list == config[z].answers IN
  /\ list.arr = NilArray => list.len = 0
  /\ list.arr # NilArray =>
       /\ list.len <= Len(InitialArrays[list.arr])
       /\ \A i \in 1..list.len : InitialArrays[list.arr][i] \in Values
       /\ \A y \in ZoneNames \ {z} : config[y] # NoZone => config[y].answers.arr # list.arr

ASSUME ConfigAssumption ==
  /\ InitialKeys \subseteq [KeyNames -> Key \cup {NoKey}]
  /\ InitialArrays \in [Arrays -> Seq(Values \cup {Blank})]
  /\ \A a \in Arrays : Len(InitialArrays[a]) <= MaxLen
  /\ InitialZones \subseteq [ZoneNames -> Zone \cup {NoZone}]
  /\ \A config \in InitialZones : \A z \in ZoneNames : config[z] # NoZone => OwnArray(config, z)

StoreTypeOK ==
  /\ keys \in [KeyNames -> Key \cup {NoKey}]
  /\ zones \in [ZoneNames -> Zone \cup {NoZone}]
  /\ capacity \in [Arrays -> 0..MaxLen]
  /\ cell \in [Arrays -> [Index -> Values \cup {Blank}]]

StoreInit ==
  /\ keys \in InitialKeys
  /\ zones \in InitialZones
  /\ capacity = [a \in Arrays |-> Len(InitialArrays[a])]
  /\ cell = [a \in Arrays |-> [i \in Index |->
               IF i <= Len(InitialArrays[a]) THEN InitialArrays[a][i] ELSE Blank]]

-----------------------------------------------------------------------------
(* Go slices.                                                              *)

Cap(s) == IF s.arr = NilArray THEN 0 ELSE capacity[s.arr]

\* The elements of slice s, as a sequence.
Contents(s) == [i \in 1..s.len |-> cell[s.arr][i]]

Answers(z)   == Contents(zones[z].answers)
AnswerSet(z) == {cell[zones[z].answers.arr][i] : i \in 1..zones[z].answers.len}

\* growslice for the small slices of strings: 0 -> 1 -> 2 -> 4 -> ...
GrownCap(s) == IF Cap(s) = 0 THEN 1 ELSE 2 * Cap(s)

StoredArrays == {zones[z].answers.arr : z \in {y \in ZoneNames : zones[y] # NoZone}}

\* append(s, v) with result t.  In place when the array has room, otherwise
\* in a new array; inUse are the arrays the rest of the program refers to.
AppendInPlace(s, v, t) ==
  /\ s.len < Cap(s)
  /\ t = [s EXCEPT !.len = @ + 1]
  /\ cell' = [cell EXCEPT ![s.arr][s.len + 1] = v]
  /\ UNCHANGED capacity

AppendGrowing(s, v, t, inUse) ==
  /\ s.len = Cap(s)
  /\ GrownCap(s) <= MaxLen
  /\ \E a \in Arrays : a \notin inUse
  /\ LET new == CHOOSE a \in Arrays : a \notin inUse
     IN  /\ t = [arr |-> new, len |-> s.len + 1]
         /\ capacity' = [capacity EXCEPT ![new] = GrownCap(s)]
         /\ cell' = [cell EXCEPT ![new] =
                       [i \in Index |-> IF i <= s.len THEN cell[s.arr][i]
                                        ELSE IF i = s.len + 1 THEN v ELSE Blank]]

GoAppend(s, v, t, inUse) == AppendInPlace(s, v, t) \/ AppendGrowing(s, v, t, inUse)

-----------------------------------------------------------------------------
(* backend.Provider: what the DNS server calls.                            *)

\* Whether GetZone(z) succeeds; the copy it returns is zones[z].
HasZone(z) == z \in ZoneNames /\ zones[z] # NoZone

\* Whether GetKey(k) succeeds; the copy it returns is keys[k].
HasKey(k) == k \in KeyNames /\ keys[k] # NoKey

\* Mutant of SetZone: the serial does not wrap.
SetZone_NoWrap(z, s) ==
  /\ HasZone(z)
  /\ zones' = [zones EXCEPT ![z] = [@ EXCEPT !.serial = zones[z].serial + 1, !.answers = s]]
  /\ UNCHANGED <<keys, capacity, cell>>

SetZone(z, s) ==
  /\ HasZone(z)
  /\ zones' = [zones EXCEPT ![z] = [@ EXCEPT !.serial = (zones[z].serial + 1) % SerialModulus,
                                              !.answers = s]]
  /\ UNCHANGED <<keys, capacity, cell>>

-----------------------------------------------------------------------------
(* backend.ExtendedProvider: key and zone management.                      *)

CreateKey(k, secret) ==
  /\ keys[k] = NoKey
  /\ keys' = [keys EXCEPT ![k] = [secret |-> secret, zones |-> {}]]
  /\ UNCHANGED <<zones, capacity, cell>>

DeleteKey(k) ==
  /\ keys[k] # NoKey
  /\ keys' = [keys EXCEPT ![k] = NoKey]
  /\ UNCHANGED <<zones, capacity, cell>>

SetKeySecret(k, secret) ==
  /\ keys[k] # NoKey
  /\ keys' = [keys EXCEPT ![k].secret = secret]
  /\ UNCHANGED <<zones, capacity, cell>>

\* The zone need not exist.
BindKey(k, z) ==
  /\ keys[k] # NoKey
  /\ keys' = [keys EXCEPT ![k].zones = @ \cup {z}]
  /\ UNCHANGED <<zones, capacity, cell>>

UnbindKey(k, z) ==
  /\ keys[k] # NoKey
  /\ keys' = [keys EXCEPT ![k].zones = @ \ {z}]
  /\ UNCHANGED <<zones, capacity, cell>>

CreateZone(z) ==
  /\ zones[z] = NoZone
  /\ zones' = [zones EXCEPT ![z] = NewZone]
  /\ UNCHANGED <<keys, capacity, cell>>

DeleteZone(z) ==
  /\ zones[z] # NoZone
  /\ keys' = [k \in KeyNames |-> IF keys[k] = NoKey THEN NoKey
                                 ELSE [keys[k] EXCEPT !.zones = @ \ {z}]]
  /\ zones' = [zones EXCEPT ![z] = NoZone]
  /\ UNCHANGED <<capacity, cell>>

SetZoneDebug(z, debug) ==
  /\ zones[z] # NoZone
  /\ zones' = [zones EXCEPT ![z].debug = debug]
  /\ UNCHANGED <<keys, capacity, cell>>

KeyAdmin(k) ==
  \/ "CreateKey" \in AdminOps /\ \E s \in Secrets : CreateKey(k, s)
  \/ "DeleteKey" \in AdminOps /\ DeleteKey(k)
  \/ "SetKeySecret" \in AdminOps /\ \E s \in Secrets : SetKeySecret(k, s)
  \/ "BindKey" \in AdminOps /\ \E z \in ZoneNames : BindKey(k, z)
  \/ "UnbindKey" \in AdminOps /\ \E z \in ZoneNames : UnbindKey(k, z)

ZoneAdmin(z) ==
  \/ "CreateZone" \in AdminOps /\ CreateZone(z)
  \/ "DeleteZone" \in AdminOps /\ DeleteZone(z)
  \/ "SetZoneDebug" \in AdminOps /\ \E d \in BOOLEAN : SetZoneDebug(z, d)

Admin == (\E k \in KeyNames : KeyAdmin(k)) \/ (\E z \in ZoneNames : ZoneAdmin(z))
=============================================================================
