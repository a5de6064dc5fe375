--------------------------- MODULE ChallengeZones ---------------------------
(***************************************************************************)
(* What the server does to the zones as its ACME clients see them: an      *)
(* update is applied to the challenge list as a whole, all its records in  *)
(* order, and advances the serial by one (backend/provider.go, SetZone).   *)
(* One exception is part of the specification because the code takes it:   *)
(* an update that clears the list and then appends is not applied at once. *)
(* There are no arrays, copies or handlers here.                           *)
(***************************************************************************)
EXTENDS Naturals, Sequences

CONSTANTS ZoneNames, Values, NoZone, Updates, SerialModulus

VARIABLE book  \* per zone [serial, answers], or NoZone

\* The last of the first n records that clears, 0 if none does.
LastClear(records, n) ==
  CHOOSE k \in 0..n : /\ k > 0 => records[k].op = "clear"
                      /\ \A i \in (k + 1)..n : records[i].op # "clear"

\* The list after all records in order, each of which clears it or appends to
\* it: the values after the last clear, behind the old ones if there is none.
ApplyRecords(answers, records) ==
  LET last == LastClear(records, Len(records))
      kept == IF last = 0 THEN answers ELSE <<>>
  IN  kept \o [i \in 1..(Len(records) - last) |-> records[last + i].value]

Init == book \in [ZoneNames -> {NoZone} \cup [serial : 0..(SerialModulus - 1), answers : Seq(Values)]]

\* A whole update, or nothing at all when one of its records is refused.
ApplyUpdate(z, records) ==
  /\ z \in ZoneNames /\ book[z] # NoZone
  /\ \A i \in DOMAIN records : records[i].op \in {"clear", "append"}
  /\ book' = [book EXCEPT ![z] = [serial |-> (@.serial + 1) % SerialModulus,
                                  answers |-> ApplyRecords(@.answers, records)]]

\* The exception: a value that is appended after a clear may show in the place
\* it will have, instead of the entry the clear is to remove and under the old
\* serial, before the update is applied and even if it is refused in the end.
ShowEarly(z, records) ==
  /\ z \in ZoneNames /\ book[z] # NoZone
  /\ \E j \in DOMAIN records :
       LET last == LastClear(records, j) IN
       /\ records[j].op = "append" /\ last > 0 /\ j - last \in DOMAIN book[z].answers
       /\ book' = [book EXCEPT ![z].answers[j - last] = records[j].value]

Next == \E u \in Updates : ApplyUpdate(u.exact, u.records) \/ ShowEarly(u.exact, u.records)

Spec == Init /\ [][Next]_book
=============================================================================
