------------------------ MODULE ConfigurationProofs -------------------------
(***************************************************************************)
(* Proofs about Configuration, for every set of programs.                  *)
(*                                                                         *)
(* First what errors and the converters do: for every kind of option and   *)
(* every text, ApplyOption gives the text's meaning, an error that names   *)
(* the option, or panics, as HasMeaning and Unfit say (ApplyIsRight).      *)
(* Then the parser, by an invariant about the words it is done with: none  *)
(* of them was faulty (Clean), and they decide the values (Filled).  Each  *)
(* step of the parser deals with one word of Said, or with an option and   *)
(* its text (SkipWord, FailWord, PanicWord, TakeWord); reading more words  *)
(* leaves those before as they are (GrowWords).                            *)
(***************************************************************************)
EXTENDS Configuration, SequenceTheorems, WellFoundedInduction, TLAPS

-----------------------------------------------------------------------------
(* Errors.                                                                 *)

Declines(r) == r.is = "error" /\ HasCode(r.error, "CANNOT_CONVERT_VALUE")
Codes  == {"", "CANNOT_CONVERT_VALUE", "VALUE_TOO_SMALL", "VALUE_TOO_LARGE", "INCOMPATIBLE_VALUE"}
Layers == [code : Codes, attrs : {<<>>}]

LEMMA Fields == ASSUME NEW l, NEW code, NEW attrs, l = [code |-> code, attrs |-> attrs]
                PROVE  l.code = code /\ l.attrs = attrs
OBVIOUS

LEMMA NewIsError ==
  ASSUME NEW code
  PROVE  /\ Len(New(code)) = 1 /\ DOMAIN New(code) = {1}
         /\ New(code)[1] = [code |-> code, attrs |-> <<>>]
         /\ code \in Codes => New(code) \in Seq(Layers)
<1> DEFINE l == [code |-> code, attrs |-> <<>>]
<1>1. code \in Codes => l \in Layers
  BY DEF Layers
<1>2. New(code) = <<l>>
  BY DEF New
<1> HIDE DEF l
<1>3. Len(<<l>>) = 1 /\ DOMAIN <<l>> = {1} /\ <<l>>[1] = l /\ (l \in Layers => <<l>> \in Seq(Layers))
  OBVIOUS
<1> QED BY <1>1, <1>2, <1>3 DEF l

\* An error of two layers.
LEMMA WrapIsError ==
  ASSUME NEW code \in Codes, NEW cause \in Seq(Layers)
  PROVE  /\ Wrap(New(code), cause) \in Seq(Layers)
         /\ DOMAIN Wrap(New(code), cause) = 1..(1 + Len(cause))
         /\ Wrap(New(code), cause)[1] = [code |-> code, attrs |-> <<>>]
<1> DEFINE s == New(code)
<1>1. s \in Seq(Layers) /\ Len(s) = 1
  BY NewIsError
<1>4. s[1] = [code |-> code, attrs |-> <<>>]
  BY NewIsError
<1> HIDE DEF s
<1>2. s \o cause \in Seq(Layers) /\ Len(s \o cause) = 1 + Len(cause)
  BY <1>1, ConcatProperties
<1>3. (s \o cause)[1] = s[1]
  BY <1>1, ConcatProperties
<1>5. DOMAIN (s \o cause) = 1..(1 + Len(cause))
  BY <1>2
<1> QED BY <1>2, <1>3, <1>4, <1>5 DEF Wrap, s

LEMMA HasFirst == ASSUME NEW e, NEW code, 1 \in DOMAIN e, e[1].code = code PROVE HasCode(e, code)
BY DEF HasCode

\* A converter that cannot convert declines, whatever the reason.
LEMMA CannotDeclines == Declines(Cannot) /\ Cannot.is = "error" /\ Cannot.error \in Seq(Layers)
<1> DEFINE e == New("CANNOT_CONVERT_VALUE")
<1>1. "CANNOT_CONVERT_VALUE" \in Codes
  BY Zenon DEF Codes
<1>2. e \in Seq(Layers) /\ 1 \in DOMAIN e /\ e[1] = [code |-> "CANNOT_CONVERT_VALUE", attrs |-> <<>>]
  BY <1>1, NewIsError
<1>3. Cannot = [is |-> "error", error |-> e]
  BY DEF Cannot, Fails
<1> HIDE DEF e
<1>4. HasCode(e, "CANNOT_CONVERT_VALUE")
  BY <1>2, HasFirst
<1> QED BY <1>2, <1>3, <1>4 DEF Declines

LEMMA CannotAsDeclines ==
  ASSUME NEW code \in Codes
  PROVE  Declines(CannotAs(code)) /\ CannotAs(code).is = "error" /\ CannotAs(code).error \in Seq(Layers)
<1> DEFINE e == Wrap(New("CANNOT_CONVERT_VALUE"), New(code))
<1>1. "CANNOT_CONVERT_VALUE" \in Codes
  BY Zenon DEF Codes
<1>2. New(code) \in Seq(Layers) /\ Len(New(code)) = 1
  BY NewIsError
<1>3. e \in Seq(Layers) /\ 1 \in DOMAIN e /\ e[1] = [code |-> "CANNOT_CONVERT_VALUE", attrs |-> <<>>]
  BY <1>1, <1>2, WrapIsError
<1>4. CannotAs(code) = [is |-> "error", error |-> e]
  BY DEF CannotAs, Fails
<1> HIDE DEF e
<1>5. HasCode(e, "CANNOT_CONVERT_VALUE")
  BY <1>3, HasFirst
<1> QED BY <1>3, <1>4, <1>5 DEF Declines

LEMMA ForeignDoesNot == ~Declines(Fails(Foreign)) /\ Fails(Foreign).is = "error" /\ Fails(Foreign).error \in Seq(Layers)
<1> DEFINE e == New("")
<1>1. "" \in Codes
  BY Zenon DEF Codes
<1>2. e \in Seq(Layers) /\ DOMAIN e = {1} /\ e[1] = [code |-> "", attrs |-> <<>>]
  BY <1>1, NewIsError
<1>3. Fails(Foreign) = [is |-> "error", error |-> e]
  BY DEF Foreign, Fails
<1> HIDE DEF e
<1>4. e[1].code # "CANNOT_CONVERT_VALUE"
  <2>1. e[1] = [code |-> "", attrs |-> <<>>]
    BY <1>2
  <2>2. e[1].code = ""
    BY <2>1, Fields
  <2> QED BY <2>2, Zenon
<1>5. e \in Seq(Layers) /\ DOMAIN e = {1}
  BY <1>2
<1>6. ~HasCode(e, "CANNOT_CONVERT_VALUE")
  BY <1>4, <1>5, Zenon DEF HasCode
<1> QED BY <1>5, <1>3, <1>6 DEF Declines

LEMMA OthersDoNot == /\ ~Declines(Panics) /\ Panics.is = "panic"
                     /\ \A v : ~Declines(Done(v)) /\ Done(v).is = "done" /\ Done(v).value = v
BY DEF Declines, Panics, Done

LEMMA MinIs == ASSUME NEW I \in SUBSET Nat, NEW j \in I, \A i \in I : j <= i PROVE Min(I) = j
<1>1. Min(I) \in I /\ \A y \in I : Min(I) <= y
  BY DEF Min
<1>2. j \in Nat /\ Min(I) \in Nat /\ Min(I) <= j /\ j <= Min(I)
  BY <1>1
<1> QED BY <1>2

\* What is logged of an error that has a code.
LEMMA LoggedOf ==
  ASSUME NEW e, DOMAIN e \in SUBSET Nat, 1 \in DOMAIN e, \A i \in DOMAIN e : 1 <= i, e[1].code # ""
  PROVE  LoggedAttrs(e) = e[1].attrs
<1> DEFINE structured == {i \in DOMAIN e : e[i].code # ""}
<1>1. structured \in SUBSET Nat /\ 1 \in structured /\ \A i \in structured : 1 <= i
  OBVIOUS
<1>2. LoggedAttrs(e) = IF structured = {} THEN <<>> ELSE e[Min(structured)].attrs
  BY DEF LoggedAttrs
<1> HIDE DEF structured
<1>3. Min(structured) = 1
  BY <1>1, MinIs
<1> QED BY <1>1, <1>2, <1>3

LEMMA SingletonUnchanged == ASSUME NEW x PROVE <<x>> \o <<>> = <<x>>
OBVIOUS

Only(key, value) == <<[key |-> key, value |-> value]>>

\* The attribute that is added is logged.
LEMMA WithAttrLogs ==
  ASSUME NEW w, NEW code, NEW key, NEW value, DOMAIN w \in SUBSET Nat, 1 \in DOMAIN w, \A i \in DOMAIN w : 1 <= i,
         w[1] = [code |-> code, attrs |-> <<>>], code # ""
  PROVE  LoggedAttrs(WithAttr(w, key, value)) = Only(key, value)
<1> DEFINE a == <<[key |-> key, value |-> value]>>
<1> DEFINE e == [w EXCEPT ![1].attrs = a \o @]
<1>1. WithAttr(w, key, value) = e
  BY DEF WithAttr
<1>2. a \o <<>> = a
  BY SingletonUnchanged
<1>3. DOMAIN e = DOMAIN w /\ e[1] = [w[1] EXCEPT !.attrs = a \o w[1].attrs]
  OBVIOUS
<1>4. e[1].code = code /\ e[1].attrs = a
  <2>1. w[1].attrs = <<>> /\ w[1].code = code
    BY Fields
  <2>2. DOMAIN w[1] = {"code", "attrs"}
    BY Zenon
  <2> HIDE DEF e, a
  <2> QED BY <1>2, <1>3, <2>1, <2>2
<1> HIDE DEF e
<1>5. LoggedAttrs(e) = e[1].attrs
  BY <1>3, <1>4, LoggedOf
<1> QED BY <1>1, <1>4, <1>5 DEF Only

\* An error about an option logs it.
LEMMA IncompatibleNames ==
  ASSUME NEW o, NEW cause \in Seq(Layers)
  PROVE  LoggedAttrs(Incompatible(o, cause)) = Only("option", o.path)
<1> DEFINE w == Wrap(New("INCOMPATIBLE_VALUE"), cause)
<1>1. "INCOMPATIBLE_VALUE" \in Codes
  BY Zenon DEF Codes
<1>2. DOMAIN w = 1..(1 + Len(cause)) /\ w[1] = [code |-> "INCOMPATIBLE_VALUE", attrs |-> <<>>]
  BY <1>1, WrapIsError
<1>3. Len(cause) \in Nat
  OBVIOUS
<1>4. DOMAIN w \in SUBSET Nat /\ 1 \in DOMAIN w /\ \A i \in DOMAIN w : 1 <= i
  BY <1>2, <1>3
<1>5. Incompatible(o, cause) = WithAttr(w, "option", o.path)
  BY DEF Incompatible
<1> HIDE DEF w
<1>6. PICK c : c = "INCOMPATIBLE_VALUE"
  OBVIOUS
<1>8. c # ""
  BY <1>6
<1>7. LoggedAttrs(WithAttr(w, "option", o.path)) = Only("option", o.path)
  BY <1>2, <1>4, <1>6, <1>8, WithAttrLogs
<1> QED BY <1>5, <1>7

LEMMA NoSuchOptionNames ==
  ASSUME NEW path
  PROVE  LoggedAttrs(NoSuchOption(path)) = Only("option", path)
<1> DEFINE w == New("NO_SUCH_OPTION")
<1>1. DOMAIN w = {1} /\ w[1] = [code |-> "NO_SUCH_OPTION", attrs |-> <<>>]
  BY NewIsError
<1>2. NoSuchOption(path) = WithAttr(w, "option", path)
  BY DEF NoSuchOption
<1> HIDE DEF w
<1>3. DOMAIN w \in SUBSET Nat /\ 1 \in DOMAIN w /\ \A i \in DOMAIN w : 1 <= i
  BY <1>1
<1>4. PICK c : c = "NO_SUCH_OPTION"
  OBVIOUS
<1>8. c # ""
  BY <1>4
<1>5. LoggedAttrs(WithAttr(w, "option", path)) = Only("option", path)
  BY <1>1, <1>3, <1>4, <1>8, WithAttrLogs
<1> QED BY <1>2, <1>5

-----------------------------------------------------------------------------
(* Converters.                                                             *)

LEMMA Powers ==
  /\ 2^(3 - 1) = 4 /\ 2^3 = 8 /\ 2^(4 - 1) = 8 /\ 2^4 = 16 /\ 2^(5 - 1) = 16 /\ 2^5 = 32
  /\ 2^(6 - 1) = 32 /\ 2^6 = 64
OBVIOUS

LEMMA PowersIncrease ==
  ASSUME NEW b \in {3, 4, 5, 6} PROVE 2^b \in Nat /\ 2^(b - 1) \in Nat /\ 2^(b - 1) <= 2^b
<1>1. CASE b = 3
  BY <1>1, Powers
<1>2. CASE b = 4
  BY <1>2, Powers
<1>3. CASE b = 5
  BY <1>3, Powers
<1>4. CASE b = 6
  BY <1>4, Powers
<1> QED BY <1>1, <1>2, <1>3, <1>4

LEMMA WidthIs ==
  /\ DOMAIN Width = {"int8", "int16", "int32", "int64", "int", "Duration"}
  /\ \A k \in DOMAIN Width : 2^(Width[k] - 1) \in Nat
<1>1. DOMAIN Width = {"int8", "int16", "int32", "int64", "int", "Duration"}
  BY DEF Width
<1>2. /\ Width["int8"] = 3 /\ Width["int16"] = 4 /\ Width["int32"] = 5
      /\ Width["int64"] = 6 /\ Width["int"] = 6 /\ Width["Duration"] = 6
  BY DEF Width
<1>3. ASSUME NEW k \in DOMAIN Width PROVE Width[k] \in {3, 4, 5, 6}
  BY <1>1, <1>2
<1>4. ASSUME NEW k \in DOMAIN Width PROVE 2^(Width[k] - 1) \in Nat
  BY <1>3, PowersIncrease
<1> QED BY <1>1, <1>4

LEMMA UnsignedIs ==
  /\ DOMAIN Unsigned = {"uint8", "uint16", "uint32", "uint64", "uint"}
  /\ \A k \in DOMAIN Unsigned : /\ 2^Unsigned[k] \in Nat /\ 2^(Unsigned[k] - 1) \in Nat
                                /\ 2^(Unsigned[k] - 1) <= 2^Unsigned[k]
<1>1. DOMAIN Unsigned = {"uint8", "uint16", "uint32", "uint64", "uint"}
  BY DEF Unsigned
<1>2. /\ Unsigned["uint8"] = 3 /\ Unsigned["uint16"] = 4 /\ Unsigned["uint32"] = 5
      /\ Unsigned["uint64"] = 6 /\ Unsigned["uint"] = 6
  BY DEF Unsigned
<1>3. ASSUME NEW k \in DOMAIN Unsigned PROVE Unsigned[k] \in {3, 4, 5, 6}
  BY <1>1, <1>2
<1>4. ASSUME NEW k \in DOMAIN Unsigned
      PROVE  /\ 2^Unsigned[k] \in Nat /\ 2^(Unsigned[k] - 1) \in Nat
             /\ 2^(Unsigned[k] - 1) <= 2^Unsigned[k]
  BY <1>3, PowersIncrease
<1> QED BY <1>1, <1>4

\* A part of a text is a number of a range, or Within declines.
Declining(r) == Declines(r) /\ r.is = "error" /\ r.error \in Seq(Layers)

LEMMA CannotIsDeclining == Declining(Cannot)
BY CannotDeclines DEF Declining

\* A text of Texts, or Flag.
Proper(t) == IsNumeric(t) => n(t) \in Int

LEMMA NumberIsNumeric == ASSUME NEW t, Is(t, {"number"}) PROVE IsNumeric(t)
BY DEF Is, IsNumeric

LEMMA NumberIs == ASSUME NEW t, Proper(t), Is(t, {"number"}) PROVE n(t) \in Int
BY NumberIsNumeric DEF Proper

LEMMA WithinIs ==
  ASSUME NEW t, Proper(t), NEW low \in Int, NEW high \in Int
  PROVE  /\ Is(t, {"number"}) /\ n(t) \in low..high => Within(t, low, high) = Done(n(t))
         /\ ~(Is(t, {"number"}) /\ n(t) \in low..high) => Declining(Within(t, low, high))
<1>1. CASE ~Is(t, {"number"})
  BY <1>1, CannotIsDeclining DEF Within
<1>2. CASE Is(t, {"number"})
  <2>1. n(t) \in Int
    BY <1>2, NumberIs
  <2>2. "VALUE_TOO_SMALL" \in Codes /\ "VALUE_TOO_LARGE" \in Codes
    BY Zenon DEF Codes
  <2>3. Declining(CannotAs("VALUE_TOO_SMALL")) /\ Declining(CannotAs("VALUE_TOO_LARGE"))
    BY <2>2, CannotAsDeclines DEF Declining
  <2>4. CASE n(t) < low
    BY <1>2, <2>1, <2>3, <2>4 DEF Within
  <2>5. CASE n(t) >= low /\ n(t) > high
    <3>1. ~(n(t) < low)
      BY <2>1, <2>5
    <3> QED BY <1>2, <2>1, <2>3, <2>5, <3>1 DEF Within
  <2>6. CASE n(t) >= low /\ n(t) <= high
    <3>1. ~(n(t) < low) /\ ~(n(t) > high)
      BY <2>1, <2>6
    <3> QED BY <1>2, <2>1, <2>6, <3>1 DEF Within
  <2> QED BY <2>1, <2>4, <2>5, <2>6
<1> QED BY <1>1, <1>2

InInt(k, t) == Is(t, {"number"}) /\ n(t) \in -(2^(Width[k] - 1))..(2^(Width[k] - 1) - 1)

\* The range of an unsigned type for its converter, half of it for two of them.
UintLimit(k) == IF k \in {"uint", "uint8"} THEN 2^(Unsigned[k] - 1) - 1 ELSE 2^Unsigned[k] - 1
InUint(k, t) == Is(t, {"number"}) /\ n(t) \in 0..UintLimit(k)

LEMMA IntValueIs ==
  ASSUME NEW k, NEW t, Proper(t)
  PROVE  /\ k \in DOMAIN Width /\ InInt(k, t) => IntValue(k, t) = Done(n(t))
         /\ ~(k \in DOMAIN Width /\ InInt(k, t)) => Declining(IntValue(k, t))
<1>1. CASE k \notin DOMAIN Width
  BY <1>1, CannotIsDeclining DEF IntValue
<1>2. CASE k \in DOMAIN Width
  <2>1. -(2^(Width[k] - 1)) \in Int /\ 2^(Width[k] - 1) - 1 \in Int
    BY <1>2, WidthIs
  <2>2. IntValue(k, t) = Within(t, -(2^(Width[k] - 1)), 2^(Width[k] - 1) - 1)
    BY <1>2 DEF IntValue
  <2> QED BY <1>2, <2>1, <2>2, WithinIs DEF InInt
<1> QED BY <1>1, <1>2

LEMMA UintValueIs ==
  ASSUME NEW k, NEW t, Proper(t)
  PROVE  /\ k \in DOMAIN Unsigned /\ InUint(k, t) => UintValue(k, t) = Done(n(t))
         /\ ~(k \in DOMAIN Unsigned /\ InUint(k, t)) => Declining(UintValue(k, t))
<1>1. CASE k \notin DOMAIN Unsigned
  BY <1>1, CannotIsDeclining DEF UintValue
<1>2. CASE k \in DOMAIN Unsigned
  <2>1. UintLimit(k) \in Int
    BY <1>2, UnsignedIs DEF UintLimit
  <2>2. CASE Is(t, {"number"}) /\ n(t) < 0
    <3>1. ~InUint(k, t)
      BY <2>1, <2>2, NumberIs DEF InUint
    <3>2. UintValue(k, t) = Cannot
      BY <2>2 DEF UintValue
    <3> QED BY <3>1, <3>2, CannotIsDeclining
  <2>3. CASE ~(Is(t, {"number"}) /\ n(t) < 0)
    <3>1. UintValue(k, t) = Within(t, 0, UintLimit(k))
      BY <1>2, <2>3 DEF UintValue, UintLimit
    <3> QED BY <1>2, <2>1, <3>1, WithinIs DEF InUint
  <2> QED BY <2>2, <2>3
<1> QED BY <1>1, <1>2

\* Option.apply takes what the first converter says that does not decline.
LEMMA ApplyFirst ==
  ASSUME NEW o, NEW t, NEW s, s = Converters(o.kind, t), NEW j \in 1..7, ~Declines(s[j]),
         \A i \in 1..(j - 1) : Declines(s[i]),
         ~(o.kind = "string" /\ t # Flag), ~(o.kind = "bool" /\ t = Flag)
  PROVE  ApplyOption(o, t) = IF s[j].is = "error" THEN Fails(Incompatible(o, s[j].error)) ELSE s[j]
<1> DEFINE I == {i \in 1..Len(s) : ~Declines(s[i])}
<1>1. Len(s) = 7
  BY DEF Converters
<1>2. I \in SUBSET Nat /\ j \in I /\ \A i \in I : j <= i
  BY <1>1
<1>3. SelectInSeq(s, LAMBDA r : ~Declines(r)) = IF I # {} THEN Min(I) ELSE 0
  BY DEF SelectInSeq
<1> HIDE DEF I
<1>4. SelectInSeq(s, LAMBDA r : ~Declines(r)) = j
  BY <1>2, <1>3, MinIs
<1>5. j # 0
  OBVIOUS
<1> QED BY <1>4, <1>5 DEF ApplyOption, Declines

LEMMA ApplyNone ==
  ASSUME NEW o, NEW t, NEW s, s = Converters(o.kind, t), \A i \in 1..7 : Declining(s[i]),
         ~(o.kind = "string" /\ t # Flag), ~(o.kind = "bool" /\ t = Flag)
  PROVE  ApplyOption(o, t) = Fails(Incompatible(o, s[7].error))
<1> DEFINE I == {i \in 1..Len(s) : ~Declines(s[i])}
<1>1. Len(s) = 7
  BY DEF Converters
<1>2. I = {}
  BY <1>1 DEF Declining
<1>3. SelectInSeq(s, LAMBDA r : ~Declines(r)) = IF I # {} THEN Min(I) ELSE 0
  BY DEF SelectInSeq
<1> HIDE DEF I
<1>4. SelectInSeq(s, LAMBDA r : ~Declines(r)) = 0
  BY <1>2, <1>3
<1>5. s[7].is = "error" /\ Last(s) = s[7]
  BY <1>1 DEF Declining, Last
<1> QED BY <1>4, <1>5 DEF ApplyOption, Declines

LEMMA PartForm == ASSUME NEW form, NEW num, NEW s PROVE Part(form, num, s).form = form
BY DEF Part

LEMMA FlagIs == ASSUME NEW forms, "flag" \notin forms PROVE ~Is(Flag, forms)
<1> DEFINE p == Part("flag", 1, "")
<1>1. Flag = <<p>> /\ p.form = "flag"
  BY PartForm DEF Flag
<1> HIDE DEF p
<1> QED BY <1>1 DEF Is

LEMMA FlagIsNotNumeric == ~IsNumeric(Flag)
BY FlagIs DEF IsNumeric

LEMMA TextsAreProper == Proper(Flag) /\ \A t \in Texts : Proper(t)
<1> DEFINE R == [form : STRING, n : Int, s : STRING]
<1>1. ASSUME NEW t \in Texts, IsNumeric(t) PROVE n(t) \in Int
  <2>1. Len(t) = 1 /\ t \in Seq(R)
    BY <1>1 DEF IsNumeric, Is, Texts
  <2> HIDE DEF R
  <2>2. t[1] \in R
    BY <2>1
  <2> QED BY <2>2 DEF n, R
<1> QED BY <1>1, FlagIsNotNumeric DEF Proper

\* What each converter says.
LEMMA TriedIs ==
  ASSUME NEW k, NEW t, Proper(t), NEW s, s = Converters(k, t)
  PROVE  /\ k \notin {"Level", "AddrPort"} \/ t = Flag => Declining(s[1])
         /\ k = "Level" /\ t # Flag => s[1] = IF Is(t, {"level"}) THEN Done(t) ELSE Fails(Foreign)
         /\ k = "AddrPort" /\ t # Flag => s[1] = IF Is(t, {"address", "empty"}) THEN Done(t) ELSE Fails(Foreign)
         /\ k # "list" \/ t = Flag => Declining(s[2])
         /\ k = "list" /\ t # Flag => s[2] = Done(t)
         /\ k \in DOMAIN Width /\ InInt(k, t) => s[3] = Done(n(t))
         /\ ~(k \in DOMAIN Width /\ InInt(k, t)) => Declining(s[3])
         /\ k \in DOMAIN Unsigned /\ InUint(k, t) => s[4] = Done(n(t))
         /\ ~(k \in DOMAIN Unsigned /\ InUint(k, t)) => Declining(s[4])
         /\ ~IsNumeric(t) => Declining(s[5])
         /\ IsNumeric(t) => s[5] = IF k = "float" THEN Done(t) ELSE Panics
         /\ k # "bytes" \/ t = Flag => Declining(s[6])
         /\ k = "bytes" /\ t # Flag => s[6] = Done(t)
         /\ k = "Duration" /\ Is(t, {"span"}) => s[7] = Done(n(t))
         /\ ~(k = "Duration" /\ Is(t, {"span"})) => Declining(s[7])
<1>1. /\ s[1] = UnmarshalText(k, t) /\ s[2] = StringSlice(k, t) /\ s[3] = IntValue(k, t) /\ s[4] = UintValue(k, t)
      /\ s[5] = FloatValue(k, t) /\ s[6] = StringValue(k, t) /\ s[7] = DurationValue(k, t)
  BY DEF Converters
<1>2. /\ k \notin {"Level", "AddrPort"} \/ t = Flag => UnmarshalText(k, t) = Cannot
      /\ k = "Level" /\ t # Flag => UnmarshalText(k, t) = IF Is(t, {"level"}) THEN Done(t) ELSE Fails(Foreign)
      /\ k = "AddrPort" /\ t # Flag =>
           UnmarshalText(k, t) = IF Is(t, {"address", "empty"}) THEN Done(t) ELSE Fails(Foreign)
  BY DEF UnmarshalText
<1>3. /\ k # "list" \/ t = Flag => StringSlice(k, t) = Cannot
      /\ k = "list" /\ t # Flag => StringSlice(k, t) = Done(t)
  BY DEF StringSlice
<1>4. /\ ~IsNumeric(t) => FloatValue(k, t) = Cannot
      /\ IsNumeric(t) => FloatValue(k, t) = IF k = "float" THEN Done(t) ELSE Panics
  BY DEF FloatValue
<1>5. /\ k # "bytes" \/ t = Flag => StringValue(k, t) = Cannot
      /\ k = "bytes" /\ t # Flag => StringValue(k, t) = Done(t)
  BY DEF StringValue
<1>6. /\ k = "Duration" /\ Is(t, {"span"}) => DurationValue(k, t) = Done(n(t))
      /\ ~(k = "Duration" /\ Is(t, {"span"})) => DurationValue(k, t) = Cannot
  BY DEF DurationValue
<1> QED BY <1>1, <1>2, <1>3, <1>4, <1>5, <1>6, CannotIsDeclining, IntValueIs, UintValueIs

LEMMA ApplyDone ==
  ASSUME NEW o, NEW t, NEW s, s = Converters(o.kind, t), NEW j \in 1..7, NEW v, s[j] = Done(v),
         \A i \in 1..(j - 1) : Declining(s[i]),
         ~(o.kind = "string" /\ t # Flag), ~(o.kind = "bool" /\ t = Flag)
  PROVE  ApplyOption(o, t) = Done(v)
<1>1. ~Declines(s[j]) /\ s[j].is = "done"
  BY OthersDoNot
<1>2. \A i \in 1..(j - 1) : Declines(s[i])
  BY DEF Declining
<1>3. s[j].is # "error"
  BY <1>1
<1> QED BY <1>1, <1>2, <1>3, ApplyFirst

LEMMA ApplyPanics ==
  ASSUME NEW o, NEW t, NEW s, s = Converters(o.kind, t), s[5] = Panics,
         Declining(s[1]), Declining(s[2]), Declining(s[3]), Declining(s[4]),
         ~(o.kind = "string" /\ t # Flag), ~(o.kind = "bool" /\ t = Flag)
  PROVE  ApplyOption(o, t) = Panics
<1>1. ~Declines(s[5]) /\ s[5].is = "panic"
  BY OthersDoNot
<1>2. \A i \in 1..(5 - 1) : Declines(s[i])
  BY DEF Declining
<1>3. s[5].is # "error"
  BY <1>1
<1> QED BY <1>1, <1>2, <1>3, ApplyFirst

\* An error that names the option.
NamesOption(o, r) == r.is = "error" /\ LoggedAttrs(r.error) = Only("option", o.path)

LEMMA FailsNames == ASSUME NEW o, NEW cause \in Seq(Layers) PROVE NamesOption(o, Fails(Incompatible(o, cause)))
<1>1. Fails(Incompatible(o, cause)).is = "error" /\ Fails(Incompatible(o, cause)).error = Incompatible(o, cause)
  BY DEF Fails
<1> QED BY <1>1, IncompatibleNames DEF NamesOption

LEMMA ApplyFails ==
  ASSUME NEW o, NEW t, NEW s, s = Converters(o.kind, t), \A i \in 1..7 : Declining(s[i]),
         ~(o.kind = "string" /\ t # Flag), ~(o.kind = "bool" /\ t = Flag)
  PROVE  NamesOption(o, ApplyOption(o, t))
<1>1. ApplyOption(o, t) = Fails(Incompatible(o, s[7].error))
  BY ApplyNone
<1>2. s[7].error \in Seq(Layers)
  BY DEF Declining
<1> QED BY <1>1, <1>2, FailsNames

LEMMA ApplyForeign ==
  ASSUME NEW o, NEW t, NEW s, s = Converters(o.kind, t), s[1] = Fails(Foreign), o.kind \notin {"string", "bool"}
  PROVE  NamesOption(o, ApplyOption(o, t))
<1>1. ~Declines(s[1]) /\ s[1].is = "error" /\ s[1].error \in Seq(Layers)
  BY ForeignDoesNot
<1>2. \A i \in 1..(1 - 1) : Declines(s[i])
  OBVIOUS
<1>3. ApplyOption(o, t) = Fails(Incompatible(o, s[1].error))
  BY <1>1, <1>2, ApplyFirst
<1> QED BY <1>1, <1>3, FailsNames

\* What becomes of a text is what its meaning and its fitness say.
Right(o, t, r) ==
  \/ r.is = "done" /\ Accepted(o, t) /\ r.value = Meaning(o.kind, t)
  \/ NamesOption(o, r) /\ ~Accepted(o, t)
  \/ r.is = "panic" /\ ~Accepted(o, t) /\ Unfit(o.kind, t)

LEMMA RightDone == ASSUME NEW o, NEW t, Accepted(o, t) PROVE Right(o, t, Done(Meaning(o.kind, t)))
BY OthersDoNot DEF Right

LEMMA RightPanics == ASSUME NEW o, NEW t, Unfit(o.kind, t) PROVE Right(o, t, Panics)
BY OthersDoNot DEF Right, Accepted

LEMMA KindsAre ==
  /\ DOMAIN Width \cap {"string", "bool", "bytes", "list", "float", "Level", "AddrPort"} = {}
  /\ DOMAIN Unsigned \cap {"string", "bool", "bytes", "list", "float", "Level", "AddrPort"} = {}
  /\ DOMAIN Width \cap DOMAIN Unsigned = {}
  /\ "Duration" \in DOMAIN Width
BY WidthIs, UnsignedIs

LEMMA ApplyString ==
  ASSUME NEW o, o.kind = "string", NEW t, Proper(t) PROVE Right(o, t, ApplyOption(o, t))
<1>1. CASE t # Flag
  <2>1. ApplyOption(o, t) = Done(t)
    BY <1>1 DEF ApplyOption
  <2>2. HasMeaning(o.kind, t) /\ ~Unfit(o.kind, t)
    BY <1>1, KindsAre DEF HasMeaning, Unfit
  <2>3. Meaning(o.kind, t) = t
    BY KindsAre DEF Meaning
  <2> QED BY <2>1, <2>2, <2>3, RightDone DEF Accepted
<1>2. CASE t = Flag
  <2>1. PICK s : s = Converters(o.kind, t)
    OBVIOUS
  <2>2. \A i \in 1..7 : Declining(s[i])
    BY <1>2, <2>1, TriedIs, KindsAre, FlagIsNotNumeric
  <2>3. NamesOption(o, ApplyOption(o, t))
    BY <1>2, <2>1, <2>2, ApplyFails
  <2>4. ~HasMeaning(o.kind, t)
    BY <1>2 DEF HasMeaning
  <2> QED BY <2>3, <2>4 DEF Right, Accepted
<1> QED BY <1>1, <1>2

LEMMA ApplyBool ==
  ASSUME NEW o, o.kind = "bool", NEW t, Proper(t) PROVE Right(o, t, ApplyOption(o, t))
<1>0. PICK s : s = Converters(o.kind, t)
  OBVIOUS
<1>1. CASE t = Flag
  <2>1. ApplyOption(o, t) = Done(TRUE)
    BY <1>1 DEF ApplyOption
  <2>2. HasMeaning(o.kind, t) /\ ~Unfit(o.kind, t)
    BY <1>1, FlagIsNotNumeric DEF HasMeaning, Unfit
  <2>3. Meaning(o.kind, t) = TRUE
    BY KindsAre DEF Meaning
  <2> QED BY <2>1, <2>2, <2>3, RightDone DEF Accepted
<1>2. t # Flag => ~HasMeaning(o.kind, t)
  BY KindsAre DEF HasMeaning
<1>3. CASE t # Flag /\ IsNumeric(t)
  <2>1. s[5] = Panics /\ Declining(s[1]) /\ Declining(s[2]) /\ Declining(s[3]) /\ Declining(s[4])
    BY <1>0, <1>3, TriedIs, KindsAre
  <2>2. ApplyOption(o, t) = Panics
    BY <1>0, <1>3, <2>1, ApplyPanics
  <2>3. Unfit(o.kind, t)
    BY <1>2, <1>3 DEF Unfit
  <2> QED BY <2>2, <2>3, RightPanics
<1>4. CASE t # Flag /\ ~IsNumeric(t)
  <2>1. \A i \in 1..7 : Declining(s[i])
    BY <1>0, <1>4, TriedIs, KindsAre
  <2>2. NamesOption(o, ApplyOption(o, t))
    BY <1>0, <1>4, <2>1, ApplyFails
  <2> QED BY <1>2, <1>4, <2>2 DEF Right, Accepted
<1> QED BY <1>1, <1>3, <1>4

LEMMA ApplyBytes ==
  ASSUME NEW o, o.kind = "bytes", NEW t, Proper(t) PROVE Right(o, t, ApplyOption(o, t))
<1>0. PICK s : s = Converters(o.kind, t)
  OBVIOUS
<1>1. CASE t = Flag
  <2>1. \A i \in 1..7 : Declining(s[i])
    BY <1>0, <1>1, TriedIs, KindsAre, FlagIsNotNumeric
  <2>2. NamesOption(o, ApplyOption(o, t))
    BY <1>0, <1>1, <2>1, ApplyFails
  <2>3. ~HasMeaning(o.kind, t)
    BY <1>1 DEF HasMeaning
  <2> QED BY <2>2, <2>3 DEF Right, Accepted
<1>2. CASE IsNumeric(t)
  <2>1. s[5] = Panics /\ Declining(s[1]) /\ Declining(s[2]) /\ Declining(s[3]) /\ Declining(s[4])
    BY <1>0, <1>2, TriedIs, KindsAre
  <2>2. ApplyOption(o, t) = Panics
    BY <1>0, <2>1, ApplyPanics
  <2>3. Unfit(o.kind, t)
    BY <1>2 DEF Unfit
  <2> QED BY <2>2, <2>3, RightPanics
<1>3. CASE t # Flag /\ ~IsNumeric(t)
  <2>1. s[6] = Done(t) /\ \A i \in 1..(6 - 1) : Declining(s[i])
    BY <1>0, <1>3, TriedIs, KindsAre
  <2>2. ApplyOption(o, t) = Done(t)
    BY <1>0, <2>1, ApplyDone
  <2>3. HasMeaning(o.kind, t) /\ ~Unfit(o.kind, t)
    BY <1>3 DEF HasMeaning, Unfit
  <2>4. Meaning(o.kind, t) = t
    BY KindsAre DEF Meaning
  <2> QED BY <2>2, <2>3, <2>4, RightDone DEF Accepted
<1> QED BY <1>1, <1>2, <1>3

LEMMA ApplyList ==
  ASSUME NEW o, o.kind = "list", NEW t, Proper(t) PROVE Right(o, t, ApplyOption(o, t))
<1>0. PICK s : s = Converters(o.kind, t)
  OBVIOUS
<1>1. CASE t = Flag
  <2>1. \A i \in 1..7 : Declining(s[i])
    BY <1>0, <1>1, TriedIs, KindsAre, FlagIsNotNumeric
  <2>2. NamesOption(o, ApplyOption(o, t))
    BY <1>0, <1>1, <2>1, ApplyFails
  <2>3. ~HasMeaning(o.kind, t)
    BY <1>1 DEF HasMeaning
  <2> QED BY <2>2, <2>3 DEF Right, Accepted
<1>2. CASE t # Flag
  <2>1. s[2] = Done(t) /\ \A i \in 1..(2 - 1) : Declining(s[i])
    BY <1>0, <1>2, TriedIs
  <2>2. ApplyOption(o, t) = Done(t)
    BY <1>0, <2>1, ApplyDone
  <2>3. HasMeaning(o.kind, t) /\ ~Unfit(o.kind, t)
    BY <1>2, KindsAre DEF HasMeaning, Unfit
  <2>4. Meaning(o.kind, t) = t
    BY KindsAre DEF Meaning
  <2> QED BY <2>2, <2>3, <2>4, RightDone DEF Accepted
<1> QED BY <1>1, <1>2

LEMMA ApplyFloat ==
  ASSUME NEW o, o.kind = "float", NEW t, Proper(t) PROVE Right(o, t, ApplyOption(o, t))
<1>0. PICK s : s = Converters(o.kind, t)
  OBVIOUS
<1>1. CASE ~IsNumeric(t)
  <2>1. \A i \in 1..7 : Declining(s[i])
    BY <1>0, <1>1, TriedIs, KindsAre
  <2>2. NamesOption(o, ApplyOption(o, t))
    BY <1>0, <2>1, ApplyFails
  <2>3. ~HasMeaning(o.kind, t)
    BY <1>1, KindsAre DEF HasMeaning
  <2> QED BY <2>2, <2>3 DEF Right, Accepted
<1>2. CASE IsNumeric(t)
  <2>1. s[5] = Done(t) /\ \A i \in 1..(5 - 1) : Declining(s[i])
    BY <1>0, <1>2, TriedIs, KindsAre
  <2>2. ApplyOption(o, t) = Done(t)
    BY <1>0, <2>1, ApplyDone
  <2>3. t # Flag
    BY <1>2, FlagIsNotNumeric
  <2>4. HasMeaning(o.kind, t) /\ ~Unfit(o.kind, t)
    BY <1>2, <2>3, KindsAre DEF HasMeaning, Unfit
  <2>5. Meaning(o.kind, t) = t
    BY KindsAre DEF Meaning
  <2> QED BY <2>2, <2>4, <2>5, RightDone DEF Accepted
<1> QED BY <1>1, <1>2

\* Levels and addresses: the parser of the type decides.
LEMMA ApplyUnmarshaler ==
  ASSUME NEW o, o.kind \in {"Level", "AddrPort"}, NEW t, Proper(t) PROVE Right(o, t, ApplyOption(o, t))
<1> DEFINE reads == IF o.kind = "Level" THEN Is(t, {"level"}) ELSE Is(t, {"address", "empty"})
<1>0. PICK s : s = Converters(o.kind, t)
  OBVIOUS
<1>1. ~Unfit(o.kind, t)
  BY KindsAre DEF Unfit
<1>2. HasMeaning(o.kind, t) <=> t # Flag /\ reads
  BY KindsAre DEF HasMeaning
<1>3. CASE t = Flag
  <2>1. \A i \in 1..7 : Declining(s[i])
    BY <1>0, <1>3, TriedIs, KindsAre, FlagIsNotNumeric
  <2>2. NamesOption(o, ApplyOption(o, t))
    BY <1>0, <2>1, ApplyFails
  <2> QED BY <1>2, <1>3, <2>2 DEF Right, Accepted
<1>4. CASE t # Flag /\ reads
  <2>1. s[1] = Done(t) /\ \A i \in 1..(1 - 1) : Declining(s[i])
    BY <1>0, <1>4, TriedIs
  <2>2. ApplyOption(o, t) = Done(t)
    BY <1>0, <2>1, ApplyDone
  <2>3. Meaning(o.kind, t) = t
    BY KindsAre DEF Meaning
  <2> QED BY <1>1, <1>2, <1>4, <2>2, <2>3, RightDone DEF Accepted
<1>5. CASE t # Flag /\ ~reads
  <2>1. s[1] = Fails(Foreign)
    BY <1>0, <1>5, TriedIs
  <2>2. NamesOption(o, ApplyOption(o, t))
    BY <1>0, <2>1, ApplyForeign
  <2> QED BY <1>2, <1>5, <2>2 DEF Right, Accepted
<1> QED BY <1>3, <1>4, <1>5

LEMMA ApplyInt ==
  ASSUME NEW o, o.kind \in DOMAIN Width, NEW t, Proper(t) PROVE Right(o, t, ApplyOption(o, t))
<1> DEFINE span == o.kind = "Duration" /\ Is(t, {"span"})
<1>0. PICK s : s = Converters(o.kind, t)
  OBVIOUS
<1>1. o.kind \notin {"string", "bool", "bytes", "list", "float", "Level", "AddrPort", "uint", "uint8"}
      /\ o.kind \notin DOMAIN Unsigned
  BY KindsAre, UnsignedIs
<1>2. HasMeaning(o.kind, t) <=> t # Flag /\ (span \/ InInt(o.kind, t))
  BY <1>1 DEF HasMeaning, InInt
<1>3. Unfit(o.kind, t) <=> IsNumeric(t) /\ ~HasMeaning(o.kind, t)
  BY <1>1 DEF Unfit
<1>4. Meaning(o.kind, t) = n(t)
  BY <1>1 DEF Meaning
<1>5. InInt(o.kind, t) => IsNumeric(t) /\ t # Flag
  BY NumberIsNumeric, FlagIsNotNumeric DEF InInt
<1>6. span => ~IsNumeric(t) /\ t # Flag
  BY FlagIs DEF Is, IsNumeric
<1> HIDE DEF span
<1>7. /\ Declining(s[1]) /\ Declining(s[2]) /\ Declining(s[4]) /\ Declining(s[6])
      /\ InInt(o.kind, t) => s[3] = Done(n(t))
      /\ ~InInt(o.kind, t) => Declining(s[3])
      /\ ~IsNumeric(t) => Declining(s[5])
      /\ IsNumeric(t) => s[5] = Panics
  BY <1>0, <1>1, TriedIs
<1>8. (span => s[7] = Done(n(t))) /\ (~span => Declining(s[7]))
  BY <1>0, TriedIs DEF span
<1>9. CASE InInt(o.kind, t)
  <2>1. \A i \in 1..(3 - 1) : Declining(s[i])
    BY <1>7
  <2>2. ApplyOption(o, t) = Done(n(t))
    BY <1>0, <1>1, <1>7, <1>9, <2>1, ApplyDone
  <2> QED BY <1>2, <1>3, <1>4, <1>5, <1>9, <2>2, RightDone DEF Accepted
<1>10. CASE ~InInt(o.kind, t) /\ IsNumeric(t)
  <2>1. ApplyOption(o, t) = Panics
    BY <1>0, <1>1, <1>7, <1>10, ApplyPanics
  <2> QED BY <1>2, <1>3, <1>6, <1>10, <2>1, RightPanics
<1>11. CASE span
  <2>1. \A i \in 1..(7 - 1) : Declining(s[i])
    BY <1>5, <1>6, <1>7, <1>11
  <2>2. ApplyOption(o, t) = Done(n(t))
    BY <1>0, <1>1, <1>8, <1>11, <2>1, ApplyDone
  <2> QED BY <1>2, <1>3, <1>4, <1>6, <1>11, <2>2, RightDone DEF Accepted
<1>12. CASE ~InInt(o.kind, t) /\ ~IsNumeric(t) /\ ~span
  <2>1. \A i \in 1..7 : Declining(s[i])
    BY <1>7, <1>8, <1>12
  <2>2. NamesOption(o, ApplyOption(o, t))
    BY <1>0, <1>1, <2>1, ApplyFails
  <2> QED BY <1>2, <1>12, <2>2 DEF Right, Accepted
<1> QED BY <1>9, <1>10, <1>11, <1>12

LEMMA ApplyUint ==
  ASSUME NEW o, o.kind \in DOMAIN Unsigned, NEW t, Proper(t) PROVE Right(o, t, ApplyOption(o, t))
<1> DEFINE half == o.kind \in {"uint", "uint8"}
<1>0. PICK s : s = Converters(o.kind, t)
  OBVIOUS
<1>1. o.kind \notin {"string", "bool", "bytes", "list", "float", "Level", "AddrPort"} /\ o.kind \notin DOMAIN Width
  BY KindsAre
<1>2. HasMeaning(o.kind, t) <=> t # Flag /\ Is(t, {"number"}) /\ n(t) \in 0..(2^Unsigned[o.kind] - 1)
  BY <1>1, KindsAre DEF HasMeaning
<1>3. Unfit(o.kind, t) <=> IsNumeric(t) /\ (~HasMeaning(o.kind, t) \/ (half /\ n(t) >= 2^(Unsigned[o.kind] - 1)))
  BY <1>1 DEF Unfit
<1>4. Meaning(o.kind, t) = n(t)
  BY <1>1 DEF Meaning
<1>5. Is(t, {"number"}) => IsNumeric(t) /\ t # Flag
  BY NumberIsNumeric, FlagIsNotNumeric
<1>6. IsNumeric(t) => n(t) \in Int
  BY DEF Proper
<1>7. InUint(o.kind, t) <=> Accepted(o, t)
  <2>1. PICK r \in Nat, h \in Nat : r = 2^Unsigned[o.kind] /\ h = 2^(Unsigned[o.kind] - 1) /\ h <= r
    BY UnsignedIs
  <2>2. InUint(o.kind, t) <=> Is(t, {"number"}) /\ n(t) \in 0..(IF half THEN h - 1 ELSE r - 1)
    BY <2>1 DEF InUint, UintLimit
  <2>3. Accepted(o, t) <=> /\ t # Flag /\ Is(t, {"number"}) /\ n(t) \in 0..(r - 1)
                           /\ ~(IsNumeric(t) /\ half /\ n(t) >= h)
    BY <1>2, <1>3, <2>1 DEF Accepted
  <2>4. CASE ~Is(t, {"number"})
    BY <2>2, <2>3, <2>4
  <2>5. CASE Is(t, {"number"})
    <3>1. n(t) \in Int /\ IsNumeric(t) /\ t # Flag
      BY <1>5, <1>6, <2>5
    <3> HIDE DEF half
    <3>2. CASE half
      BY <2>1, <2>2, <2>3, <2>5, <3>1, <3>2
    <3>3. CASE ~half
      BY <2>1, <2>2, <2>3, <2>5, <3>1, <3>3
    <3> QED BY <3>2, <3>3
  <2> QED BY <2>4, <2>5
<1>8. ~InUint(o.kind, t) /\ IsNumeric(t) => Unfit(o.kind, t)
  BY <1>3, <1>7 DEF Accepted
<1>9. /\ Declining(s[1]) /\ Declining(s[2]) /\ Declining(s[3]) /\ Declining(s[6]) /\ Declining(s[7])
      /\ InUint(o.kind, t) => s[4] = Done(n(t))
      /\ ~InUint(o.kind, t) => Declining(s[4])
      /\ ~IsNumeric(t) => Declining(s[5])
      /\ IsNumeric(t) => s[5] = Panics
  BY <1>0, <1>1, KindsAre, TriedIs
<1>10. CASE InUint(o.kind, t)
  <2>1. \A i \in 1..(4 - 1) : Declining(s[i])
    BY <1>9
  <2>2. ApplyOption(o, t) = Done(n(t))
    BY <1>0, <1>1, <1>9, <1>10, <2>1, ApplyDone
  <2> QED BY <1>4, <1>7, <1>10, <2>2, RightDone
<1>11. CASE ~InUint(o.kind, t) /\ IsNumeric(t)
  <2>1. ApplyOption(o, t) = Panics
    BY <1>0, <1>1, <1>9, <1>11, ApplyPanics
  <2> QED BY <1>8, <1>11, <2>1, RightPanics
<1>12. CASE ~InUint(o.kind, t) /\ ~IsNumeric(t)
  <2>1. \A i \in 1..7 : Declining(s[i])
    BY <1>9, <1>12
  <2>2. NamesOption(o, ApplyOption(o, t))
    BY <1>0, <1>1, <2>1, ApplyFails
  <2> QED BY <1>7, <1>12, <2>2 DEF Right
<1> QED BY <1>10, <1>11, <1>12

\* The converters and their order do what the types call for: a text is
\* assigned with its meaning, is refused with an error that names the option, or
\* is a number that the converter for floats cannot assign
\* (parser.go:279-301, converter.go and the converters).
THEOREM ApplyIsRight ==
  ASSUME NEW o, o.kind \in Kinds, NEW t, Proper(t) PROVE Right(o, t, ApplyOption(o, t))
BY ApplyString, ApplyBool, ApplyBytes, ApplyList, ApplyFloat, ApplyUnmarshaler, ApplyInt, ApplyUint DEF Kinds

-----------------------------------------------------------------------------
(* The inductive invariant.                                                *)

\* How many of the words have been dealt with.
Consumed ==
  CASE phase = "defaults" -> position - 1
    [] phase = "environment" -> Len(options) + position - 1
    [] phase = "command" -> Len(options) + Len(environment) + position - 1
    [] OTHER -> Len(options) + Len(environment) + Len(arguments)

\* The words about a path among the first k of what is said.
AboutIn(said, k, path) == {j \in 1..k : said[j].is = "says" /\ Equals(said[j].path, path)}
ValueIn(o, said, k) ==
  LET about == AboutIn(said, k, o.path) IN
  IF about = {} THEN Zero(o.kind) ELSE Meaning(o.kind, said[Max(about)].text)

Running == phase \notin {"failed", "panicked"}

\* The parser has not passed a word that it should have stopped at, and what
\* has been said so far decides the values.
Clean  == Running => \A j \in 1..Consumed : ~Faulty(Said[j])
Filled == Running => \A i \in DOMAIN options : values[i] = ValueIn(options[i], Said, Consumed)

\* The next argument is not the value of the one before.
Aligned == phase = "command" => position = 1 \/ ~IsText(position) \/ IsText(position - 1)

Inv == TypeOK /\ Clean /\ Filled /\ Aligned /\ FirstFaultReported /\ PanicsExplained

-----------------------------------------------------------------------------
(* What is said.                                                           *)

LEMMA HasLeast == ASSUME NEW I \in SUBSET Nat, I # {} PROVE \E j \in I : \A i \in I : j <= i
<1> DEFINE R == OpToRel(<, Nat)
<1>1. IsWellFoundedOn(R, Nat)
  BY NatLessThanWellFounded
<1>2. \A x, y \in Nat : y < x => <<y, x>> \in R
  BY DEF OpToRel
<1> HIDE DEF R
<1>3. PICK j \in I : \A i \in I : <<i, j>> \notin R
  BY <1>1, WFMin
<1>4. \A i \in I : ~(i < j)
  BY <1>2, <1>3
<1> QED BY <1>4

LEMMA FindIs ==
  ASSUME options \in Seq(OptionType), NEW path
  PROVE  /\ Find(path) = 0 => \A i \in DOMAIN options : ~Equals(options[i].path, path)
         /\ Find(path) # 0 => Find(path) \in DOMAIN options /\ Equals(options[Find(path)].path, path)
<1> DEFINE I == {i \in 1..Len(options) : Equals(options[i].path, path)}
<1>1. Find(path) = IF I # {} THEN Min(I) ELSE 0
  BY DEF Find, SelectInSeq
<1>2. DOMAIN options = 1..Len(options) /\ Len(options) \in Nat
  OBVIOUS
<1>3. CASE I = {}
  BY <1>1, <1>2, <1>3
<1>4. CASE I # {}
  <2>1. I \in SUBSET Nat /\ \A i \in I : i > 0
    BY <1>2
  <2> HIDE DEF I
  <2>3. PICK j \in I : \A i \in I : j <= i
    BY <1>4, <2>1, HasLeast
  <2>4. Find(path) = j
    BY <1>1, <1>4, <2>1, <2>3, MinIs
  <2>5. j # 0
    BY <2>1
  <2> QED BY <1>2, <2>4, <2>5 DEF I
<1> QED BY <1>3, <1>4

LEMMA EqualsItself == ASSUME NEW p PROVE Equals(p, p)
BY DEF Equals

LEMMA FoundIsOnly ==
  ASSUME TypeOK, NEW i \in DOMAIN options, NEW j \in DOMAIN options, NEW path,
         Equals(options[i].path, path), Equals(options[j].path, path)
  PROVE  i = j
<1>1. Equals(options[i].path, options[j].path)
  BY DEF Equals
<1> QED BY <1>1 DEF TypeOK, Distinct

LEMMA MapIsSeq ==
  ASSUME NEW m \in Nat, NEW f, NEW T, f = [i \in 1..m |-> f[i]], \A i \in 1..m : f[i] \in T
  PROVE  f \in Seq(T) /\ Len(f) = m
<1>1. f \in [1..m -> T]
  OBVIOUS
<1> QED BY <1>1

LEMMA ThreeParts ==
  ASSUME NEW T, NEW f \in Seq(T), NEW g \in Seq(T), NEW h \in Seq(T), NEW s, s = f \o g \o h
  PROVE  /\ DOMAIN s = 1..(Len(f) + Len(g) + Len(h))
         /\ \A i \in 1..Len(f) : s[i] = f[i]
         /\ \A i \in 1..Len(g) : s[Len(f) + i] = g[i]
         /\ \A i \in 1..Len(h) : s[Len(f) + Len(g) + i] = h[i]
<1>1. f \o g \in Seq(T) /\ Len(f \o g) = Len(f) + Len(g)
  BY ConcatProperties
<1>2. PICK fg \in Seq(T) : fg = f \o g
  BY <1>1
<1>3. fg \o h \in Seq(T) /\ Len(fg \o h) = Len(fg) + Len(h)
  BY ConcatProperties
<1>4. s = fg \o h
  BY <1>2
<1>5. Len(f) \in Nat /\ Len(g) \in Nat /\ Len(h) \in Nat
  OBVIOUS
<1>6. ASSUME NEW i \in 1..Len(fg) PROVE s[i] = fg[i]
  BY <1>3, <1>4, ConcatProperties
<1>7. ASSUME NEW i \in 1..Len(f) PROVE s[i] = f[i]
  <2>1. fg[i] = f[i] /\ i \in 1..Len(fg)
    BY <1>1, <1>2, <1>5, ConcatProperties
  <2> QED BY <1>6, <2>1
<1>8. ASSUME NEW i \in 1..Len(g) PROVE s[Len(f) + i] = g[i]
  <2>1. Len(f) + i \in 1..Len(fg) /\ ~(Len(f) + i <= Len(f)) /\ (Len(f) + i) - Len(f) = i
    BY <1>1, <1>2, <1>5
  <2>2. fg[Len(f) + i] = g[i]
    BY <1>1, <1>2, <2>1, ConcatProperties
  <2> QED BY <1>6, <2>1, <2>2
<1>9. ASSUME NEW i \in 1..Len(h) PROVE s[Len(f) + Len(g) + i] = h[i]
  <2>1. /\ Len(fg) + i \in 1..(Len(fg) + Len(h)) /\ ~(Len(fg) + i <= Len(fg)) /\ (Len(fg) + i) - Len(fg) = i
        /\ Len(fg) + i = Len(f) + Len(g) + i
    BY <1>1, <1>2, <1>5
  <2>2. s[Len(fg) + i] = h[i]
    BY <1>4, <2>1, ConcatProperties
  <2> QED BY <2>1, <2>2
<1>10. DOMAIN s = 1..(Len(f) + Len(g) + Len(h))
  BY <1>1, <1>2, <1>3, <1>4
<1> QED BY <1>7, <1>8, <1>9, <1>10

\* The words in the order of their sources.
LEMMA SaidIs ==
  ASSUME TypeOK
  PROVE  /\ DOMAIN Said = 1..(Len(options) + Len(environment) + Len(arguments))
         /\ \A i \in DOMAIN options : Said[i] = DefaultSays(options[i])
         /\ \A i \in DOMAIN environment : Said[Len(options) + i] = VariableSays(environment[i])
         /\ \A i \in DOMAIN arguments : Said[Len(options) + Len(environment) + i] = ArgumentSays(i)
<1>1. /\ Len(options) \in Nat /\ Len(environment) \in Nat /\ Len(arguments) \in Nat
      /\ DOMAIN options = 1..Len(options) /\ DOMAIN environment = 1..Len(environment)
      /\ DOMAIN arguments = 1..Len(arguments)
  BY DEF TypeOK
<1>2. PICK f : f = [i \in DOMAIN options |-> DefaultSays(options[i])]
  OBVIOUS
<1>3. PICK g : g = [i \in DOMAIN environment |-> VariableSays(environment[i])]
  OBVIOUS
<1>4. PICK h : h = [i \in DOMAIN arguments |-> ArgumentSays(i)]
  OBVIOUS
<1>5. PICK T : T = {f[i] : i \in 1..Len(options)} \cup {g[i] : i \in 1..Len(environment)} \cup {h[i] : i \in 1..Len(arguments)}
  OBVIOUS
<1>6. f \in Seq(T) /\ Len(f) = Len(options)
  BY <1>1, <1>2, <1>5, MapIsSeq
<1>7. g \in Seq(T) /\ Len(g) = Len(environment)
  BY <1>1, <1>3, <1>5, MapIsSeq
<1>8. h \in Seq(T) /\ Len(h) = Len(arguments)
  BY <1>1, <1>4, <1>5, MapIsSeq
<1>9. Said = f \o g \o h
  BY <1>2, <1>3, <1>4 DEF Said
<1>10. PICK s : s = f \o g \o h
  OBVIOUS
<1>11. /\ DOMAIN s = 1..(Len(f) + Len(g) + Len(h))
       /\ \A i \in 1..Len(f) : s[i] = f[i]
       /\ \A i \in 1..Len(g) : s[Len(f) + i] = g[i]
       /\ \A i \in 1..Len(h) : s[Len(f) + Len(g) + i] = h[i]
  <2>1. f \in Seq(T) /\ g \in Seq(T) /\ h \in Seq(T)
    BY <1>6, <1>7, <1>8
  <2> QED BY <1>10, <2>1, ThreeParts
<1>12. Said = s
  BY <1>9, <1>10
<1>13. \A i \in DOMAIN options : f[i] = DefaultSays(options[i])
  BY <1>2
<1>14. \A i \in DOMAIN environment : g[i] = VariableSays(environment[i])
  BY <1>3
<1>15. \A i \in DOMAIN arguments : h[i] = ArgumentSays(i)
  BY <1>4
<1>16. Len(f) = Len(options) /\ Len(g) = Len(environment) /\ Len(h) = Len(arguments)
  BY <1>6, <1>7, <1>8
<1> QED BY <1>1, <1>11, <1>12, <1>13, <1>14, <1>15, <1>16

-----------------------------------------------------------------------------
(* Values and what is said about them.                                     *)

LEMMA MaxIs == ASSUME NEW I \in SUBSET Nat, NEW j \in I, \A i \in I : i <= j PROVE Max(I) = j
<1>1. Max(I) \in I /\ \A y \in I : Max(I) >= y
  BY DEF Max
<1>2. j \in Nat /\ Max(I) \in Nat /\ Max(I) <= j /\ j <= Max(I)
  BY <1>1
<1> QED BY <1>2

LEMMA ValueSame ==
  ASSUME NEW o, NEW said, NEW k \in Nat, NEW m \in Nat, k <= m,
         \A j \in (k + 1)..m : ~(said[j].is = "says" /\ Equals(said[j].path, o.path))
  PROVE  ValueIn(o, said, m) = ValueIn(o, said, k)
<1>1. AboutIn(said, m, o.path) = AboutIn(said, k, o.path)
  BY DEF AboutIn
<1> QED BY <1>1 DEF ValueIn

LEMMA ValueAgree ==
  ASSUME NEW o, NEW said, NEW other, NEW k \in Nat, \A j \in 1..k : said[j] = other[j]
  PROVE  ValueIn(o, said, k) = ValueIn(o, other, k)
<1> DEFINE a == AboutIn(said, k, o.path)
<1>1. AboutIn(other, k, o.path) = a
  BY DEF AboutIn
<1>2. ASSUME a # {} PROVE said[Max(a)] = other[Max(a)]
  <2>1. a \in SUBSET Nat /\ a \in SUBSET (1..k)
    BY DEF AboutIn
  <2>2. \A j \in a : k - j \in Nat
    BY <2>1
  <2> DEFINE d == {k - j : j \in a}
  <2>3. d \in SUBSET Nat /\ d # {}
    BY <1>2, <2>2
  <2>4. PICK e \in d : \A i \in d : e <= i
    BY <2>3, HasLeast
  <2>5. PICK j \in a : e = k - j
    BY <2>4
  <2>6. ASSUME NEW i \in a PROVE i <= j
    <3>1. k - i \in d
      OBVIOUS
    <3>2. e <= k - i
      BY <2>4, <3>1
    <3>3. i \in Nat /\ j \in Nat
      BY <2>1, <2>5
    <3> HIDE DEF d, a
    <3> QED BY <2>5, <3>2, <3>3
  <2>7. Max(a) = j
    BY <2>1, <2>6, MaxIs
  <2> QED BY <2>1, <2>7
<1> QED BY <1>1, <1>2 DEF ValueIn

LEMMA ValueNew ==
  ASSUME NEW o, NEW said, NEW k \in Nat, NEW m \in Nat, k + 1 <= m,
         said[k + 1].is = "says" /\ Equals(said[k + 1].path, o.path),
         \A j \in (k + 2)..m : ~(said[j].is = "says" /\ Equals(said[j].path, o.path))
  PROVE  ValueIn(o, said, m) = Meaning(o.kind, said[k + 1].text)
<1> DEFINE a == AboutIn(said, m, o.path)
<1>1. a \in SUBSET Nat /\ k + 1 \in a /\ \A j \in a : j <= k + 1
  BY DEF AboutIn
<1>2. Max(a) = k + 1 /\ a # {}
  BY <1>1, MaxIs
<1> QED BY <1>2 DEF ValueIn

-----------------------------------------------------------------------------
(* One word.                                                               *)

LEMMA WordsStay ==
  ASSUME inputVars' = inputVars
  PROVE  /\ program' = program /\ options' = options /\ environment' = environment /\ arguments' = arguments
         /\ Said' = Said
<1>1. program' = program /\ options' = options /\ environment' = environment /\ arguments' = arguments
  BY DEF inputVars
<1> QED BY <1>1 DEF Said, DefaultSays, VariableSays, ArgumentSays, IsText, Find

LEMMA FaultStays ==
  ASSUME options' = options, NEW s PROVE Faulty(s)' <=> Faulty(s)
BY DEF Faulty

LEMMA NothingIsFine == ~Faulty(Nothing) /\ Nothing.is # "says"
BY DEF Faulty, Nothing

LEMMA StrayIsFaulty == Faulty(Stray) /\ Stray.is # "says"
BY DEF Faulty, Stray

\* A word is passed over.
LEMMA SkipWord ==
  ASSUME TypeOK, Clean, Filled, Running, inputVars' = inputVars, phase' = phase, values' = values,
         NEW k \in Nat, k = Consumed, Consumed' = k + 1, Said[k + 1] = Nothing
  PROVE  Clean' /\ Filled'
<1>1. PICK S : S = Said
  OBVIOUS
<1>2. Said' = S /\ options' = options
  BY <1>1, WordsStay
<1>3. Clean'
  <2>1. \A j \in 1..k : ~Faulty(S[j])
    BY <1>1 DEF Clean
  <2>2. ~Faulty(S[k + 1])
    BY <1>1, NothingIsFine
  <2>3. \A j \in 1..(k + 1) : ~Faulty(S[j])
    BY <2>1, <2>2
  <2>4. \A j \in 1..(k + 1) : ~Faulty(S[j])'
    BY <1>2, <2>3 DEF Faulty
  <2> QED BY <1>2, <2>4 DEF Clean
<1>4. Filled'
  <2>1. ASSUME NEW i \in DOMAIN options PROVE values[i] = ValueIn(options[i], S, k + 1)
    <3>1. values[i] = ValueIn(options[i], S, k)
      BY <1>1 DEF Filled
    <3>2. \A j \in (k + 1)..(k + 1) : ~(S[j].is = "says" /\ Equals(S[j].path, options[i].path))
      BY <1>1, NothingIsFine
    <3> QED BY <3>1, <3>2, ValueSame
  <2> QED BY <1>2, <2>1 DEF Filled
<1> QED BY <1>3, <1>4

\* The parser gives up at a word.
LEMMA FailWord ==
  ASSUME TypeOK, Clean, Running, inputVars' = inputVars,
         NEW k \in Nat, k = Consumed, k + 1 \in DOMAIN Said, Faulty(Said[k + 1]), phase' = "failed",
         Said[k + 1].is = "says" =>
           \E path : Equals(path, Said[k + 1].path) /\ LoggedAttrs(error') = Only("option", path)
  PROVE  FirstFaultReported'
<1>1. PICK S : S = Said
  OBVIOUS
<1>2. Said' = S /\ options' = options
  BY <1>1, WordsStay
<1>3. FirstFault(k + 1)'
  <2>1. Faulty(S[k + 1])' /\ \A j \in 1..k : ~Faulty(S[j])'
    BY <1>1, <1>2 DEF Clean, Faulty
  <2> QED BY <1>2, <2>1 DEF FirstFault
<1>4. PICK e : e = error'
  OBVIOUS
<1>5. S[k + 1].is = "says" =>
        \E j \in DOMAIN LoggedAttrs(e) : LoggedAttrs(e)[j].key = "option" /\ Equals(LoggedAttrs(e)[j].value, S[k + 1].path)
  BY <1>1, <1>4 DEF Only
<1> QED BY <1>1, <1>2, <1>3, <1>4, <1>5 DEF FirstFaultReported

LEMMA PanicWord ==
  ASSUME TypeOK, Clean, Running, inputVars' = inputVars,
         NEW k \in Nat, k = Consumed, k + 1 \in DOMAIN Said, Faulty(Said[k + 1]), phase' = "panicked",
         Said[k + 1].is = "says", NEW i \in DOMAIN options,
         Equals(options[i].path, Said[k + 1].path), Unfit(options[i].kind, Said[k + 1].text)
  PROVE  PanicsExplained'
<1>1. PICK S : S = Said
  OBVIOUS
<1>2. Said' = S /\ options' = options
  BY <1>1, WordsStay
<1>3. FirstFault(k + 1)'
  <2>1. Faulty(S[k + 1])' /\ \A j \in 1..k : ~Faulty(S[j])'
    BY <1>1, <1>2 DEF Clean, Faulty
  <2> QED BY <1>2, <2>1 DEF FirstFault
<1> QED BY <1>1, <1>2, <1>3 DEF PanicsExplained

\* An option takes its text.  The second word of two is its text.
LEMMA TakeWord ==
  ASSUME TypeOK, Clean, Filled, Running, inputVars' = inputVars,
         NEW i \in DOMAIN options, NEW t, Proper(t), NEW path, NEW p, Take(i, t, p),
         NEW k \in Nat, k = Consumed, NEW m \in {k + 1, k + 2},
         phase' = phase /\ position' = p => Consumed' = m,
         k + 1 \in DOMAIN Said, Said[k + 1] = Says(path, t), Equals(options[i].path, path),
         m = k + 2 => Said[k + 2] = Nothing
  PROVE  Clean' /\ Filled' /\ FirstFaultReported' /\ PanicsExplained'
<1>1. PICK S : S = Said
  OBVIOUS
<1>2. Said' = S /\ options' = options
  BY <1>1, WordsStay
<1>3. PICK o : o = options[i]
  OBVIOUS
<1>4. PICK r : r = ApplyOption(o, t)
  OBVIOUS
<1>5. o.kind \in Kinds
  <2>1. options[i] \in OptionType
    BY DEF TypeOK
  <2> QED BY <1>3, <2>1 DEF OptionType
<1>6. Right(o, t, r)
  BY <1>4, <1>5, ApplyIsRight
<1>7. S[k + 1].is = "says" /\ S[k + 1].path = path /\ S[k + 1].text = t
  BY <1>1 DEF Says
<1>8. Faulty(S[k + 1]) <=> ~Accepted(o, t)
  <2>1. \A j \in DOMAIN options : Equals(options[j].path, path) => j = i
    BY FoundIsOnly
  <2> QED BY <1>3, <1>7, <2>1 DEF Faulty
<1>9. phase # "failed" /\ phase # "panicked"
  BY DEF Running
<1>10. CASE r.is = "done"
  <2>1. /\ values' = [values EXCEPT ![i] = r.value] /\ position' = p /\ phase' = phase
    BY <1>3, <1>4, <1>10 DEF Take
  <2>2. Accepted(o, t) /\ r.value = Meaning(o.kind, t)
    BY <1>6, <1>10 DEF Right, NamesOption
  <2>3. Consumed' = m
    BY <2>1
  <2>4. m = k + 2 => ~Faulty(S[k + 2]) /\ S[k + 2].is # "says"
    BY <1>1, NothingIsFine
  <2>5. Clean'
    <3>1. \A j \in 1..k : ~Faulty(S[j])
      BY <1>1 DEF Clean
    <3>2. \A j \in 1..m : ~Faulty(S[j])
      BY <1>8, <2>2, <2>4, <3>1
    <3>3. \A j \in 1..m : ~Faulty(S[j])'
      BY <1>2, <3>2 DEF Faulty
    <3> QED BY <1>2, <2>3, <3>3 DEF Clean
  <2>6. Filled'
    <3>1. ASSUME NEW j \in DOMAIN options, j # i PROVE values'[j] = ValueIn(options[j], S, m)
      <4>1. values[j] = ValueIn(options[j], S, k)
        BY <1>1 DEF Filled
      <4>2. ~Equals(options[j].path, path)
        BY <3>1, FoundIsOnly
      <4>3. \A l \in (k + 1)..m : ~(S[l].is = "says" /\ Equals(S[l].path, options[j].path))
        <5>1. ~Equals(S[k + 1].path, options[j].path)
          BY <1>7, <4>2 DEF Equals
        <5> QED BY <2>4, <5>1
      <4>4. ValueIn(options[j], S, m) = ValueIn(options[j], S, k)
        BY <4>3, ValueSame
      <4> QED BY <2>1, <3>1, <4>1, <4>4
    <3>2. values'[i] = ValueIn(o, S, m)
      <4>1. Equals(S[k + 1].path, o.path)
        BY <1>3, <1>7 DEF Equals
      <4>2. \A l \in (k + 2)..m : ~(S[l].is = "says" /\ Equals(S[l].path, o.path))
        BY <2>4
      <4>3. ValueIn(o, S, m) = Meaning(o.kind, t)
        BY <1>7, <4>1, <4>2, ValueNew
      <4>4. i \in DOMAIN values
        BY DEF TypeOK
      <4> QED BY <2>1, <2>2, <4>3, <4>4
    <3>3. \A j \in DOMAIN options : values'[j] = ValueIn(options[j], S, m)
      BY <1>3, <3>1, <3>2
    <3> QED BY <1>2, <2>3, <3>3 DEF Filled
  <2>7. FirstFaultReported' /\ PanicsExplained'
    BY <1>9, <2>1 DEF FirstFaultReported, PanicsExplained
  <2> QED BY <2>5, <2>6, <2>7
<1>11. CASE r.is = "error"
  <2>1. phase' = "failed" /\ error' = r.error
    BY <1>3, <1>4, <1>11 DEF Take, Fail
  <2>2. ~Accepted(o, t) /\ LoggedAttrs(r.error) = Only("option", o.path)
    BY <1>6, <1>11 DEF Right, NamesOption
  <2>3. FirstFaultReported'
    <3>1. Faulty(Said[k + 1])
      BY <1>1, <1>8, <2>2
    <3>2. Equals(o.path, Said[k + 1].path) /\ LoggedAttrs(error') = Only("option", o.path)
      BY <1>1, <1>3, <1>7, <2>1, <2>2
    <3> QED BY <2>1, <3>1, <3>2, FailWord
  <2> QED BY <2>1, <2>3 DEF Clean, Filled, Running, PanicsExplained
<1>12. CASE r.is = "panic"
  <2>1. phase' = "panicked"
    BY <1>3, <1>4, <1>12 DEF Take
  <2>2. ~Accepted(o, t) /\ Unfit(o.kind, t)
    BY <1>6, <1>12 DEF Right, NamesOption
  <2>3. PanicsExplained'
    <3>1. /\ Faulty(Said[k + 1]) /\ Said[k + 1].is = "says" /\ Equals(options[i].path, Said[k + 1].path)
          /\ Unfit(options[i].kind, Said[k + 1].text)
      BY <1>1, <1>3, <1>7, <1>8, <2>2
    <3> QED BY <2>1, <3>1, PanicWord
  <2> QED BY <2>1, <2>3 DEF Clean, Filled, Running, FirstFaultReported
<1>13. r.is \in {"done", "error", "panic"}
  BY <1>6 DEF Right, NamesOption
<1> QED BY <1>10, <1>11, <1>12, <1>13

-----------------------------------------------------------------------------
(* The steps.                                                              *)

LEMMA InitInv == Init => Inv
<1> SUFFICES ASSUME Init PROVE Inv
  OBVIOUS
<1>1. TypeOK
  <2>1. program \in Programs /\ options = TypeOptions(program.type)
    BY DEF Init
  <2>2. options \in Seq(OptionType) /\ Distinct(options)
    BY <2>1, ProgramsAssumption DEF OptionType, Distinct
  <2>3. DOMAIN values = DOMAIN options /\ phase = "defaults" /\ position = 1 /\ environment = <<>> /\ arguments = <<>>
    BY DEF Init
  <2>4. Len(options) \in Nat
    BY <2>2
  <2> HIDE DEF Init
  <2>5. environment \in Seq(VariableType) /\ arguments \in Seq(ArgumentType)
    BY <2>3
  <2> QED BY <2>1, <2>2, <2>3, <2>4, <2>5 DEF TypeOK
<1>2. Consumed = 0
  BY DEF Init, Consumed
<1>3. Clean
  BY <1>2 DEF Clean
<1>4. Filled
  <2>1. ASSUME NEW i \in DOMAIN options PROVE values[i] = ValueIn(options[i], Said, 0)
    <3>1. AboutIn(Said, 0, options[i].path) = {}
      BY DEF AboutIn
    <3> QED BY <3>1 DEF ValueIn, Init
  <2> QED BY <1>2, <2>1 DEF Filled
<1>5. Aligned /\ FirstFaultReported /\ PanicsExplained
  BY DEF Init, Aligned, FirstFaultReported, PanicsExplained
<1> QED BY <1>1, <1>3, <1>4, <1>5 DEF Inv

LEMMA TakeIs ==
  ASSUME NEW i, NEW t, NEW p, Take(i, t, p)
  PROVE  /\ DOMAIN values' = DOMAIN values
         /\ \/ phase' = phase /\ position' = p
            \/ phase' \in {"failed", "panicked"} /\ position' = position
BY DEF Take, Fail

LEMMA TypeStays ==
  ASSUME TypeOK, inputVars' = inputVars, DOMAIN values' = DOMAIN values,
         \/ /\ phase' = phase /\ position' \in Nat \ {0}
            /\ phase = "defaults" => position' <= Len(options) + 1
            /\ phase = "environment" => position' <= Len(environment) + 1
            /\ phase = "command" => position' <= Len(arguments) + 1
         \/ phase' \in {"parsed", "ready", "failed", "refused", "panicked"} /\ position' = position
  PROVE  TypeOK'
<1>1. program' = program /\ options' = options /\ environment' = environment /\ arguments' = arguments
  BY WordsStay
<1> QED BY <1>1 DEF TypeOK, Distinct

LEMMA ApplyDefaultInv == ASSUME Inv, ApplyDefault PROVE Inv'
<1> USE DEF Inv
<1>1. PICK o : o = options[position]
  OBVIOUS
<1>2. /\ phase = "defaults" /\ position \in DOMAIN options /\ inputVars' = inputVars
      /\ position \in Nat /\ position > 0 /\ position <= Len(options)
  BY DEF ApplyDefault, TypeOK, inputVars
<1>3. PICK k \in Nat : k = position - 1 /\ k + 1 = position
  BY <1>2
<1>4. k = Consumed /\ Running
  BY <1>2, <1>3 DEF Consumed, Running
<1>5. Said[k + 1] = DefaultSays(o) /\ k + 1 \in DOMAIN Said
  <2>1. Len(options) \in Nat /\ Len(environment) \in Nat /\ Len(arguments) \in Nat
    BY DEF TypeOK
  <2> QED BY <1>1, <1>2, <1>3, <2>1, SaidIs
<1>6. phase' = phase /\ position' = position + 1 => Consumed' = k + 1
  BY <1>2, <1>3 DEF Consumed
<1>7. CASE o.default = None
  <2>1. phase' = phase /\ values' = values /\ position' = position + 1 /\ error' = error
    BY <1>1, <1>7 DEF ApplyDefault, Skip
  <2>2. Said[k + 1] = Nothing
    BY <1>5, <1>7 DEF DefaultSays
  <2>3. Clean' /\ Filled'
    BY <1>2, <1>4, <1>6, <2>1, <2>2, SkipWord
  <2>4. TypeOK'
    BY <1>2, <2>1, TypeStays
  <2> QED BY <1>2, <2>1, <2>3, <2>4 DEF Aligned, FirstFaultReported, PanicsExplained
<1>8. CASE o.default # None
  <2>1. Take(position, o.default, position + 1)
    BY <1>1, <1>8 DEF ApplyDefault
  <2>2. Said[k + 1] = Says(o.path, o.default)
    BY <1>5, <1>8 DEF DefaultSays
  <2>3. o \in OptionType
    BY <1>1, <1>2 DEF TypeOK
  <2>4. Proper(o.default)
    BY <2>3, TextsAreProper DEF OptionType
  <2>5. Equals(options[position].path, o.path)
    BY <1>1, EqualsItself
  <2>6. Clean' /\ Filled' /\ FirstFaultReported' /\ PanicsExplained'
    BY <1>2, <1>4, <1>5, <1>6, <2>1, <2>2, <2>4, <2>5, TakeWord
  <2>7. TypeOK' /\ phase' # "command"
    BY <1>2, <2>1, TakeIs, TypeStays
  <2> QED BY <2>6, <2>7 DEF Aligned
<1> QED BY <1>7, <1>8

\* More words are read.
LEMMA GrowWords ==
  ASSUME TypeOK, Clean, Filled, Running, options' = options, values' = values, phase' \notin {"failed", "panicked"},
         NEW k \in Nat, k = Consumed, Consumed' = k, \A j \in 1..k : Said'[j] = Said[j]
  PROVE  Clean' /\ Filled'
<1>1. PICK S : S = Said
  OBVIOUS
<1>2. PICK R : R = Said'
  OBVIOUS
<1>3. \A j \in 1..k : R[j] = S[j]
  BY <1>1, <1>2
<1>4. Clean'
  <2>1. \A j \in 1..k : ~Faulty(S[j])
    BY <1>1 DEF Clean
  <2>2. \A j \in 1..k : ~Faulty(R[j])
    BY <1>3, <2>1
  <2>3. \A j \in 1..k : ~Faulty(R[j])'
    BY <2>2 DEF Faulty
  <2> QED BY <1>2, <2>3 DEF Clean
<1>5. Filled'
  <2>1. ASSUME NEW i \in DOMAIN options PROVE values[i] = ValueIn(options[i], R, k)
    <3>1. values[i] = ValueIn(options[i], S, k)
      BY <1>1 DEF Filled
    <3> QED BY <1>3, <3>1, ValueAgree
  <2> QED BY <1>2, <2>1 DEF Filled
<1> QED BY <1>4, <1>5

SaidSplit ==
  /\ \A i \in DOMAIN options : Said[i] = DefaultSays(options[i])
  /\ \A i \in DOMAIN environment : Said[Len(options) + i] = VariableSays(environment[i])

LEMMA SaidIsAlways == TypeOK => SaidSplit
BY SaidIs DEF SaidSplit

LEMMA ReadEnvironmentInv == ASSUME Inv, ReadEnvironment PROVE Inv'
<1> USE DEF Inv
<1>1. /\ phase = "defaults" /\ phase' = "environment" /\ position' = 1 /\ environment' \in program.environments
      /\ program' = program /\ options' = options /\ arguments' = arguments /\ values' = values
      /\ position > Len(options)
  BY DEF ReadEnvironment
<1>2. /\ program \in Programs /\ arguments = <<>> /\ position <= Len(options) + 1 /\ position \in Nat
      /\ Len(options) \in Nat
  BY <1>1 DEF TypeOK
<1>3. environment' \in Seq(VariableType)
  BY <1>1, <1>2, ProgramsAssumption DEF VariableType
<1>4. TypeOK'
  <2>1. Len(environment') \in Nat
    BY <1>3
  <2> QED BY <1>1, <1>2, <1>3, <2>1 DEF TypeOK, Distinct
<1>5. PICK k \in Nat : k = Len(options)
  BY <1>2
<1>6. k = Consumed /\ Running /\ Consumed' = k
  BY <1>1, <1>2, <1>5 DEF Consumed, Running
<1>7. ASSUME NEW j \in 1..k PROVE Said'[j] = Said[j]
  <2>1. j \in DOMAIN options
    BY <1>5 DEF TypeOK
  <2>2. Said[j] = DefaultSays(options[j])
    BY <2>1, SaidIs
  <2>3. SaidSplit'
    BY <1>4, SaidIsAlways, PTL
  <2>4. Said'[j] = DefaultSays(options[j])'
    BY <1>1, <2>1, <2>3 DEF SaidSplit
  <2> QED BY <1>1, <2>2, <2>4 DEF DefaultSays
<1>8. Clean' /\ Filled'
  BY <1>1, <1>6, <1>7, GrowWords
<1> QED BY <1>1, <1>4, <1>8 DEF Aligned, FirstFaultReported, PanicsExplained

LEMMA ReadCommandInv == ASSUME Inv, ReadCommand PROVE Inv'
<1> USE DEF Inv
<1>1. /\ phase = "environment" /\ phase' = "command" /\ position' = 1 /\ arguments' \in program.commands
      /\ program' = program /\ options' = options /\ environment' = environment /\ values' = values
      /\ position > Len(environment)
  BY DEF ReadCommand
<1>2. /\ program \in Programs /\ position <= Len(environment) + 1 /\ position \in Nat
      /\ Len(options) \in Nat /\ Len(environment) \in Nat
      /\ DOMAIN options = 1..Len(options) /\ DOMAIN environment = 1..Len(environment)
  BY <1>1 DEF TypeOK
<1>3. arguments' \in Seq(ArgumentType)
  BY <1>1, <1>2, ProgramsAssumption DEF ArgumentType
<1>4. TypeOK'
  <2>1. Len(arguments') \in Nat
    BY <1>3
  <2> QED BY <1>1, <1>2, <1>3, <2>1 DEF TypeOK, Distinct
<1>5. PICK k \in Nat : k = Len(options) + Len(environment)
  BY <1>2
<1>6. k = Consumed /\ Running /\ Consumed' = k
  BY <1>1, <1>2, <1>5 DEF Consumed, Running
<1>7. ASSUME NEW j \in 1..k PROVE Said'[j] = Said[j]
  <2>1. CASE j <= Len(options)
    <3>1. j \in DOMAIN options
      BY <1>2, <2>1
    <3>2. Said[j] = DefaultSays(options[j])
      BY <3>1, SaidIs
    <3>3. SaidSplit'
      BY <1>4, SaidIsAlways, PTL
    <3>4. Said'[j] = DefaultSays(options[j])'
      BY <1>1, <3>1, <3>3 DEF SaidSplit
    <3> QED BY <1>1, <3>2, <3>4 DEF DefaultSays
  <2>2. CASE j > Len(options)
    <3>1. PICK i \in DOMAIN environment : j = Len(options) + i
      <4>1. j - Len(options) \in 1..Len(environment) /\ j = Len(options) + (j - Len(options))
        BY <1>2, <1>5, <2>2
      <4> QED BY <1>2, <4>1
    <3>2. Said[j] = VariableSays(environment[i])
      BY <3>1, SaidIs
    <3>3. SaidSplit'
      BY <1>4, SaidIsAlways, PTL
    <3>4. Said'[j] = VariableSays(environment[i])'
      BY <1>1, <3>1, <3>3 DEF SaidSplit
    <3> QED BY <1>1, <3>2, <3>4 DEF VariableSays, Find
  <2> QED BY <1>2, <2>1, <2>2
<1>8. Clean' /\ Filled'
  BY <1>1, <1>6, <1>7, GrowWords
<1> QED BY <1>1, <1>4, <1>8 DEF Aligned, FirstFaultReported, PanicsExplained

LEMMA ApplyVariableInv == ASSUME Inv, ApplyVariable PROVE Inv'
<1> USE DEF Inv
<1>1. PICK w : w = environment[position]
  OBVIOUS
<1>2. PICK i : i = Find(w.path)
  OBVIOUS
<1>3. /\ phase = "environment" /\ position \in DOMAIN environment /\ inputVars' = inputVars
      /\ position \in Nat /\ position > 0 /\ position <= Len(environment)
      /\ Len(options) \in Nat /\ Len(environment) \in Nat /\ Len(arguments) \in Nat
  BY DEF ApplyVariable, TypeOK, inputVars
<1>4. PICK k \in Nat : k = Len(options) + position - 1 /\ k + 1 = Len(options) + position
  BY <1>3
<1>5. k = Consumed /\ Running
  BY <1>3, <1>4 DEF Consumed, Running
<1>6. Said[k + 1] = VariableSays(w) /\ k + 1 \in DOMAIN Said
  BY <1>1, <1>3, <1>4, SaidIs
<1>7. phase' = phase /\ position' = position + 1 => Consumed' = k + 1
  <2>1. Len(options') = Len(options)
    BY <1>3, WordsStay
  <2> QED BY <1>3, <1>4, <2>1 DEF Consumed
<1>8. w \in VariableType
  BY <1>1, <1>3 DEF TypeOK
<1>9. CASE w.malformed
  <2>1. phase' = "failed" /\ values' = values /\ position' = position
    BY <1>1, <1>9 DEF ApplyVariable, Fail
  <2>2. Said[k + 1] = Stray
    BY <1>6, <1>9 DEF VariableSays
  <2>3. FirstFaultReported'
    BY <1>3, <1>5, <1>6, <2>1, <2>2, StrayIsFaulty, FailWord
  <2>4. TypeOK'
    BY <1>3, <2>1, TypeStays
  <2> QED BY <2>1, <2>3, <2>4 DEF Clean, Filled, Running, Aligned, PanicsExplained
<1>10. CASE ~w.malformed /\ (~w.prefixed \/ i = 0)
  <2>1. phase' = phase /\ values' = values /\ position' = position + 1
    BY <1>1, <1>2, <1>10 DEF ApplyVariable, Skip
  <2>2. Said[k + 1] = Nothing
    BY <1>2, <1>6, <1>10 DEF VariableSays
  <2>3. Clean' /\ Filled'
    BY <1>3, <1>5, <1>7, <2>1, <2>2, SkipWord
  <2>4. TypeOK'
    BY <1>3, <2>1, TypeStays
  <2> QED BY <1>3, <2>1, <2>3, <2>4 DEF Aligned, FirstFaultReported, PanicsExplained
<1>11. CASE ~w.malformed /\ w.prefixed /\ i # 0
  <2>1. Take(i, w.text, position + 1)
    BY <1>1, <1>2, <1>11 DEF ApplyVariable
  <2>2. Said[k + 1] = Says(w.path, w.text)
    BY <1>2, <1>6, <1>11 DEF VariableSays
  <2>3. Proper(w.text)
    BY <1>8, TextsAreProper DEF VariableType
  <2>4. i \in DOMAIN options /\ Equals(options[i].path, w.path)
    <3>1. options \in Seq(OptionType)
      BY DEF TypeOK
    <3> QED BY <1>2, <1>11, <3>1, FindIs
  <2>5. Clean' /\ Filled' /\ FirstFaultReported' /\ PanicsExplained'
    BY <1>3, <1>5, <1>6, <1>7, <2>1, <2>2, <2>3, <2>4, TakeWord
  <2>6. TypeOK' /\ phase' # "command"
    BY <1>3, <2>1, TakeIs, TypeStays
  <2> QED BY <2>5, <2>6 DEF Aligned
<1> QED BY <1>9, <1>10, <1>11

LEMMA ApplyArgumentInv == ASSUME Inv, ApplyArgument PROVE Inv'
<1> USE DEF Inv
<1>1. PICK w : w = arguments[position]
  OBVIOUS
<1>2. PICK i : i = Find(w.path)
  OBVIOUS
<1>3. /\ phase = "command" /\ position \in DOMAIN arguments /\ inputVars' = inputVars
      /\ position \in Nat /\ position > 0 /\ position <= Len(arguments)
      /\ Len(options) \in Nat /\ Len(environment) \in Nat /\ Len(arguments) \in Nat
      /\ DOMAIN arguments = 1..Len(arguments)
  BY DEF ApplyArgument, TypeOK, inputVars
<1>4. PICK k \in Nat : /\ k = Len(options) + Len(environment) + position - 1
                       /\ k + 1 = Len(options) + Len(environment) + position
                       /\ k + 2 = Len(options) + Len(environment) + (position + 1)
  <2> DEFINE m == Len(options) + Len(environment) + position - 1
  <2>1. /\ m \in Nat /\ m + 1 = Len(options) + Len(environment) + position
        /\ m + 2 = Len(options) + Len(environment) + (position + 1)
    BY <1>3
  <2> QED BY <2>1
<1>5. k = Consumed /\ Running
  BY <1>3, <1>4 DEF Consumed, Running
<1>6. Said[k + 1] = ArgumentSays(position) /\ k + 1 \in DOMAIN Said
  BY <1>1, <1>3, <1>4, SaidIs
<1>7. ASSUME NEW m \in {1, 2} PROVE phase' = phase /\ position' = position + m => Consumed' = k + m
  <2>1. Len(options') = Len(options) /\ Len(environment') = Len(environment)
    BY <1>3, WordsStay
  <2> QED BY <1>3, <1>4, <2>1 DEF Consumed
<1>8. w \in ArgumentType /\ options \in Seq(OptionType)
  BY <1>1, <1>3 DEF TypeOK
<1>9. IsText(position) <=> w.path = <<>>
  BY <1>1, <1>3 DEF IsText
<1>10. CASE w.path = <<>>
  <2>1. phase' = "failed" /\ values' = values /\ position' = position
    BY <1>1, <1>10 DEF ApplyArgument, Fail
  <2>2. Said[k + 1] = Stray
    BY <1>3, <1>6, <1>9, <1>10 DEF ArgumentSays, Aligned
  <2>3. FirstFaultReported'
    BY <1>3, <1>5, <1>6, <2>1, <2>2, StrayIsFaulty, FailWord
  <2>4. TypeOK'
    BY <1>3, <2>1, TypeStays
  <2> QED BY <2>1, <2>3, <2>4 DEF Clean, Filled, Running, Aligned, PanicsExplained
<1>11. CASE w.path # <<>> /\ i = 0
  <2>1. phase' = "failed" /\ values' = values /\ position' = position /\ error' = NoSuchOption(w.path)
    BY <1>1, <1>2, <1>11 DEF ApplyArgument, Fail
  <2>2. Said[k + 1].is = "says" /\ Said[k + 1].path = w.path
    BY <1>1, <1>6, <1>9, <1>11 DEF ArgumentSays, Says
  <2>3. Faulty(Said[k + 1])
    BY <1>2, <1>8, <1>11, <2>2, FindIs DEF Faulty
  <2>4. LoggedAttrs(error') = Only("option", w.path)
    BY <2>1, NoSuchOptionNames
  <2>5. FirstFaultReported'
    <3>1. Equals(w.path, Said[k + 1].path)
      BY <2>2, EqualsItself
    <3> QED BY <1>3, <1>5, <1>6, <2>1, <2>3, <2>4, <3>1, FailWord
  <2>6. TypeOK'
    BY <1>3, <2>1, TypeStays
  <2> QED BY <2>1, <2>5, <2>6 DEF Clean, Filled, Running, Aligned, PanicsExplained
<1>12. ASSUME w.path # <<>>, i # 0
       PROVE  i \in DOMAIN options /\ Equals(options[i].path, w.path)
  BY <1>2, <1>8, <1>12, FindIs
<1>13. CASE w.path # <<>> /\ i # 0 /\ IsText(position + 1)
  <2>1. PICK t : t = arguments[position + 1].text
    OBVIOUS
  <2>2. position + 1 \in DOMAIN arguments /\ position < Len(arguments) /\ arguments[position + 1].path = <<>>
    BY <1>3, <1>13 DEF IsText
  <2>3. Take(i, t, position + 2)
    BY <1>1, <1>2, <1>13, <2>1, <2>2 DEF ApplyArgument
  <2>4. Said[k + 1] = Says(w.path, t)
    BY <1>1, <1>6, <1>9, <1>13, <2>1 DEF ArgumentSays
  <2>5. Said[k + 2] = Nothing
    <3>1. Said[k + 2] = ArgumentSays(position + 1)
      BY <1>4, <2>2, SaidIs
    <3>2. ~(position + 1 = 1 \/ IsText((position + 1) - 1))
      <4>1. (position + 1) - 1 = position /\ position + 1 # 1
        BY <1>3
      <4> QED BY <1>9, <1>13, <4>1
    <3> QED BY <1>13, <3>1, <3>2 DEF ArgumentSays
  <2>6. Proper(t)
    <3>1. arguments[position + 1] \in ArgumentType
      BY <2>2 DEF TypeOK
    <3> QED BY <2>1, <3>1, TextsAreProper DEF ArgumentType
  <2>7. Clean' /\ Filled' /\ FirstFaultReported' /\ PanicsExplained'
    <3>1. phase' = phase /\ position' = position + 2 => Consumed' = k + 2
      BY <1>7
    <3> QED BY <1>3, <1>5, <1>6, <1>12, <1>13, <2>3, <2>4, <2>5, <2>6, <3>1, TakeWord
  <2>8. \/ phase' = phase /\ position' = position + 2
        \/ phase' \in {"failed", "panicked"} /\ position' = position
    BY <2>3, TakeIs
  <2>9. TypeOK'
    <3>1. DOMAIN values' = DOMAIN values
      BY <2>3, TakeIs
    <3> QED BY <1>3, <2>2, <2>8, <3>1, TypeStays
  <2>10. Aligned'
    <3>1. arguments' = arguments
      BY <1>3, WordsStay
    <3>2. ASSUME position' = position + 2 PROVE IsText(position - 1)'
      <4>1. position' - 1 = position + 1
        BY <1>3, <3>2
      <4> QED BY <1>13, <3>1, <4>1 DEF IsText
    <3> QED BY <2>8, <3>2 DEF Aligned
  <2> QED BY <2>7, <2>9, <2>10
<1>14. CASE w.path # <<>> /\ i # 0 /\ ~IsText(position + 1)
  <2>1. ~(position < Len(arguments) /\ arguments[position + 1].path = <<>>)
    BY <1>3, <1>14 DEF IsText
  <2>2. Take(i, Flag, position + 1)
    BY <1>1, <1>2, <1>14, <2>1 DEF ApplyArgument
  <2>3. Said[k + 1] = Says(w.path, Flag)
    BY <1>1, <1>6, <1>9, <1>14 DEF ArgumentSays
  <2>4. Clean' /\ Filled' /\ FirstFaultReported' /\ PanicsExplained'
    <3>1. phase' = phase /\ position' = position + 1 => Consumed' = k + 1
      BY <1>7
    <3>2. Proper(Flag)
      BY TextsAreProper
    <3> QED BY <1>3, <1>5, <1>6, <1>12, <1>14, <2>2, <2>3, <3>1, <3>2, TakeWord
  <2>5. \/ phase' = phase /\ position' = position + 1
        \/ phase' \in {"failed", "panicked"} /\ position' = position
    BY <2>2, TakeIs
  <2>6. TypeOK'
    <3>1. DOMAIN values' = DOMAIN values
      BY <2>2, TakeIs
    <3> QED BY <1>3, <2>5, <3>1, TypeStays
  <2>7. Aligned'
    <3>1. arguments' = arguments
      BY <1>3, WordsStay
    <3>2. ASSUME position' = position + 1 PROVE ~IsText(position)'
      BY <1>14, <3>1, <3>2 DEF IsText
    <3> QED BY <2>5, <3>2 DEF Aligned
  <2> QED BY <2>4, <2>6, <2>7
<1> QED BY <1>10, <1>11, <1>13, <1>14

\* The words are all dealt with, and nothing changes but the phase.
LEMMA EndsInv ==
  ASSUME Inv, inputVars' = inputVars, values' = values, position' = position,
         \/ phase = "command" /\ position > Len(arguments)
         \/ phase \in {"parsed", "ready"},
         phase' \in {"parsed", "ready", "refused"}
  PROVE  Inv'
<1> USE DEF Inv
<1>1. PICK k : k = Len(options) + Len(environment) + Len(arguments)
  OBVIOUS
<1>2. /\ Len(options) \in Nat /\ Len(environment) \in Nat /\ Len(arguments) \in Nat /\ position \in Nat
      /\ phase = "command" => position <= Len(arguments) + 1
  BY DEF TypeOK
<1>3. k = Consumed /\ Running
  BY <1>1, <1>2 DEF Consumed, Running
<1>4. options' = options /\ environment' = environment /\ arguments' = arguments /\ Said' = Said
  BY WordsStay
<1>5. k \in Nat /\ Consumed' = k
  BY <1>1, <1>2, <1>4 DEF Consumed
<1>6. Clean' /\ Filled'
  <2>1. phase' \notin {"failed", "panicked"} /\ \A j \in 1..k : Said'[j] = Said[j]
    BY <1>4
  <2> QED BY <1>3, <1>4, <1>5, <2>1, GrowWords
<1>7. TypeOK'
  BY TypeStays
<1> QED BY <1>6, <1>7 DEF Aligned, FirstFaultReported, PanicsExplained

LEMMA StutterInv == ASSUME Inv, UNCHANGED vars PROVE Inv'
<1>1. /\ inputVars' = inputVars /\ values' = values /\ phase' = phase /\ position' = position /\ error' = error
      /\ program' = program /\ options' = options /\ environment' = environment /\ arguments' = arguments
  BY DEF vars, inputVars
<1>2. Said' = Said
  BY <1>1, WordsStay
<1>3. Consumed' = Consumed
  BY <1>1 DEF Consumed
<1>4. TypeOK'
  BY <1>1 DEF Inv, TypeOK, Distinct
<1>5. Clean' /\ Filled' /\ FirstFaultReported' /\ PanicsExplained'
  BY <1>1, <1>2, <1>3
  DEF Inv, Clean, Filled, Running, FirstFaultReported, PanicsExplained, FirstFault, Faulty
<1>6. Aligned'
  BY <1>1 DEF Inv, Aligned, IsText
<1> QED BY <1>4, <1>5, <1>6 DEF Inv

\* Every step keeps the invariant.
LEMMA NextInv == Inv /\ [Next]_vars => Inv'
<1> SUFFICES ASSUME Inv, [Next]_vars PROVE Inv'
  OBVIOUS
<1>1. CASE ApplyDefault
  BY <1>1, ApplyDefaultInv
<1>2. CASE ReadEnvironment
  BY <1>2, ReadEnvironmentInv
<1>3. CASE ApplyVariable
  BY <1>3, ApplyVariableInv
<1>4. CASE ReadCommand
  BY <1>4, ReadCommandInv
<1>5. CASE ApplyArgument
  BY <1>5, ApplyArgumentInv
<1>6. CASE EndCommand
  <2>1. /\ phase = "command" /\ position > Len(arguments) /\ phase' = "parsed"
        /\ inputVars' = inputVars /\ values' = values /\ position' = position
    BY <1>6 DEF EndCommand
  <2> QED BY <2>1, EndsInv
<1>7. CASE NewServer
  <2>1. /\ phase = "parsed" /\ phase' \in {"refused", "ready"}
        /\ inputVars' = inputVars /\ values' = values /\ position' = position
    BY <1>7 DEF NewServer, Refuse
  <2> QED BY <2>1, EndsInv
<1>8. CASE UNCHANGED vars
  BY <1>8, StutterInv
<1> QED BY <1>1, <1>2, <1>3, <1>4, <1>5, <1>6, <1>7, <1>8 DEF Next

LEMMA SpecInv == Spec => []Inv
BY InitInv, NextInv, PTL DEF Spec

-----------------------------------------------------------------------------
(* The theorems.                                                           *)

\* The parser is always at a word of the phase it is in, or just behind the
\* last; the values are those of the options, no two of which have the same
\* path; the environment has been read once the defaults are in place, and the
\* command line once the environment is (parser.go:107-181).
THEOREM TypeCorrect == Spec => []TypeOK
<1>1. Inv => TypeOK
  BY DEF Inv
<1> QED BY <1>1, SpecInv, PTL

\* However many words there are and in whatever order, an option that the parser
\* is done with has the meaning of what was said about it last, and nothing
\* that was said was unacceptable (parser.go:107-181, main.go:25-33).
THEOREM LastSourceWinsHolds == Spec => []LastSourceWins
<1>1. Inv => LastSourceWins
  <2> SUFFICES ASSUME Inv, phase \in {"parsed", "ready"}
               PROVE  /\ \A i \in DOMAIN Said : ~Faulty(Said[i])
                      /\ \A i \in DOMAIN options :
                           LET about == {j \in DOMAIN Said : Said[j].is = "says" /\ Equals(Said[j].path, options[i].path)} IN
                           values[i] = IF about = {} THEN Zero(options[i].kind) ELSE Meaning(options[i].kind, Said[Max(about)].text)
    BY DEF LastSourceWins
  <2>1. PICK k : k = Consumed
    OBVIOUS
  <2>2. k = Len(options) + Len(environment) + Len(arguments) /\ Running
    BY <2>1 DEF Consumed, Running
  <2>3. DOMAIN Said = 1..k
    BY <2>2, SaidIs DEF Inv
  <2>4. \A i \in DOMAIN Said : ~Faulty(Said[i])
    BY <2>1, <2>2, <2>3 DEF Inv, Clean
  <2>5. ASSUME NEW i \in DOMAIN options
        PROVE  LET about == {j \in DOMAIN Said : Said[j].is = "says" /\ Equals(Said[j].path, options[i].path)} IN
               values[i] = IF about = {} THEN Zero(options[i].kind) ELSE Meaning(options[i].kind, Said[Max(about)].text)
    <3>1. values[i] = ValueIn(options[i], Said, k)
      BY <2>1, <2>2 DEF Inv, Filled
    <3> QED BY <2>3, <3>1 DEF ValueIn, AboutIn
  <2> QED BY <2>4, <2>5
<1> QED BY <1>1, SpecInv, PTL

\* The parser gives up only at the first word it cannot accept, whatever came
\* before, and what main logs then names the option that word is about
\* (parser.go:296-300, main.go:53-61).
THEOREM FirstFaultReportedHolds == Spec => []FirstFaultReported
<1>1. Inv => FirstFaultReported
  BY DEF Inv
<1> QED BY <1>1, SpecInv, PTL

\* The parser panics for nothing but a number or fraction for an option of a
\* type that cannot take it, and only when it is the first word to be wrong
\* (converter_float.go:36-55).
THEOREM PanicsExplainedHolds == Spec => []PanicsExplained
<1>1. Inv => PanicsExplained
  BY DEF Inv
<1> QED BY <1>1, SpecInv, PTL

=============================================================================
