---------------------------- MODULE Configuration ----------------------------
(***************************************************************************)
(* How the program gets its configuration (internal/config, main):         *)
(* defaults, then the environment, then the command line, each word        *)
(* converted to the type of its option by the first converter that can.    *)
(*                                                                         *)
(* A text is the sequence of its parts between commas.  Of a part, what    *)
(* matters is which parser reads it: numbers are decimal integers,         *)
(* fractions whatever else a float can be written as.  The 8, 16, 32 and   *)
(* 64 bits of the integer types are scaled down to 3, 4, 5 and 6.          *)
(***************************************************************************)
EXTENDS Errors, SequencesExt

\* The configurations to be filled: for each its type, whether it is that of a
\* server, the backends there are, and as bounds the environments and command
\* lines that are tried.  Structures and maps nest to no more than Nesting
\* levels.
CONSTANTS Programs, Nesting

VARIABLES
  program,    \* the configuration in use
  options,    \* the parser's list of options
  values,     \* the value of each option
  phase,      \* "defaults", "environment", "command", "parsed", "ready", "failed", "refused" or "panicked"
  environment, arguments,  \* the words of the environment and of the command line
  position,   \* the next word of the phase
  error       \* the error that main has logged

inputVars == <<program, options, environment, arguments>>
vars == <<inputVars, values, phase, position, error>>

Part(form, n, s) == [form |-> form, n |-> n, s |-> s]
Number(n) == <<Part("number", n, "")>>
Fraction  == <<Part("fraction", 0, "")>>
Span(n)   == <<Part("span", n, "")>>
Word(s)   == <<Part("word", 0, s)>>
Address(s) == <<Part("address", 0, s)>>
Level(s)  == <<Part("level", 0, s)>>
Empty     == <<Part("empty", 0, "")>>
Junk      == <<Part("junk", 0, "")>>
\* The value true of an option without a value on the command line.
Flag      == <<Part("flag", 1, "")>>
None      == <<>>

Is(t, forms) == Len(t) = 1 /\ t[1].form \in forms
IsNumeric(t) == Is(t, {"number", "fraction"})
n(t) == t[1].n

\* The integer types; a duration is an integer of 64 bits.
Width    == [int8 |-> 3, int16 |-> 4, int32 |-> 5, int64 |-> 6, int |-> 6, Duration |-> 6]
Unsigned == [uint8 |-> 3, uint16 |-> 4, uint32 |-> 5, uint64 |-> 6, uint |-> 6]

Zero(kind) ==
  CASE kind \in DOMAIN Width \cup DOMAIN Unsigned -> 0
    [] kind = "bool" -> FALSE
    [] kind = "float" -> Number(0)
    [] kind = "Level" -> Level("info")
    [] kind \in {"string", "bytes"} -> Empty
    [] kind \in {"list", "AddrPort"} -> None

-----------------------------------------------------------------------------
(* Paths and the list of options.                                          *)

\* parsePath has split the names at "_", "." and "-".  A segment is a word in
\* lower or upper case.
Equals(p, q) == Len(p) = Len(q) /\ \A i \in DOMAIN p : p[i].word = q[i].word

\* The options of a type: fields with a name of structures and embedded
\* structures, and of the structures in an embedded map under their keys.
\* Other fields are left out.  The recursion is unfolded level by level, each
\* structure and embedded map replaced by its parts; one that is left after
\* Nesting levels stays in the list, as something that cannot be an option.
TypeOptions(t) ==
  LET Field(path, f) == [path |-> path \o f.path, named |-> f.path # <<>>, type |-> f.type, default |-> f.default]
      Embedded(path, type) == [path |-> path, named |-> FALSE, type |-> type, default |-> None]
      Parts(x) ==
        CASE x.type.is = "struct" -> [i \in DOMAIN x.type.fields |-> Field(x.path, x.type.fields[i])]
          [] x.type.is = "map" /\ ~x.named ->
               [i \in DOMAIN x.type.entries |-> Embedded(x.path \o x.type.entries[i].key, x.type.entries[i].type)]
          [] OTHER -> <<x>>
      level[d \in 0..Nesting] ==
        IF d = 0 THEN <<Embedded(<<>>, t)>>
                 ELSE LET above == level[d - 1] IN FlattenSeq([i \in DOMAIN above |-> Parts(above[i])])
      found == SelectSeq(level[Nesting], LAMBDA x : x.named \/ Parts(x) # <<x>>)
  IN  [i \in DOMAIN found |-> [path |-> found[i].path, kind |-> found[i].type.is, default |-> found[i].default]]

\* Programs have options of types that some converter is for, no two of them
\* with the same path.
Paths == Seq([word : STRING, upper : BOOLEAN])
Texts == Seq([form : STRING, n : Int, s : STRING])
Kinds == {"string", "bool", "bytes", "list", "float", "Level", "AddrPort"} \cup DOMAIN Width \cup DOMAIN Unsigned
OptionType   == [path : Paths, kind : Kinds, default : Texts]
VariableType == [malformed : BOOLEAN, prefixed : BOOLEAN, path : Paths, text : Texts]
ArgumentType == [path : Paths, text : Texts]
Distinct(os) == \A i, j \in DOMAIN os : Equals(os[i].path, os[j].path) => i = j
ASSUME ProgramsAssumption ==
  /\ Nesting \in Nat
  /\ \A p \in Programs :
       /\ TypeOptions(p.type) \in Seq(OptionType) /\ Distinct(TypeOptions(p.type))
       /\ p.environments \subseteq Seq(VariableType) /\ p.commands \subseteq Seq(ArgumentType)

-----------------------------------------------------------------------------
(* Converters.                                                             *)

Done(v)   == [is |-> "done", value |-> v]
Fails(e)  == [is |-> "error", error |-> e]
Panics    == [is |-> "panic"]
Cannot    == Fails(New("CANNOT_CONVERT_VALUE"))
CannotAs(code) == Fails(Wrap(New("CANNOT_CONVERT_VALUE"), New(code)))

\* Of the types in use, levels and addresses have the method.
UnmarshalText(kind, t) ==
  CASE t = Flag -> Cannot
    [] t # Flag /\ kind = "Level" -> IF Is(t, {"level"}) THEN Done(t) ELSE Fails(Foreign)
    [] t # Flag /\ kind = "AddrPort" -> IF Is(t, {"address", "empty"}) THEN Done(t) ELSE Fails(Foreign)
    [] OTHER -> Cannot

StringSlice(kind, t) == IF t # Flag /\ kind = "list" THEN Done(t) ELSE Cannot

Within(t, low, high) ==
  CASE ~Is(t, {"number"}) -> Cannot
    [] Is(t, {"number"}) /\ n(t) < low -> CannotAs("VALUE_TOO_SMALL")
    [] Is(t, {"number"}) /\ n(t) > high -> CannotAs("VALUE_TOO_LARGE")
    [] OTHER -> Done(n(t))

\* Mutant of IntValue: every integer type has the range of the widest.
IntValue_Wide(kind, t) == IF kind \in DOMAIN Width THEN Within(t, -(2^5), 2^5 - 1) ELSE Cannot

IntValue(kind, t) ==
  IF kind \in DOMAIN Width THEN Within(t, -(2^(Width[kind] - 1)), 2^(Width[kind] - 1) - 1) ELSE Cannot

\* The limits of uint and uint8 are those of the signed types.  A sign is a
\* syntax error (also a leading "+", with which no number is written here).
UintValue(kind, t) ==
  LET bits == IF kind \in {"uint", "uint8"} THEN Unsigned[kind] - 1 ELSE Unsigned[kind] IN
  IF kind \notin DOMAIN Unsigned \/ (Is(t, {"number"}) /\ n(t) < 0) THEN Cannot ELSE Within(t, 0, 2^bits - 1)

\* Mutant of FloatValue: it panics for numbers that are too large as well.
FloatValue_Panics(kind, t) == IF kind = "float" /\ IsNumeric(t) THEN Done(t) ELSE Panics

\* The type of the target is not looked at: SetFloat panics for others.
FloatValue(kind, t) ==
  CASE ~IsNumeric(t) -> Cannot
    [] IsNumeric(t) /\ kind = "float" -> Done(t)
    [] OTHER -> Panics

StringValue(kind, t) == IF t # Flag /\ kind = "bytes" THEN Done(t) ELSE Cannot

DurationValue(kind, t) == IF kind = "Duration" /\ Is(t, {"span"}) THEN Done(n(t)) ELSE Cannot

Converters(kind, t) ==
  <<UnmarshalText(kind, t), StringSlice(kind, t), IntValue(kind, t), UintValue(kind, t),
    FloatValue(kind, t), StringValue(kind, t), DurationValue(kind, t)>>

\* The error says which option it is about.
Incompatible(o, cause) == WithAttr(Wrap(New("INCOMPATIBLE_VALUE"), cause), "option", o.path)

\* Option.apply: a value that can be assigned, or what the first converter says
\* that does not decline.
ApplyOption(o, t) ==
  LET tried == Converters(o.kind, t)
      Declines(r) == r.is = "error" /\ HasCode(r.error, "CANNOT_CONVERT_VALUE")
      first == SelectInSeq(tried, LAMBDA r : ~Declines(r))
      result == IF first = 0 THEN Last(tried) ELSE tried[first]
  IN
  CASE o.kind = "string" /\ t # Flag -> Done(t)
    [] o.kind = "bool" /\ t = Flag -> Done(TRUE)
    [] OTHER -> IF result.is = "error" THEN Fails(Incompatible(o, result.error)) ELSE result

-----------------------------------------------------------------------------
(* The parser, word by word.                                               *)

NoSuchOption(path) == WithAttr(New("NO_SUCH_OPTION"), "option", path)
Find(path) == SelectInSeq(options, LAMBDA o : Equals(o.path, path))

Fail(e) ==
  /\ phase' = "failed" /\ error' = e
  /\ UNCHANGED <<values, position>>

\* The next word is at position p.
Skip(p) == position' = p /\ UNCHANGED <<values, phase, error>>

\* Option i takes t.
Take(i, t, p) ==
  LET r == ApplyOption(options[i], t) IN
  \/ r.is = "done" /\ values' = [values EXCEPT ![i] = r.value] /\ position' = p /\ UNCHANGED <<phase, error>>
  \/ r.is = "error" /\ Fail(r.error)
  \/ r.is = "panic" /\ phase' = "panicked" /\ UNCHANGED <<values, position, error>>

Init ==
  /\ program \in Programs
  /\ options = TypeOptions(program.type)
  /\ values = [i \in DOMAIN options |-> Zero(options[i].kind)]
  /\ phase = "defaults" /\ position = 1
  /\ environment = <<>> /\ arguments = <<>> /\ error = <<>>

ApplyDefault ==
  /\ phase = "defaults" /\ position <= Len(options)
  /\ \/ options[position].default = None /\ Skip(position + 1)
     \/ options[position].default # None /\ Take(position, options[position].default, position + 1)
  /\ UNCHANGED inputVars

ReadEnvironment ==
  /\ phase = "defaults" /\ position > Len(options)
  /\ phase' = "environment" /\ position' = 1
  /\ environment' \in program.environments
  /\ UNCHANGED <<program, options, arguments, values, error>>

\* Mutant of ApplyVariable: an option that has a value keeps it.
ApplyVariable_KeepFirst ==
  /\ phase = "environment" /\ position <= Len(environment)
  /\ LET w == environment[position]
         i == Find(w.path)
     IN
     \/ w.malformed /\ Fail(Foreign)
     \/ ~w.malformed /\ (~w.prefixed \/ i = 0) /\ Skip(position + 1)
     \/ /\ ~w.malformed /\ w.prefixed /\ i # 0
        /\ IF values[i] # Zero(options[i].kind) THEN Skip(position + 1) ELSE Take(i, w.text, position + 1)
  /\ UNCHANGED inputVars

\* Mutant of ApplyVariable: a variable of another program ends the parsing.
ApplyVariable_Strict ==
  /\ phase = "environment" /\ position <= Len(environment)
  /\ LET w == environment[position]
         i == Find(w.path)
     IN
     \/ w.malformed /\ Fail(Foreign)
     \/ ~w.malformed /\ ~w.prefixed /\ Skip(position + 1)
     \/ ~w.malformed /\ w.prefixed /\ i = 0 /\ Fail(NoSuchOption(w.path))
     \/ ~w.malformed /\ w.prefixed /\ i # 0 /\ Take(i, w.text, position + 1)
  /\ UNCHANGED inputVars

\* Variables without the prefix and of unknown options are passed over; one
\* without "=" is an error.
ApplyVariable ==
  /\ phase = "environment" /\ position <= Len(environment)
  /\ LET w == environment[position]
         i == Find(w.path)
     IN
     \/ w.malformed /\ Fail(Foreign)
     \/ ~w.malformed /\ ~w.prefixed /\ Skip(position + 1)
     \/ ~w.malformed /\ w.prefixed /\ i = 0 /\ Skip(position + 1)
     \/ ~w.malformed /\ w.prefixed /\ i # 0 /\ Take(i, w.text, position + 1)
  /\ UNCHANGED inputVars

ReadCommand ==
  /\ phase = "environment" /\ position > Len(environment)
  /\ phase' = "command" /\ position' = 1
  /\ arguments' \in program.commands
  /\ UNCHANGED <<program, options, environment, values, error>>

\* Mutant of ApplyArgument: the next word is passed over although it is an
\* option, or there is none.
ApplyArgument_PassOver ==
  /\ phase = "command" /\ position <= Len(arguments)
  /\ LET w == arguments[position]
         i == Find(w.path)
         hasValue == position < Len(arguments) /\ arguments[position + 1].path = <<>>
     IN
     \/ w.path = <<>> /\ Fail(Foreign)
     \/ w.path # <<>> /\ i = 0 /\ Fail(NoSuchOption(w.path))
     \/ w.path # <<>> /\ i # 0 /\ Take(i, IF hasValue THEN arguments[position + 1].text ELSE Flag, position + 2)
  /\ UNCHANGED inputVars

\* An option takes the next word unless that is an option itself.
ApplyArgument ==
  /\ phase = "command" /\ position <= Len(arguments)
  /\ LET w == arguments[position]
         i == Find(w.path)
         hasValue == position < Len(arguments) /\ arguments[position + 1].path = <<>>
     IN
     \/ w.path = <<>> /\ Fail(Foreign)
     \/ w.path # <<>> /\ i = 0 /\ Fail(NoSuchOption(w.path))
     \/ w.path # <<>> /\ i # 0 /\ hasValue /\ Take(i, arguments[position + 1].text, position + 2)
     \/ w.path # <<>> /\ i # 0 /\ ~hasValue /\ Take(i, Flag, position + 1)
  /\ UNCHANGED inputVars

EndCommand ==
  /\ phase = "command" /\ position > Len(arguments)
  /\ phase' = "parsed"
  /\ UNCHANGED <<inputVars, values, position, error>>

-----------------------------------------------------------------------------
(* main and dns4acme.New, for the configuration of a server.               *)

Value(word) == values[Find(<<[word |-> word, upper |-> FALSE]>>)]
Invalid(cause) == Wrap(New("INVALID_CONFIGURATION"), cause)
BadName(part) == part.form \in {"empty", "junk"}

\* What may go wrong when the client of an API server is built (BuildFull).
BuildErrors == {New("CONFIGURATION_ERROR"), New("BACKEND_REQUEST_FAILED"), New("KUBERNETES_CRD_MISSING")}

Refuse(e) ==
  /\ phase' = "refused" /\ error' = e
  /\ UNCHANGED <<values, position>>

\* The backend exists and can be built, and there are name servers (Validate).
NewServer ==
  /\ phase = "parsed" /\ program.server
  /\ LET names == Value("nameservers")
         bad == SelectInSeq(names, BadName)
         cause == IF names[bad].form = "empty" THEN "EMPTY_NAMESERVER" ELSE "INVALID_NAMESERVER"
     IN
     \/ Value("backend") \notin program.backends /\ Refuse(Invalid(Foreign))
     \/ Value("backend") \in program.backends \ {Word("inmemory")} /\ \E e \in BuildErrors : Refuse(e)
     \/ /\ Value("backend") \in program.backends
        /\ \/ names = <<>> /\ Refuse(Invalid(New("MISSING_NAMESERVERS")))
           \/ bad # 0 /\ Refuse(WithAttr(Invalid(New(cause)), "item", bad - 1))
           \/ names # <<>> /\ bad = 0 /\ phase' = "ready" /\ UNCHANGED <<values, position, error>>
  /\ UNCHANGED inputVars

-----------------------------------------------------------------------------
Next ==
  \/ ApplyDefault \/ ReadEnvironment \/ ApplyVariable \/ ReadCommand \/ ApplyArgument \/ EndCommand
  \/ NewServer

Spec == Init /\ [][Next]_vars

-----------------------------------------------------------------------------
(* Properties.                                                             *)

\* The options keep their types and paths, and the words are read one after the
\* other, phase by phase, never beyond the last: a value that an option takes is
\* a word of the command line (parser.go:107-181).
TypeOK ==
  /\ program \in Programs
  /\ options \in Seq(OptionType) /\ Distinct(options)
  /\ environment \in Seq(VariableType) /\ arguments \in Seq(ArgumentType)
  /\ DOMAIN values = DOMAIN options
  /\ position \in Nat \ {0}
  /\ phase \in {"defaults", "environment", "command", "parsed", "ready", "failed", "refused", "panicked"}
  /\ phase = "defaults" => environment = <<>> /\ arguments = <<>> /\ position <= Len(options) + 1
  /\ phase = "environment" => arguments = <<>> /\ position <= Len(environment) + 1
  /\ phase = "command" => position <= Len(arguments) + 1

\* What the words say, without the parser: for each default, variable and
\* argument the option and its text.  A word may also be passed over, or be one
\* that should not be there.
Says(path, t) == [is |-> "says", path |-> path, text |-> t]
Nothing == [is |-> "nothing"]
Stray   == [is |-> "stray"]

DefaultSays(o) == IF o.default = None THEN Nothing ELSE Says(o.path, o.default)

VariableSays(w) ==
  CASE w.malformed -> Stray
    [] ~w.malformed /\ w.prefixed /\ Find(w.path) # 0 -> Says(w.path, w.text)
    [] OTHER -> Nothing

IsText(i) == i \in DOMAIN arguments /\ arguments[i].path = <<>>
ArgumentSays(i) ==
  CASE ~IsText(i) -> Says(arguments[i].path, IF IsText(i + 1) THEN arguments[i + 1].text ELSE Flag)
    [] IsText(i) /\ (i = 1 \/ IsText(i - 1)) -> Stray
    [] OTHER -> Nothing

Said ==
  [i \in DOMAIN options |-> DefaultSays(options[i])]
    \o [i \in DOMAIN environment |-> VariableSays(environment[i])]
    \o [i \in DOMAIN arguments |-> ArgumentSays(i)]

\* What a text means for an option of a kind, if anything.  A bool has a meaning
\* for the mere flag only: although docs/configuration/index.md:5 says that all
\* options can be passed as environment variables, no text is accepted for one.
HasMeaning(kind, t) ==
  \/ t = Flag /\ kind = "bool"
  \/ /\ t # Flag
     /\ \/ kind \in {"string", "bytes", "list"}
        \/ kind = "float" /\ IsNumeric(t)
        \/ kind = "Duration" /\ Is(t, {"span"})
        \/ kind = "Level" /\ Is(t, {"level"})
        \/ kind = "AddrPort" /\ Is(t, {"address", "empty"})
        \/ kind \in DOMAIN Width /\ Is(t, {"number"}) /\ n(t) \in -(2^(Width[kind] - 1))..(2^(Width[kind] - 1) - 1)
        \/ kind \in DOMAIN Unsigned /\ Is(t, {"number"}) /\ n(t) \in 0..(2^Unsigned[kind] - 1)

Meaning(kind, t) ==
  CASE kind \in DOMAIN Width \cup DOMAIN Unsigned -> n(t)
    [] kind = "bool" -> TRUE
    [] OTHER -> t

\* A number or fraction that floatConverter gets to see and its type cannot take.
Unfit(kind, t) ==
  /\ IsNumeric(t)
  /\ \/ kind = "bytes"
     \/ kind \in {"bool"} \cup DOMAIN Width \cup DOMAIN Unsigned /\ ~HasMeaning(kind, t)
     \/ kind \in {"uint", "uint8"} /\ n(t) >= 2^(Unsigned[kind] - 1)

Accepted(o, t) == HasMeaning(o.kind, t) /\ ~Unfit(o.kind, t)

Faulty(s) ==
  \/ s.is = "stray"
  \/ s.is = "says" /\ ~\E i \in DOMAIN options : Equals(options[i].path, s.path) /\ Accepted(options[i], s.text)

\* The first word that is not accepted.
FirstFault(i) == Faulty(Said[i]) /\ \A j \in 1..(i - 1) : ~Faulty(Said[j])

\* Once the command line is parsed, every word was acceptable, and every option
\* has exactly the meaning of what was said about it last, the command line
\* taking precedence over the environment and that over the defaults, or its
\* zero value (docs/configuration/index.md:5, parser.go:107-181, main.go:25-33).
LastSourceWins ==
  phase \in {"parsed", "ready"} =>
    /\ \A i \in DOMAIN Said : ~Faulty(Said[i])
    /\ \A i \in DOMAIN options :
         LET about == {j \in DOMAIN Said : Said[j].is = "says" /\ Equals(Said[j].path, options[i].path)} IN
         values[i] = IF about = {} THEN Zero(options[i].kind) ELSE Meaning(options[i].kind, Said[Max(about)].text)

\* When the parser gives up, it is at the first faulty word, and if that is about
\* an option then the attributes that main logs name it (parser.go:296-300,
\* main.go:53-61).  A text for an option of type bool counts as faulty, because
\* the code refuses it; that docs/configuration/index.md:5 promises otherwise is
\* excepted here, and so is what such a text should mean.
FirstFaultReported ==
  phase = "failed" =>
    \E i \in DOMAIN Said :
      /\ FirstFault(i)
      /\ LET logged == LoggedAttrs(error) IN
         Said[i].is = "says" => \E j \in DOMAIN logged : logged[j].key = "option" /\ Equals(logged[j].value, Said[i].path)

\* The parser panics only at the first faulty word, and only for a number or
\* fraction, given to an option that is not a float, that no converter before
\* the one for floats has accepted (converter_float.go:36-55).
PanicsExplained ==
  phase = "panicked" =>
    \E i \in DOMAIN Said :
      /\ FirstFault(i) /\ Said[i].is = "says"
      /\ \E j \in DOMAIN options : Equals(options[j].path, Said[i].path) /\ Unfit(options[j].kind, Said[i].text)
=============================================================================
