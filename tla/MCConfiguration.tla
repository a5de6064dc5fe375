-------------------------- MODULE MCConfiguration --------------------------
(* Instances of Configuration for TLC: the configuration of the server, and *)
(* one with an option of each integer type, as in the tests of converters.  *)
EXTENDS Configuration

Seg(word)     == <<[word |-> word, upper |-> FALSE]>>
Shout(word)   == <<[word |-> word, upper |-> TRUE]>>
Leaf(path, kind, default) == [path |-> path, type |-> [is |-> kind], default |-> default]
Struct(fields) == [is |-> "struct", fields |-> fields]
Plain(path, type) == [path |-> path, type |-> type, default |-> None]

KubernetesConfig == Struct(<<
  Leaf(Seg("host"), "string", Word("svc")), Leaf(Seg("cert"), "bytes", None),
  Leaf(Seg("cert") \o Seg("file"), "string", None), Leaf(Seg("qps"), "float", Number(5)),
  Leaf(Seg("burst"), "int", Number(10)), Leaf(Seg("timeout"), "Duration", Span(5)),
  Plain(<<>>, [is |-> "logger"])>>)
CoreConfig == Struct(<<
  Leaf(Seg("listen"), "AddrPort", Address("any")), Leaf(Seg("nameservers"), "list", None),
  Leaf(Seg("debug"), "bool", None)>>)
Backends == [is |-> "map", entries |-> <<
  [key |-> Seg("inmemory"), type |-> Struct(<<>>)], [key |-> Seg("kubernetes"), type |-> KubernetesConfig]>>]
ServerConfig == Struct(<<
  Plain(<<>>, CoreConfig), Plain(<<>>, Backends),
  Plain(Seg("log"), Struct(<<Leaf(Seg("level"), "Level", Level("info"))>>)), Leaf(Seg("backend"), "string", None)>>)

Variable(path, t) == [malformed |-> FALSE, prefixed |-> TRUE, path |-> path, text |-> t]
Kube(word) == Shout("kubernetes") \o Shout(word)
Option(path) == [path |-> path, text |-> None]
Text(t)      == [path |-> <<>>, text |-> t]
Names(a, b)  == a \o b

Kube1(word) == Seg("kubernetes") \o Seg(word)
Of(server, type, variables, words, most) ==
  [server |-> server, type |-> type, backends |-> {Word("inmemory"), Word("kubernetes")},
   environments |-> SeqOf(variables, 2), commands |-> SeqOf(words, most)]

\* Words that overrule each other, are passed over or end the parsing.
Precedence == Of(TRUE, ServerConfig,
  {[malformed |-> TRUE, prefixed |-> TRUE, path |-> <<>>, text |-> Empty],
   [malformed |-> FALSE, prefixed |-> FALSE, path |-> Shout("backend"), text |-> Word("other")],
   Variable(Shout("unknown"), Word("x")), Variable(Shout("backend"), Word("kubernetes")),
   Variable(Shout("nameservers"), Names(Word("ns1"), Word("ns2"))), Variable(Kube("cert") \o Shout("file"), Word("f")),
   Variable(Kube("timeout"), Junk)},
  {Option(Seg("unknown")), Option(Seg("backend")), Option(Seg("nameservers")), Option(Seg("debug")),
   Option(Kube1("cert")), Text(Word("inmemory")), Text(Names(Word("ns1"), Empty)), Text(Junk)}, 3)

\* Arguments that overrule arguments.
Repeated == Of(TRUE, ServerConfig, {},
  {Option(Seg("backend")), Option(Seg("nameservers")), Text(Word("inmemory")), Text(Names(Word("ns1"), Word("ns2")))}, 4)

\* Every option of the server with every kind of text.
OptionPaths == {Seg("listen"), Seg("nameservers"), Seg("debug"), Seg("backend"), Seg("log") \o Seg("level")}
           \cup {Kube1(word) : word \in {"cert", "qps", "burst", "timeout"}}
Samples == {Word("true"), Number(3), Fraction, Span(9), Empty, Junk, Address("local"), Level("debug"),
          Names(Number(1), Word("ns1"))}
Types == Of(TRUE, ServerConfig, {}, {Option(p) : p \in OptionPaths} \cup {Text(t) : t \in Samples}, 2)

IntegerKinds == <<"int8", "int16", "int32", "int64", "int", "Duration", "uint8", "uint16", "uint32", "uint64", "uint">>
Numbers == {-33, -32, -17, -16, -9, -8, -5, -4, 0, 3, 4, 7, 8, 15, 16, 31, 32, 63, 64}
Integers == Struct([i \in DOMAIN IntegerKinds |-> Leaf(Seg(IntegerKinds[i]), IntegerKinds[i], None)])
Widths == Of(FALSE, Integers, {}, {Option(Seg(k)) : k \in ToSet(IntegerKinds)} \cup {Text(Number(k)) : k \in Numbers}, 2)

All == {Precedence, Repeated, Types, Widths}
=============================================================================
