------------------------------- MODULE Errors -------------------------------
(***************************************************************************)
(* Structured errors (lang/E).  An error is the sequence of its layers,    *)
(* the outermost first: Wrap puts a layer around a cause, WithAttr adds an *)
(* attribute in front of the linked list of the outermost layer.  Both     *)
(* make new errors, so that the shared error values of the packages stay   *)
(* as they are.                                                            *)
(***************************************************************************)
EXTENDS Integers, FiniteSetsExt, Sequences

New(code) == <<[code |-> code, attrs |-> <<>>]>>

\* An error of another package, which has neither a code nor attributes.
Foreign == New("")

\* (To wrap twice is a bug that panics; the code wraps fresh errors.)
Wrap(e, cause) == e \o cause

WithAttr(e, key, value) == [e EXCEPT ![1].attrs = <<[key |-> key, value |-> value]>> \o @]

HasCode(e, code) == \E i \in DOMAIN e : e[i].code = code

\* The attributes that main logs: those of the outermost structured layer.
LoggedAttrs(e) ==
  LET structured == {i \in DOMAIN e : e[i].code # ""}
  IN  IF structured = {} THEN <<>> ELSE e[Min(structured)].attrs
=============================================================================
