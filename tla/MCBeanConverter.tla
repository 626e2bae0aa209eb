----------------------------- MODULE MCBeanConverter -----------------------------
(***************************************************************************)
(* Instances of BeanConverter for TLC.                                     *)
(***************************************************************************)
EXTENDS BeanConverter, Sequences

\* Widths that TLC's integers can hold, in Java's order; characters keep theirs, so
\* that '1', 't' and 'T' are what they are.
Widths == [Byte |-> 2 ^ 8, Short |-> 2 ^ 16, Character |-> 2 ^ 16, Integer |-> 2 ^ 20, Long |-> 2 ^ 24]

Field(name, type, value) ==
  [name |-> name, type |-> type, value |-> value, synthetic |-> FALSE, constant |-> FALSE]

\* Values at the boundaries of the type and of the narrower ones.
Numbers(c) == {n \in {- 2 ^ 20 - 1, -129, -1, 0, 53, 32768, 2 ^ 24} : Holds(c, n)}

Values(type) ==
  CASE type = "String"  -> {Text("empty", 0), Text("Boolean", 1), Text("Character", 53),
                            Text("Integer", 300), Text("Double", 5), Null}
    [] type = "Boolean" -> {Value(type, 0), Value(type, 1)}
    [] type \in Bean    -> {Value(type, 0)}
    [] type = "Character" -> {Value(type, n) : n \in {1, 49, 116, 65535}}
    [] type = "Integer" -> {Value(type, n) : n \in Numbers(type)} \cup {Null}
    [] OTHER            -> {Value(BoxOf(type), n) : n \in Numbers(BoxOf(type))}

Default(type) == IF type \in Primitive THEN Value(BoxOf(type), 0) ELSE Null

Other(type) == CHOOSE v \in Values(type) : \A w \in Values(type) : w = v \/ v.n >= w.n

\* A class with a field x that hides one of its superclass and a field y of their
\* type, converted to a class with an x and, in its superclass, a y of one type
\* too: every type to every other, every value of x.
Hiding ==
  UNION {{[source |-> <<<<Field("x", from, v), Field("y", from, Other(from))>>,
                        <<Field("x", from, Other(from))>>>>,
           target |-> <<<<Field("x", to, Default(to)), Field("z", to, Default(to))>>,
                        <<Field("y", to, Default(to))>>>>,
           constructible |-> TRUE] : v \in Values(from)} : from \in Type, to \in Type}

\* A second pair of namesakes, static final or synthetic in both classes, and a
\* target with or without a constructor.
Final(n) == [Field("u", "Long", Value("Long", n)) EXCEPT !.constant = TRUE]
Synthetic(n) == [Field("u", "SourceBean", Value("SourceBean", n)) EXCEPT !.synthetic = TRUE]

Special ==
  {[source |-> <<<<Field("x", "Long", v), more[1]>>>>,
    target |-> <<<<Field("x", "Short", Null), more[2]>>>>,
    constructible |-> constructible] :
     v \in Values("Long"), constructible \in BOOLEAN,
     more \in {<<Final(1), Final(2)>>, <<Synthetic(1), Synthetic(2)>>}}

Samples == Hiding \cup Special
===============================================================================
