-------------------------------- MODULE MCTypes --------------------------------
(* Instance of Types: a class, a built-in type whose name a class may take in *)
(* another case, five signatures of one method and one of another, lists of   *)
(* up to three parameters, expressions of two operators, generic types of two *)
(* parameters, and patterns of two levels.                                    *)
EXTENDS Types

MCTypeNames == {"A", "Int"}
MCLower == [n \in {"A", "Int", "int"} |-> IF n = "Int" THEN "int" ELSE n]
P(name, type) == Parameter(name, type, NoDefault, FALSE)
Run(params) == Signature("run", params)
MCSignatures ==
    {Run(<<>>), Run(<<P(1, "int")>>), Run(<<P(1, "text")>>),
     Run(<<P(1, "int"), P(2, "int")>>), Run(<<P(2, "text"), P(3, "int")>>),
     Signature("stop", <<>>)}
MCBuiltinTypes ==
    <<Builtin("int", <<Signature("run", <<P(1, "any"), Parameter(2, "any", <<Mark("0")>>, FALSE)>>)>>,
              <<Signature("run", <<Rest>>)>>)>>
MCInterfaceMethods == {"run"}
MCArguments == {<<>>, <<"int">>, <<"text">>, <<"int", "int">>, <<"text", "int">>}
MCNatives == {}

Defaults == {NoDefault, <<Mark("0")>>, <<Word(7), Mark("+"), Word(8)>>}
OneParameter == [name : {1, 2}, type : {"int"}, default : Defaults, rest : {FALSE}]
Lists == SeqOf(OneParameter, 2) \cup {<<p, P(3, "int"), q>> : p, q \in OneParameter}
MCParameterLists == Lists \cup {Append(params, Rest) : params \in Lists}

MCMethods == [c \in {} |-> {}]
MCKnown == [x \in {"c", "i"} |-> IF x = "c" THEN CharValue(1) ELSE IntValue(1)]
MCDoubles == {-1, 0, 1}
MCTrueText  == <<14>>
MCFalseText == <<15>>
MCSourceValues ==
    LET Digit(n) == Zero + n
        Texts == {<<>>, <<14>>, <<Minus>>, <<Blank, Plus, Digit(1)>>, <<Minus, Digit(4), 14>>, <<Minus, Blank, Digit(1)>>,
                  <<Digit(9)>>, <<Digit(0), Digit(2)>>, <<Digit(1), Digit(0)>>}
    IN  Ints \cup {DoubleValue(n) : n \in MCDoubles} \cup {BoolValue(b) : b \in BOOLEAN}
        \cup {CharValue(n) : n \in {0, Minus, Digit(1)}} \cup {Text(s) : s \in Texts}
Atoms == {Constant(v) : v \in {IntValue(1), DoubleValue(1), BoolValue(TRUE), Text(<<1>>), CharValue(1)}}
         \cup {Variable(x) : x \in {"c", "i", "lost"}}
Operated(left, right) ==
    {Compound("binary", op, <<x, y>>) :
        op \in {"+", "/", "<", "<=", "==", "&&", "=", "<<"}, x \in left, y \in right}
    \cup {Compound("unary", op, <<x>>) : op \in {"!", "-", "~"}, x \in left}
    \cup {Compound("ternary", "?:", <<c, x, y>>) :
            c \in {Constant(BoolValue(TRUE)), Compound("binary", "<", <<Variable("i"), Variable("i")>>)},
            x \in left, y \in right}
Collected == {Compound(kind, "", s) :
    kind \in {"Array", "Set", "Dict", "range", "slice", "coalesce", "match", "async", "await", "type check", "cast", "compound"},
    s \in [1 .. 2 -> Atoms] \cup {<<c, x, y>> : c \in {Variable("i")}, x, y \in Atoms}}
Accessed ==
    {Compound("conversion", type, <<x>>) : type \in {"int", "string", "char", "A"}, x \in Atoms}
    \cup {Compound(kind, "", <<x, y>>) : kind \in {"member", "method"}, x \in Atoms, y \in {Constant(Text(<<1>>)), Constant(Text(<<>>)), Variable("i")}}
    \cup {Compound("method", "", <<Variable("i"), x>>) : x \in {Compound("unary", "-", <<Variable("i")>>), Constant(Text(<<1>>))}}
MCExpressions == Operated(Atoms, Atoms) \cup Accessed \cup Collected \cup Operated(Operated(Atoms, Atoms), {Variable("i"), Constant(DoubleValue(1))})

MCTypeLists == SeqOf({<<"int">>, <<"double">>, <<"Array", "int">>}, 2)
MCSomeTypes == {<<"int">>, <<"double">>, <<"Array", "int">>, <<"T">>, <<"T1">>}
MCTypeVariables == {<<"T">>, <<"T1">>}
MCParametersOfTypes ==
    SeqOf([name : {"T", "U"}, constraint : {<<>>, <<"int">>, <<"double">>}], 2)
MCSubtypes == {<<<<"int">>, <<"double">>>>}
MCInstances == {<<<<"Array", "int">>, <<"T">>>>}
Number(n) == Datum(<<"int">>, n, <<>>, <<>>)
List(parts) == Datum(<<"Array">>, 0, <<>>, parts)
Dict(names, parts) == Datum(<<"Dict">>, 0, names, parts)
MCSomeValues ==
    LET Items == {Number(0), Number(1), Datum(<<"text">>, 1, <<>>, <<>>)}
        Flat == Items \cup {NullDatum} \cup {List(s) : s \in SeqOf(Items, 2)}
                \cup {Dict(<<"k">>, <<x>>) : x \in Items}
                \cup {Dict(<<"k", "l">>, <<x, y>>) : x, y \in Items}
    IN  Flat \cup {List(<<x, y>>) : x, y \in {List(<<Number(0), Number(1)>>), Number(1), NullDatum}}

MCGuard(name, bindings) == name \in DOMAIN bindings /\ bindings[name] = Number(1)
Leaves ==
    {Literal(Number(1)), Simple("variable", "x", <<>>), Simple("variable", "y", <<>>),
     Simple("variable", "x", <<"int">>)}
Others == {Simple("wildcard", "", <<>>), Simple("range", "", <<>>), Simple("type", "", <<"double">>)}
Of(kind, name, names, parts, rest) == Pattern(kind, name, <<>>, NullDatum, names, parts, rest)
Around(inner) ==
    {Of(kind, "", <<>>, <<p, q>>, FALSE) : kind \in {"or", "and", "array"}, p, q \in inner}
    \cup {Of("array", "", <<>>, <<p>>, TRUE) : p \in inner}
    \cup {Of("dict", "", <<"k">>, <<p>>, FALSE) : p \in inner}
    \cup {Of("dict", "", <<"k", "l">>, <<p, q>>, FALSE) : p, q \in inner}
    \cup {Of("guard", "x", <<>>, <<p>>, FALSE) : p \in inner}
MCSomePatterns ==
    LET Level == Around(Leaves)
    IN  Leaves \cup Others \cup Level \cup Around(Others)
        \cup {Of(kind, "", <<>>, <<p, q>>, FALSE) : kind \in {"or", "and", "array"}, p \in Level,
                 q \in {Simple("variable", "y", <<>>), Simple("wildcard", "", <<>>)}}
        \cup {Of("guard", "x", <<>>, <<p>>, FALSE) : p \in Level}
        \cup {Of("struct", "", <<>>, <<>>, FALSE), Of("and", "", <<>>, <<>>, FALSE), Of("or", "", <<>>, <<>>, FALSE)}
=============================================================================
