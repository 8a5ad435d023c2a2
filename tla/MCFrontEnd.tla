----------------------------- MODULE MCFrontEnd ----------------------------
(* The front end on all short texts, all programs of small depth and all    *)
(* chains of up to three operators.                                         *)
EXTENDS FrontEnd

CONSTANTS TextLength, ChainLength     \* characters of a text, operators of a chain

Few == {"x", "1", ".", "=", "/", "\"", "\n", "("}
Characters == Few \cup {"if", "0", "<", "&", "+", "#", "-", " "}
MCTexts == [1..TextLength -> Few] \cup UNION {[1..n -> Characters] : n \in 1..(TextLength - 1)}
MCTextLines == {t \o <<"\n">> : t \in MCTexts}

Vx == <<"Variable", <<"x">>>>
Vy == <<"Variable", <<"y", "1">>>>
S(text) == <<"Constant", "String", text>>
Leaves == {Vx, Vy, <<"Constant", "Integer", <<"1">>>>, <<"Constant", "Double", <<"1", ".", "8">>>>,
  S(<<"x">>), <<"Constant", "Char", <<"y">>>>, <<"Constant", "Bool", <<"true">>>>, <<"Set", <<>>>>, <<"Array", <<>>>>}
Ops == {<<"+">>, <<"*">>, <<"<", "=">>, <<"=", "=">>, <<"&", "&">>, <<"<", "<">>, <<"|">>}

Operations(E, F) ==
  {<<"Unary", op, e>> : op \in {<<"-">>, <<"!">>, <<"+", "+">>}, e \in E}
  \cup {<<"Postfix", <<"-", "-">>, e>> : e \in E}
  \cup {<<"Binary", op, e, f>> : op \in Ops, e \in E, f \in F}
  \cup {<<"Binary", <<"=">>, Vx, e>> : e \in E}
  \cup {<<"Member", e, S(<<"y">>)>> : e \in E}
  \cup {<<"Index", e, f>> : e \in E, f \in F}
  \cup {<<"Slice", e, f, g, h>> : e \in {Vx}, f \in F, g \in {Vy}, h \in {Vx, Null}}
  \cup {<<"Call", Vx, args>> : args \in {<<>>} \cup {<<e>> : e \in E} \cup {<<e, f>> : e \in E, f \in F}}
  \cup {<<"Call", <<"Method", e, S(<<"f">>)>>, <<f>>>> : e \in E, f \in F}
  \cup {<<"Array", <<e, f>>>> : e \in E, f \in F}
  \cup {<<"Dict", <<<<e, f>>>>>> : e \in E, f \in F}
  \cup {<<"await", Vx>>, <<"async", <<"Call", Vx, <<>>>>>>}

Shallow == Operations(Leaves, {Vx, S(<<"x">>)})
Some == {<<"Binary", <<"+">>, Vx, Vy>>, <<"Call", Vx, <<Vy, Vx>>>>, <<"Array", <<Vx>>>>, <<"Member", Vx, S(<<"f">>)>>}
Expressions == Leaves \cup Shallow \cup Operations(Some, Some)

X(e) == <<"Expression", e>>
Small == {X(Vx), <<"Block", <<>>>>, <<"break">>, <<"Return", Null>>}
Statements(B) ==
  {<<"If", Vx, a, b>> : a \in B, b \in B \cup {Null}}
  \cup {<<"While", <<"Unary", <<"!">>, Vx>>, a>> : a \in B}
  \cup {<<"For", i, c, i, a>> : i \in {Null, Vy}, c \in {Null, Vx}, a \in B}
  \cup {<<"Try", <<"Block", <<a>>>>, <<"x">>, <<"Block", <<>>>>, f>> : a \in B, f \in B \cup {Null}}
  \cup {<<"Try", a, <<"e">>, Null, f>> : a \in B, f \in B \cup {Null}}
  \cup {<<"Block", <<a, b>>>> : a, b \in B}
  \cup {<<"Return", e>> : e \in Some} \cup {<<"continue">>}
  \cup {<<"Let", <<<<<<"x">>, e>>, <<<<"f">>, Null>>>>>> : e \in Some \cup {Null}}
Closing(s) == s[1] \notin {"If", "While", "For", "Try"}     \* no else or finally can join it
Bodies == Small \cup {s \in Statements(Small) : Closing(s)}

Declarations ==
  {<<"Let", <<<<<<"x">>, e>>>>>> : e \in Expressions}
  \cup {<<"Function", <<"f">>, <<<<"x">>, <<"y">>>>, <<s>>>> : s \in Statements(Bodies)}
  \cup {<<"Import", <<"x">>>>, <<"ImportAs", <<"x">>, <<"y">>>>, <<"ImportAll", <<"x">>>>,
        <<"ImportItems", <<"x">>, <<<<<<"x">>, <<"x">>>>, <<<<"y">>, <<"f">>>>>>>>}
  \cup {<<"Struct", <<"x">>, <<<<"Visibility", <<"private">>>>, <<"Let", <<<<<<"y">>, Null>>>>>>>>>>}
  \cup {<<"Class", <<"x">>, b, i, <<<<"Visibility", <<"public">>>>, <<"Let", <<<<<<"y">>, Vx>>>>>>,
          <<"Function", <<"f">>, <<>>, <<>>>>>>>> : b \in {<<"Object">>, <<"y">>}, i \in {<<>>, <<<<"y">>, <<"f">>>>}}
  \cup {<<"Interface", <<"x">>, e, <<<<<<"f">>, <<<<"x">>>>>>>>>> : e \in {<<>>, <<<<"y">>>>}}
  \cup {<<"Module", <<"x">>, <<s>>>> : s \in Small \ {<<"Return", Null>>}}
MCPrograms == {<<d, X(Vx)>> : d \in Declarations}

ChainOps == {<<"=">>, <<"|", "|">>, <<"&", "&">>, <<"<">>, <<"<", "=">>, <<"=", "=">>, <<"+">>, <<"-">>, <<"&">>,
  <<"|">>, <<"*">>, <<">", ">">>}
Links(ops) == [i \in 1..(2 * Len(ops) + 1) |-> IF i % 2 = 0 THEN ops[i \div 2] ELSE <<"x">>]
MCChains == {Links(ops) : ops \in UNION {[1..n -> ChainOps] : n \in 0..ChainLength}}
============================================================================
