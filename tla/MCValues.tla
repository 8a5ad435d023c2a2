------------------------------- MODULE MCValues -------------------------------
(* Instance of Values: all numbers of three and four bits, texts of two     *)
(* letters and a blank, arrays and dicts of up to two, and two pointers to  *)
(* values of which four are alive at a time.                                *)
EXTENDS Values

MCKeys == <<"k">>
MCMethods == [c \in {"Money"} |-> {"+"}]
MCDoubles == {-2, -1, 0, 1, 2}

Letters == 1 .. 2
SomeTexts == SeqOf({0} \cup Letters, 2)
MCTexts == SomeTexts \cup {s \o t : s \in [1 .. 2 -> Letters], t \in [1 .. 2 -> Letters]}
MCOperands ==
    {IntValue(n) : n \in IntRange} \cup {CharValue(n) : n \in CharRange}
    \cup {DoubleValue(n) : n \in MCDoubles} \cup {Infinity, DoubleValue(-Huge), NaN}
    \cup {BoolValue(b) : b \in BOOLEAN} \cup {Text(s) : s \in SomeTexts}
    \cup {Object("Money"), Object("array")}
MCTrueText  == <<1>>
MCFalseText == <<2>>
Bare == SeqOf({Open, Close, 1, Zero + 1}, 4)
Fields == {<<>>, <<Zero>>, <<Zero + 1, 1>>, <<1>>}
Specs == SeqOf({Zero + 3, Minus, Point, LetterD, LetterF, LetterS}, 3)
MCLayouts == Bare \cup {<<Open>> \o field \o <<Colon>> \o spec \o <<Close>> : field \in Fields, spec \in Specs}
Arguments == {Text(<<1>>), Text(<<Open, Close>>), IntValue(-2), DoubleValue(1), BoolValue(TRUE)}
MCArgumentLists ==
    {<<>>} \cup {<<v>> : v \in Arguments} \cup {<<v, IntValue(2)>> : v \in {Text(<<1>>), Text(<<Open, Close>>)}}
MCKeywords == {[k \in {} |-> IntValue(0)], [k \in {<<1>>} |-> Text(<<Close, Open, Close>>)]}
MCArrays == SeqOf({<<>>, <<1>>, <<1, 2>>, <<2>>}, 2)
MCPairs == [key : {<<>>, <<1>>, <<2>>}, text : {<<1>>, <<1, 2>>, <<2>>}]
MCDicts == {d \in SeqOf(MCPairs, 2) : Len(d) = 2 => TextLess(d[1].key, d[2].key)}
=============================================================================
