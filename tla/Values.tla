-------------------------------- MODULE Values --------------------------------
(***************************************************************************)
(* The values of a script as the C++ code uses them: operators, texts and  *)
(* comparisons are asked for one at a time, before there are containers;   *)
(* containers are then made, changed, copied and deleted.                  *)
(***************************************************************************)
EXTENDS Containers, Formats

CONSTANTS
    Operands,       \* of operators
    Texts,          \* that the methods of String are called on
    Layouts,        \* texts that format is called on
    ArgumentLists,  \* with these values
    Keywords,       \* and these values that have a name
    Arrays,         \* that are compared, as sequences of what their elements say
    Dicts           \* that are compared, as sequences of pairs of a key and a text

\* What format is asked to write.
Writable ==
    {x \in [type : BasicTypes, n : Int, text : Seq(Nat)] : x.type = "char" => x.n \in Nat}

\* Numbers, texts, and containers of what they hold.
ASSUME ValuesAssumption ==
    /\ Operands \subseteq [type : STRING, n : Int, text : Seq(Int)]
    /\ \A x \in Operands : (x.type = "int" => x \in Ints) /\ (x.type = "char" => x \in Chars)
    /\ Texts \subseteq Seq(Int)
    /\ Layouts \subseteq Seq(Nat)
    /\ ArgumentLists \subseteq Seq(Writable)
    /\ \A kwargs \in Keywords : \A name \in DOMAIN kwargs : kwargs[name] \in Writable
    /\ Arrays \subseteq Seq(Seq(Int))
    /\ Dicts \subseteq Seq([key : Seq(Int), text : Seq(Int)])

VARIABLE asked      \* the operation last asked for, and its answer

Ask(what, arguments, answer) ==
    /\ asked' = <<what, arguments, answer>>
    /\ UNCHANGED containerVars

BinaryOperators ==
    Arithmetic \cup BitOperators \cup Comparisons \cup Unanswered \cup {"<<", ">>", "&&", "||"}

Binary(x, y) ==
    \E op \in BinaryOperators : Ask("binary", <<op, x, y>>, BinaryOperation(op, x, y))
UnaryCall(x) ==
    \E op \in {"+", "-", "~", "!"} : Ask("unary", <<op, x>>, Unary(op, x))
Choose(x) ==
    \E b \in Operands : Ask("ternary", <<b, x>>, Ternary(b, x, Object("Money")))
Convert(x) ==
    \/ Ask("bool", <<x>>, ToBool(x))
    \/ \E type \in {"char", "int", "double"} :
          x.type \in {"char", "int", "double"} /\ Ask("promote", <<x, type>>, PromoteTo(type, x))
Search(s, t) ==
    \/ Ask("walk", <<s>>, Walk(s))
    \/ Ask("element", <<s, t>>, IndexOfElement(s, t))
CompareArrays(s, t) ==
    \E op \in Comparisons \cup Unanswered :
        Ask("arrays", <<op, s, t>>, ContainerOperation(op, ArrayLess(s, t), s = t))
CompareDicts(s, t) ==
    \E op \in Comparisons \cup Unanswered :
        Ask("dicts", <<op, s, t>>, ContainerOperation(op, DictLess(s, t), s = t))
AskText(s, t) ==
    \/ Ask("split", <<s, t>>, Split(s, t))
    \/ \E new \in Texts : Ask("replace", <<s, t, new>>, Replace(s, t, new))
    \/ Ask("find", <<s, t>>, <<IndexOf(s, t), LastIndexOf(s, t), HasText(s, t),
                               StartsWith(s, t), EndsWith(s, t)>>)
    \/ \E from, to \in -1 .. Len(s) + 1 : Ask("part", <<s, from, to>>, Substring(s, from, to))
    \/ Ask("trim", <<s>>, Trim(s))
    \/ \E n \in -1 .. 2 : Ask("repeat", <<n, s>>, Repeat(n, s))
    \/ Ask("concat", <<s, t>>, Concat(<<s, t, s>>))

AskFormat(s) ==
    \E args \in ArgumentLists, kwargs \in Keywords :
        Ask("format", <<s, args, kwargs>>, Format(s, args, kwargs))

ValuesInit == ContainersInit /\ asked = <<>>

AskNext ==
    \/ \E x, y \in Operands : Binary(x, y)
    \/ \E x \in Operands : UnaryCall(x) \/ Choose(x) \/ Convert(x)
    \/ \E s, t \in Arrays : CompareArrays(s, t)
    \/ \E s \in Arrays, t \in Texts : Search(s, t)
    \/ \E s, t \in Dicts : CompareDicts(s, t)
    \/ \E s, t \in Texts : AskText(s, t)
    \/ \E s \in Layouts : AskFormat(s)

ValuesNext ==
    \/ asked = <<>> /\ DOMAIN heap = {} /\ AskNext
    \/ asked = <<>> /\ ContainersNext /\ UNCHANGED asked

ValuesSpec == ValuesInit /\ [][ValuesNext]_<<containerVars, asked>>

----------------------------------------------------------------------------
(* What the operators promise to each other.                               *)

\* What op says of two values, two arrays or two dicts.
Says(what, op, x, y) ==
    CASE what = "binary" -> BoolValue(TRUE) \in BasicOperation(op, x, y)
      [] what = "arrays" -> ContainerOperation(op, ArrayLess(x, y), x = y)
      [] what = "dicts"  -> ContainerOperation(op, DictLess(x, y), x = y)

\* All that can be compared with x.
Comparable(what, x) ==
    CASE what = "binary" -> {z \in Operands : /\ z.type = x.type /\ z.type \in BasicTypes \ {"bool"}
                                              /\ z.type = "double" => ~IsNaN(z)}
      [] what = "arrays" -> Arrays
      [] what = "dicts"  -> Dicts

\* Asked of two values of one type, the comparison operators of numbers, texts,
\* arrays and dicts are those of one total order, NaN apart: < says yes if neither
\* == nor > does, > is the converse of <, == says yes if neither of two comes
\* first, and both < and the negation of > are transitive.
ComparisonsOrder ==
    asked # <<>> /\ asked[1] \in {"binary", "arrays", "dicts"} =>
    LET what == asked[1]
        op == asked[2][1]
        x == asked[2][2]
        y == asked[2][3]
        yes == IF what = "binary" THEN asked[3].outcomes = {BoolValue(TRUE)} ELSE asked[3]
        Less(s, t) == Says(what, "<", s, t)
        Equal(s, t) == Says(what, "==", s, t)
        Greater(s, t) == Says(what, ">", s, t)
    IN  {x, y} \subseteq Comparable(what, x) =>
        /\ op = "<"  => (yes <=> ~Equal(x, y) /\ ~Greater(x, y))
        /\ op = ">"  => (yes <=> Less(y, x))
        /\ op = "==" => (yes <=> ~Less(x, y) /\ ~Less(y, x))
        /\ op = "!=" => (yes <=> Less(x, y) \/ Less(y, x))
        /\ op = "<=" /\ what # "binary" => (yes <=> ~Less(y, x))
        /\ op = ">=" /\ what # "binary" => (yes <=> ~Less(x, y))
        /\ \A z \in Comparable(what, x) : /\ Less(x, y) /\ Less(y, z) => Less(x, z)
                                         /\ ~Greater(x, y) /\ ~Greater(y, z) => ~Greater(x, z)

\* All that op makes of one of xs and one of ys.
Eval(op, xs, ys) == UNION {BasicOperation(op, x, y) : x \in xs, y \in ys}

\* The quotient and the remainder of ints and chars make up the dividend, & and
\* ^ make up |, and - is ~ and one more, whatever is truncated on the way.
ArithmeticAgrees ==
    asked # <<>> /\ asked[1] = "binary" =>
    LET x == asked[2][2]
        y == asked[2][3]
    IN  x.type = y.type /\ x.type \in {"int", "char"} =>
        /\ y.n # 0 => x \in Eval("+", Eval("*", Eval("/", {x}, {y}), {y}), Eval("%", {x}, {y}))
        /\ Eval("|", {x}, {y}) \subseteq Eval("+", Eval("&", {x}, {y}), Eval("^", {x}, {y}))
        /\ UnaryOperation("-", x) \cap Eval("+", UnaryOperation("~", x), {[x EXCEPT !.n = 1]}) # {}

\* The operators of the Calculator agree with each other, in both these ways.
OperatorsAgree == ComparisonsOrder /\ ArithmeticAgrees

\* Parts with a text between them, from the i-th on.
JoinedBy(parts, between) ==
    LET from[i \in DOMAIN parts] ==
          IF i = Len(parts) THEN parts[i] ELSE parts[i] \o between \o from[i + 1]
    IN  from[1]

\* The methods of String that search agree: the parts of split joined again are
\* the text, replace joins them by another, and the places that indexOf and
\* lastIndexOf give are those before the first part and behind the last text
\* that startsWith and endsWith tell of.
PartsAgree ==
    asked # <<>> =>
    LET s == asked[2][1]
        t == asked[2][2]
        answer == asked[3]
    IN  CASE asked[1] = "split" -> t # <<>> => JoinedBy(answer, t) = s
          [] asked[1] = "replace" -> t # <<>> => answer = JoinedBy(Split(s, t), asked[2][3])
          [] asked[1] = "find" ->
               /\ answer[3] <=> answer[1] # -1
               /\ answer[3] <=> answer[2] # -1
               /\ t # <<>> /\ answer[3] => answer[1] = Len(Split(s, t)[1])
               /\ answer[4] <=> answer[1] = 0
               /\ answer[5] <=> answer[3] /\ answer[2] = Len(s) - Len(t)
          [] OTHER -> TRUE

\* A text with one placeholder and nothing else.
Alone(s) ==
    /\ s # <<>> /\ s[1] = Open /\ s[Len(s)] = Close
    /\ \A i \in 2 .. Len(s) - 1 : s[i] \notin {Open, Close}

\* What format puts into a text is never read as a placeholder.  Without a
\* layout, each argument is put where a mark in its place is, and stays what it
\* is, braces in it or not; at a width, blanks are all it is given.
FormatsAgree ==
    asked # <<>> /\ asked[1] = "format" =>
    LET s == asked[2][1]
        args == asked[2][2]
        answer == asked[3]
        marked == Format(s, [i \in DOMAIN args |-> Text(<<-9 - i>>)], asked[2][3])
        Unmarked(c) == IF c < 0 THEN ToText(args[-9 - c]) ELSE <<c>>
        colon == IndexOf(s, <<Colon>>)
    IN  /\ colon = -1 => answer = Concat([i \in DOMAIN marked |-> Unmarked(marked[i])])
        /\ Alone(s) /\ colon = 1 /\ args # <<>> /\ answer # NoNumber =>
             (args[1].type \in {"int", "string"} => Trim(answer) = Trim(ToText(args[1])))

\* The methods of String agree, in both these ways.
TextsAgree == PartsAgree /\ FormatsAgree

=============================================================================
