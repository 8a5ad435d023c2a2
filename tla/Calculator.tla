------------------------------ MODULE Calculator ------------------------------
(***************************************************************************)
(* Primitive values and what operators make of them (primitive_types.cpp,  *)
(* calculate.cpp).  int and char are two's complement numbers of IntBits   *)
(* and CharBits; a finite double stands for all that round to it, and a    *)
(* result that no finite double here equals may be any of them.            *)
(*                                                                         *)
(* An operation has a set of possible outcomes: a value, or one of         *)
(*   null    no result, which the interpreter reports                      *)
(*   throw   a runtime_error, which the interpreter reports                *)
(*   return  a ReturnException, which ends the running function            *)
(*   fault   an operand is used after it was deleted                       *)
(***************************************************************************)
EXTENDS Integers, Sequences, FiniteSetsExt

CONSTANTS
    IntBits, CharBits,      \* widths of int and char
    Doubles,                \* the finite doubles
    Methods                 \* per class of the script, the operators it has a method for

\* Half of what a width counts is a number, and twice of it the whole: the
\* provers know nothing else of powers.
ASSUME WidthsAssumption ==
    \A bits \in {IntBits, CharBits} :
        /\ bits \in Nat \ {0}
        /\ 2 ^ (bits - 1) \in Nat \ {0} /\ 2 ^ bits = 2 ^ (bits - 1) + 2 ^ (bits - 1)

IntRange  == -(2 ^ (IntBits - 1)) .. (2 ^ (IntBits - 1) - 1)
CharRange == -(2 ^ (CharBits - 1)) .. (2 ^ (CharBits - 1) - 1)

Huge == 1 + Max({IF n < 0 THEN -n ELSE n : n \in Doubles})   \* orders infinity

Value(type, n, text) == [type |-> type, n |-> n, text |-> text]
IntValue(n)    == Value("int", n, <<>>)
CharValue(n)   == Value("char", n, <<>>)
DoubleValue(n) == Value("double", n, <<>>)
Infinity  == DoubleValue(Huge)
NaN       == Value("double", 0, <<-1>>)
BoolValue(b)   == Value("bool", IF b THEN 1 ELSE 0, <<>>)
Text(s)   == Value("string", 0, s)
Object(c) == Value(c, 0, <<>>)
Outcome(kind) == Value(kind, 0, <<>>)

Ints  == {IntValue(n) : n \in IntRange}
Chars == {CharValue(n) : n \in CharRange}

Signed(n, bits) == ((n + 2 ^ (bits - 1)) % (2 ^ bits)) - 2 ^ (bits - 1)

\* Signed overflow is undefined; a char is computed as an int and truncated.
IntResult(n)  == IF n \in IntRange THEN {IntValue(n)} ELSE Ints
CharResult(n) == {CharValue(Signed(n, CharBits))}
DoubleResult(n) ==
    IF n \in Doubles \cup {Huge, -Huge} THEN {DoubleValue(n)} ELSE {DoubleValue(d) : d \in Doubles}

\* Division rounds to zero, and the remainder has the sign of the dividend.
Magnitude(n) == IF n < 0 THEN -n ELSE n
Quotient(a, b) ==
    LET q == Magnitude(a) \div Magnitude(b) IN IF (a < 0) = (b < 0) THEN q ELSE -q

Remainder(a, b) == a - b * Quotient(a, b)

BitsOf(n, bits) == {k \in 0 .. bits - 1 : (n \div 2 ^ k) % 2 = 1}
OfBits(s, bits) ==
    LET sum[k \in 0 .. bits] == IF k = 0 THEN 0 ELSE sum[k - 1] + IF k - 1 \in s THEN 2 ^ (k - 1) ELSE 0
    IN  Signed(sum[bits], bits)
Bitwise(op, a, b, bits) ==
    LET x == BitsOf(a, bits)
        y == BitsOf(b, bits)
    IN  OfBits(CASE op = "&" -> x \cap y [] op = "|" -> x \cup y
                 [] op = "^" -> (x \cup y) \ (x \cap y), bits)

CanShift(a, b) == b \in 0 .. IntBits - 1 /\ a >= 0 /\ a * 2 ^ b < 2 ^ IntBits

----------------------------------------------------------------------------
(* Operators on two values of one type: operator+ and the others of each   *)
(* class, and the templates that choose them.                              *)

Arithmetic == {"+", "-", "*", "/", "%"}
BitOperators == {"&", "|", "^"}
Comparisons == {"<", ">", "==", "!="}
Unanswered == {"<=", ">="}      \* their tags are not those getOperationType knows

ExactResult(op, a, b) == CASE op = "+" -> a + b [] op = "-" -> a - b [] op = "*" -> a * b

\* Faulty variant of Compare: > answers as its converse with equality.
CompareNotLess(op, less, equal) ==
    {BoolValue(CASE op = "<" -> less [] op = ">" -> ~less
            [] op = "==" -> equal [] op = "!=" -> ~equal)}

Compare(op, less, equal) ==
    {BoolValue(CASE op = "<" -> less [] op = ">" -> ~less /\ ~equal
            [] op = "==" -> equal [] op = "!=" -> ~equal)}

IntOperation(op, a, b) ==
    CASE op \in {"+", "-", "*"} -> IntResult(ExactResult(op, a, b))
      [] op \in {"/", "%"} /\ b = 0 -> {Outcome("throw")}
      [] op = "/" -> IntResult(Quotient(a, b))
      [] op = "%" -> IntResult(IF Quotient(a, b) \in IntRange THEN Remainder(a, b) ELSE Quotient(a, b))
      [] op \in BitOperators -> {IntValue(Bitwise(op, a, b, IntBits))}
      [] op = "<<" -> IF CanShift(a, b) THEN {IntValue(Signed(a * 2 ^ b, IntBits))} ELSE Ints
      [] op = ">>" -> IF b \in 0 .. IntBits - 1 THEN {IntValue(a \div 2 ^ b)} ELSE Ints
      [] op \in Comparisons -> Compare(op, a < b, a = b)
      [] OTHER -> {Outcome("null")}

CharOperation(op, a, b) ==
    CASE op \in {"+", "-", "*"} -> CharResult(ExactResult(op, a, b))
      [] op = "%" /\ b = 0 -> {Outcome("throw")}
      [] op = "/" /\ b = 0 -> {CharValue(0)}
      [] op = "/" -> CharResult(Quotient(a, b))
      [] op = "%" -> CharResult(Remainder(a, b))
      [] op \in BitOperators -> {CharValue(Bitwise(op, a, b, CharBits))}
      [] op = "<<" -> IF CanShift(a, b) THEN CharResult(a * 2 ^ b) ELSE Chars
      [] op = ">>" -> IF b \in 0 .. IntBits - 1 THEN CharResult(a \div 2 ^ b) ELSE Chars
      [] op \in Comparisons -> Compare(op, a < b, a = b)
      [] OTHER -> {Outcome("null")}

\* IEEE arithmetic: an operand that is no number makes a result that is none.
IsNaN(x) == x.text # <<>>
Infinite(n) == Magnitude(n) = Huge
Opposite(a, b) == (a < 0) # (b < 0)
DoubleSum(op, a, b) ==
    CASE op \in {"+", "-"} /\ Infinite(a) /\ Infinite(b) ->
           IF Opposite(a, b) = (op = "-") THEN {DoubleValue(a)} ELSE {NaN}
      [] op \in {"+", "-"} /\ Infinite(a) -> {DoubleValue(a)}
      [] op \in {"+", "-"} /\ Infinite(b) -> {DoubleValue(IF op = "+" THEN b ELSE -b)}
      [] op = "*" /\ (Infinite(a) \/ Infinite(b)) ->
           IF a = 0 \/ b = 0 THEN {NaN} ELSE {DoubleValue(IF Opposite(a, b) THEN -Huge ELSE Huge)}
      [] OTHER -> DoubleResult(ExactResult(op, a, b))
DoubleQuotient(a, b) ==
    CASE (Infinite(a) /\ Infinite(b)) \/ (a = 0 /\ b = 0) -> {NaN}
      [] b = 0 -> {Infinity, DoubleValue(-Huge)}                  \* zero has a sign
      [] Infinite(a) -> {DoubleValue(IF Opposite(a, b) THEN -Huge ELSE Huge)}
      [] Infinite(b) -> {DoubleValue(0)}
      [] OTHER -> IF Remainder(a, b) = 0 THEN DoubleResult(Quotient(a, b))
                  ELSE {DoubleValue(d) : d \in Doubles}

DoubleOperation(op, x, y) ==
    CASE op \in Comparisons /\ (IsNaN(x) \/ IsNaN(y)) -> {BoolValue(op = "!=")}
      [] op \in Comparisons -> Compare(op, x.n < y.n, x.n = y.n)
      [] op \in Arithmetic \ {"%"} /\ (IsNaN(x) \/ IsNaN(y)) -> {NaN}
      [] op \in {"+", "-", "*"} -> DoubleSum(op, x.n, y.n)
      [] op = "/" -> DoubleQuotient(x.n, y.n)
      [] OTHER -> {Outcome("throw")}

BoolOperation(op, a, b) ==
    CASE op = "&&" -> {BoolValue(a = 1 /\ b = 1)}
      [] op = "||" -> {BoolValue(a = 1 \/ b = 1)}
      [] op \in {"==", "!="} -> Compare(op, a < b, a = b)
      [] OTHER -> {Outcome("throw")}

\* Texts are sequences of numbers that order their characters.
TextLess(s, t) ==
    \E n \in 0 .. Len(s) : /\ n < Len(t)
                           /\ SubSeq(s, 1, n) = SubSeq(t, 1, n)
                           /\ n = Len(s) \/ s[n + 1] < t[n + 1]

StringOperation(op, s, t) ==
    CASE op = "+" -> {Text(s \o t)}
      [] op \in Comparisons -> Compare(op, TextLess(s, t), s = t)
      [] OTHER -> {Outcome("throw")}

BasicTypes == {"int", "double", "bool", "string", "char"}

\* performBasicTypeBinaryOperation.
BasicOperation(op, x, y) ==
    CASE x.type = "int"    -> IntOperation(op, x.n, y.n)
      [] x.type = "char"   -> CharOperation(op, x.n, y.n)
      [] x.type = "double" -> DoubleOperation(op, x, y)
      [] x.type = "bool"   -> BoolOperation(op, x.n, y.n)
      [] x.type = "string" -> StringOperation(op, x.text, y.text)

\* performUnaryOperation; ++ and -- are handled before the calculator.
UnaryOperation(op, x) ==
    CASE op = "!" /\ x.type \in {"int", "char", "bool"} -> {BoolValue(x.n = 0)}
      [] op = "~" /\ x.type = "int"  -> {IntValue(-x.n - 1)}
      [] op = "~" /\ x.type = "char" -> CharResult(-x.n - 1)
      [] op = "-" /\ x.type = "int"  -> IntResult(-x.n)
      [] op = "-" /\ x.type = "char" -> CharResult(-x.n)
      [] op = "-" /\ x.type = "double" -> {[x EXCEPT !.n = -x.n]}
      [] op = "+" /\ x.type \in {"int", "char", "double", "string"} -> {x}
      [] OTHER -> {Outcome("throw")}

\* toBool, and promoteTo another rank: a char keeps the low bits of an int or a
\* double; a double that is too large for the other type makes any of it.
ToBool(x) == IF x.type = "string" THEN x.text # <<>> ELSE x.n # 0 \/ IsNaN(x)
PromoteTo(type, x) ==
    CASE type = "double" /\ x.type # "double" -> DoubleResult(x.n)
      [] type = "int"  -> IF IsNaN(x) THEN Ints ELSE IntResult(x.n)
      [] type = "char" -> IF x.type = "double" /\ (IsNaN(x) \/ x.n \notin CharRange)
                          THEN Chars ELSE CharResult(x.n)
      [] OTHER -> {x}

----------------------------------------------------------------------------
(* Calculator.  Outcomes come with the operands that were deleted.         *)

Answer(outcomes, deleted) == [outcomes |-> outcomes, deleted |-> deleted]

\* TypeConversionPriority, and the operand whose type is taken: the right one
\* unless the left has the higher priority.
Priority(type) ==
    CASE type = "bool" -> 1 [] type = "char" -> 2 [] type = "int" -> 3
      [] type = "double" -> 4 [] type = "string" -> 5
      [] type = "array" -> 10 [] type = "dict" -> 11 [] OTHER -> 100
Kept(x, y) == IF Priority(x.type) > Priority(y.type) THEN "left" ELSE "right"

\* convertValueUsingTypeSystem looks for a method To<type> spelled toTYPE with
\* its first letter made a capital, which no type has: only a value that is of
\* the type already is converted, to itself.
Converts(x, type) == x.type = type

\* callMethodWithReference: a missing method ends the running function.
CallMethod(x, op) ==
    IF x.type \in DOMAIN Methods /\ op \in Methods[x.type] /\ op \notin Unanswered
    THEN {Object(x.type)} ELSE {Outcome("return")}

\* Faulty variant of BinaryOperation: the converted operands are deleted, as the
\* one of a unary operation is.
BinaryCleaningUp(op, x, y) ==
    Answer(IF x.type = y.type /\ x.type \in BasicTypes THEN BasicOperation(op, x, y)
           ELSE CallMethod(x, op), {"left", "right"})

\* executeBinaryOperation.  Of two operands of different types the converted
\* one, which is the operand itself, is deleted; then methods are tried.
BinaryOperation(op, x, y) ==
    IF x.type = y.type
    THEN Answer(IF x.type \in BasicTypes THEN BasicOperation(op, x, y) ELSE CallMethod(x, op), {})
    ELSE IF Kept(x, y) = "left" \/ op \in Unanswered THEN Answer({Outcome("fault")}, {Kept(x, y)})
    ELSE Answer(CallMethod(x, op), {"right"})

\* executeUnaryOperation: the converted operand is the operand, and goes, unless
\* an exception leaves before.
Unary(op, x) ==
    LET results == IF x.type \in BasicTypes THEN UnaryOperation(op, x) ELSE CallMethod(x, op)
    IN  Answer(results, IF results \cap {Outcome("throw"), Outcome("return")} = {}
                        THEN {"left"} ELSE {})

\* executeTernaryOperation: a clone of the chosen value; the condition goes.
Ternary(condition, x, y) ==
    IF Converts(condition, "bool")
    THEN Answer({IF condition.n = 1 THEN x ELSE y}, {"condition"})
    ELSE Answer({Outcome("throw")}, {})

=============================================================================
