----------------------------- MODULE Conversions -----------------------------
(***************************************************************************)
(* Values made from others: the conversions of ObjectFactory and those     *)
(* that are methods of String (object_factory.cpp, string.cpp).  Texts     *)
(* spell decimal numbers; the longer spellings of a double, with a point   *)
(* or an exponent, and numbers that are not finite are left out.           *)
(***************************************************************************)
EXTENDS Calculator

CONSTANTS
    Zero, Minus, Plus, Blank,   \* characters; the digits follow Zero
    NoCharacter,                \* '\0'
    TrueText, FalseText         \* how a bool is written

Digits == Zero .. Zero + 9

\* to_string of a number.
Numeral(n) ==
    LET digits[m \in 0 .. Magnitude(n)] ==
          (IF m > 9 THEN digits[m \div 10] ELSE <<>>) \o <<Zero + (m % 10)>>
    IN  (IF n < 0 THEN <<Minus>> ELSE <<>>) \o digits[Magnitude(n)]

\* A text without the blanks before a number, and without its sign.
Unpadded(s) ==
    LET others == {i \in DOMAIN s : s[i] # Blank}
    IN  IF others = {} THEN <<>> ELSE SubSeq(s, Min(others), Len(s))
Unsigned(s) == IF s # <<>> /\ s[1] \in {Minus, Plus} THEN Tail(s) ELSE s

LeadingDigits(s) ==
    LET lengths == {n \in 0 .. Len(s) : \A i \in 1 .. n : s[i] \in Digits}
    IN  SubSeq(s, 1, Max(lengths))
Decimal(s) ==
    LET upTo[n \in 0 .. Len(s)] == IF n = 0 THEN 0 ELSE 10 * upTo[n - 1] + s[n] - Zero
    IN  upTo[Len(s)]

\* stoi and stod: what follows the digits is ignored, no digits are an error.
IsNumber(s) == LeadingDigits(Unsigned(Unpadded(s))) # <<>>
Parsed(s) ==
    LET start == Unpadded(s)
        n == Decimal(LeadingDigits(Unsigned(start)))
    IN  IF start[1] = Minus THEN -n ELSE n

CharOf(s) == CharValue(IF s = <<>> THEN NoCharacter ELSE s[1])

\* An int that a text does not spell, or that does not fit, is 0.
IntOf(s) ==
    IntValue(IF IsNumber(s) /\ Parsed(s) \in IntRange THEN Parsed(s) ELSE 0)

\* The conversions that are methods of String; the other types of values have
\* none: there the search ends the running function.
StringTo(type, s) ==
    CASE type = "string" -> {Text(s)}
      [] type = "bool"   -> {BoolValue(s # <<>>)}
      [] type = "int"    -> {IntOf(s)}
      [] type = "double" -> IF IsNumber(s) THEN DoubleResult(Parsed(s)) ELSE {DoubleValue(0)}
      [] type = "char"   -> {CharOf(s)}
      [] OTHER -> {Outcome("return")}

----------------------------------------------------------------------------
(* ObjectFactory.                                                          *)

ToText(x) ==
    CASE x.type \in {"int", "double"} -> Numeral(x.n)
      [] x.type = "char"   -> <<x.n>>
      [] x.type = "string" -> x.text
      [] x.type = "bool"   -> IF x.n = 1 THEN TrueText ELSE FalseText

\* The char of a number, and the number of a char, is 0; a text that spells no
\* double makes an int.
CreatedFrom(x, type) ==
    CASE type = "bool"   -> {BoolValue(ToBool(x))}
      [] type = "string" -> {Text(ToText(x))}
      [] type \in {"int", "double"} /\ x.type \in {"int", "double"} -> PromoteTo(type, x)
      [] type = "int"    -> {IF x.type = "string" THEN IntOf(x.text) ELSE IntValue(0)}
      [] type = "double" -> CASE x.type # "string"  -> {DoubleValue(0)}
                              [] x.type = "string" /\ ~IsNumber(x.text) -> {IntValue(0)}
                              [] OTHER -> StringTo("double", x.text)
      [] type = "char"   -> CASE x.type = "char"   -> {x}
                              [] x.type = "string" -> {CharOf(x.text)}
                              [] OTHER -> {CharValue(NoCharacter)}

Default(type) ==
    CASE type \in {"int", "double", "bool"} -> Value(type, 0, <<>>)
      [] type = "char"   -> CharValue(NoCharacter)
      [] type = "string" -> Text(<<>>)

\* create: arguments other than exactly one are ignored, and so are all of them
\* for containers; an unknown type makes a Null.
Created(type, args) ==
    CASE type \in BasicTypes /\ Len(args) = 1 -> CreatedFrom(args[1], type)
      [] type \in BasicTypes /\ Len(args) # 1 -> {Default(type)}
      [] type \in {"array", "dict"} -> {Object(type)}
      [] OTHER -> {Object("Null")}

CreatedMultiple(type, count, args) == [1 .. count -> Created(type, args)]

=============================================================================
