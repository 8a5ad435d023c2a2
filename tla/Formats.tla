-------------------------------- MODULE Formats --------------------------------
(***************************************************************************)
(* The static method format of the type string (types/string.cpp): a text  *)
(* with placeholders {}, {0}, {name} and {0:4d}, the arguments for them in *)
(* order, and those that have a name.  Doubles are whole numbers here.     *)
(***************************************************************************)
EXTENDS Conversions, Strings

CONSTANTS Open, Close, Colon, Point, LetterD, LetterF, LetterS     \* characters

\* Characters are numbers; the provers need not know which.
ASSUME FormatsAssumption ==
    /\ {Zero, Minus, Blank, Open, Close, Colon, Point, LetterD, LetterF, LetterS} \subseteq Nat
    /\ Colon \notin {Open, Close} /\ Open # Close /\ Blank \in Blanks
    /\ TrueText \in Seq(Nat) /\ FalseText \in Seq(Nat)

NoNumber  == <<-2>>               \* stoi met no number, and the call ends
Missing == Value("none", 0, <<>>)

Times(n, character) == [i \in 1 .. n |-> character]

\* %*d: to the right of the width, or to its left if that is negative.
Padded(s, width) ==
    IF width >= 0 THEN Times(width - Len(s), Blank) \o s ELSE s \o Times(-width - Len(s), Blank)

\* %.*f: a negative precision is none, and then it is 6.
FixedPoint(x, precision) ==
    LET p == IF precision < 0 THEN 6 ELSE precision
    IN  ToText(x) \o (IF p = 0 THEN <<>> ELSE <<Point>>) \o Times(p, Zero)

\* applyFormatSpec: the number before the letter that fits the type is a width;
\* the number between a point and an f, for a double, is the precision.
ApplyFormatSpec(x, spec) ==
    LET text == ToText(x)
        Before(letter) == Part(spec, 0, IndexOf(spec, <<letter>>))
        With(number, Fit(_)) ==
            CASE number = <<>> -> text
              [] number # <<>> /\ ~IsNumber(number) -> NoNumber
              [] OTHER -> Fit(Parsed(number))
        dot == IndexOf(spec, <<Point>>)
        f   == FindFrom(spec, <<LetterF>>, Max({dot, 0}))
    IN  CASE x.type = "double" /\ dot # -1 ->
               With(Part(spec, dot + 1, f), LAMBDA n : FixedPoint(x, n))
          [] x.type = "double" /\ dot = -1 ->
               With(Before(LetterF), LAMBDA n : Padded(FixedPoint(x, 2), n))
          [] x.type = "int"    -> With(Before(LetterD), LAMBDA n : Padded(text, n))
          [] x.type = "string" ->
               With(Before(LetterS), LAMBDA n : IF n > 0 THEN Padded(text, n) ELSE text)
          [] OTHER -> text

\* The value for a field: an empty one takes the next argument, a number counts
\* from the arguments that are not taken yet, any other is a name.
FieldValue(field, args, kwargs) ==
    LET at == IF field = <<>> THEN 1 ELSE Decimal(LeadingDigits(field)) + 1
    IN  IF field = <<>> \/ field[1] \in Digits
        THEN IF at \in DOMAIN args THEN args[at] ELSE Missing
        ELSE IF field \in DOMAIN kwargs THEN kwargs[field] ELSE Missing

\* The first placeholder from position pos on: where it starts and ends, what
\* names its value, and how that is to be written.
Hole(text, pos) ==
    LET start   == FindFrom(text, <<Open>>, pos)
        end     == IF start = -1 THEN -1 ELSE FindFrom(text, <<Close>>, start)
        content == Part(text, start + 1, end)
        colon   == IndexOf(content, <<Colon>>)
    IN  [start |-> start, end |-> end, there |-> start # -1 /\ end # -1,
         field |-> IF colon = -1 THEN content ELSE Part(content, 0, colon),
         spec  |-> IF colon = -1 THEN <<>> ELSE Part(content, colon + 1, Len(content))]

\* What is put there: a placeholder without a value stays.
Filling(text, hole, args, kwargs) ==
    LET value == FieldValue(hole.field, args, kwargs)
    IN  CASE value = Missing -> Part(text, hole.start, hole.end + 1)
          [] value # Missing /\ hole.spec = <<>> -> ToText(value)
          [] OTHER -> ApplyFormatSpec(value, hole.spec)

\* The loop over the placeholders, from position pos and on behind what is put
\* in, with the first arguments taken.
Format(s, args, kwargs) ==
    LET from[p \in [text : Seq(Int), pos : Nat, taken : 0 .. Len(args)]] ==
          LET hole == Hole(p.text, p.pos)
              new  == Filling(p.text, hole, SubSeq(args, p.taken + 1, Len(args)), kwargs)
          IN  CASE ~hole.there -> p.text
                [] hole.there /\ new = NoNumber -> NoNumber
                [] OTHER ->
                     from[[text |-> Part(p.text, 0, hole.start) \o new
                                    \o Part(p.text, hole.end + 1, Len(p.text)),
                           pos |-> hole.start + Len(new),
                           taken |-> IF hole.field = <<>> /\ p.taken < Len(args)
                                     THEN p.taken + 1 ELSE p.taken]]
    IN  from[[text |-> s, pos |-> 0, taken |-> 0]]

=============================================================================
