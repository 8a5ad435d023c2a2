------------------------------ MODULE Signatures ------------------------------
(***************************************************************************)
(* Parameters and signatures of functions (function_signature.cpp,         *)
(* function_signature_parser.cpp, function.cpp).  The name of a parameter  *)
(* is a number, its place in the order of strings, and "arg<i>" is i.      *)
(***************************************************************************)
EXTENDS Integers, Sequences, FiniteSetsExt

Parameter(name, type, default, rest) ==
    [name |-> name, type |-> type, default |-> default, rest |-> rest]
RestName == -1                              \* "..."
NoDefault == <<>>                           \* a default is kept as its text
Rest == Parameter(RestName, "any", NoDefault, TRUE)
HasDefault(param) == param.default # NoDefault

Signature(name, params) == [name |-> name, params |-> params]
HasRest(params) == \E i \in DOMAIN params : params[i].rest
Fixed(params)   == SelectSeq(params, LAMBDA p : ~p.rest)
Required(params) == Cardinality({i \in DOMAIN params : ~HasDefault(params[i])})

\* FunctionSignature(FunctionPrototype): names and types, which is all a script's
\* function has of its parameters, and no default and no "...".
SignatureOfPrototype(name, params) ==
    Signature(name, [i \in DOMAIN params |-> Parameter(params[i].name, params[i].type, NoDefault, FALSE)])

\* BuiltinFunction::getSignature keeps the types; defaults move to the front.
SignatureOfNative(name, params) ==
    LET fixed    == Fixed(params)
        defaults == SelectSeq(fixed, HasDefault)
        rests    == SelectSeq(params, LAMBDA p : p.rest)
        Default(i) == IF i <= Len(defaults) THEN defaults[i].default ELSE NoDefault
    IN  Signature(name,
            [i \in DOMAIN fixed |-> Parameter(i - 1, fixed[i].type, Default(i), FALSE)]
            \o IF rests = <<>> THEN <<>>
               ELSE <<Parameter(RestName, rests[Len(rests)].type, NoDefault, TRUE)>>)

----------------------------------------------------------------------------
(* Keys of the tables of methods: std::map puts a function in the place of *)
(* an equivalent key, and keeps the key.                                   *)

\* operator< among signatures of one name.
Precedes(s, t) ==
    LET differ == {i \in DOMAIN s.params \cap DOMAIN t.params : s.params[i] # t.params[i]}
    IN  \/ Len(s.params) < Len(t.params)
        \/ /\ Len(s.params) = Len(t.params) /\ differ # {}
           /\ s.params[Min(differ)].name < t.params[Min(differ)].name

SameKey(s, t) == s.name = t.name /\ ~Precedes(s, t) /\ ~Precedes(t, s)

\* What a map asks of the order of its keys.
WeakOrder(keys) ==
    \A s, t, u \in keys :
        /\ SameKey(s, t) /\ SameKey(t, u) => SameKey(s, u)
        /\ s.name = t.name /\ t.name = u.name /\ Precedes(s, t) /\ Precedes(t, u) => Precedes(s, u)

----------------------------------------------------------------------------
(* Arguments, as the names of their types; Null is the null pointer.       *)

Null == "null pointer"

\* Faulty variant of CompatibleType: only "any" is looked at.
CompatibleAlways(expected, actual) == TRUE

CompatibleType(expected, actual) == expected = "any" \/ expected = actual

TypeScore(expected, actual) ==
    IF ~CompatibleType(expected, actual) THEN -1 ELSE IF expected = "any" THEN 0 ELSE 100

CanAccept(s, args) ==
    /\ Len(args) >= Required(s.params)
    /\ HasRest(s.params) \/ Len(args) <= Len(s.params)

\* calculateMatchScore: arguments in the place of "..." do not count, and one
\* that does not match costs no more than one that does earns.
Points(s, args, i) ==
    LET RestType == s.params[Max({j \in DOMAIN s.params : s.params[j].rest})].type
    IN  IF args[i] = Null \/ (i <= Len(s.params) /\ s.params[i].rest) THEN 0
        ELSE TypeScore(IF i > Len(s.params) THEN RestType ELSE s.params[i].type, args[i])
Score(s, args) ==
    LET upto[n \in 0 .. Len(args)] == IF n = 0 THEN 0 ELSE upto[n - 1] + Points(s, args, n)
    IN  IF CanAccept(s, args) THEN upto[Len(args)] ELSE -1

\* Function::validateArguments: defaults do not count.
ValidArguments(params, args) ==
    IF HasRest(params)
    THEN Len(args) >= Min({i \in DOMAIN params : params[i].rest}) - 1
    ELSE Len(args) = Len(params)

\* fillDefaultArguments: null pointers, as far as there are defaults.
FilledArguments(params, args) ==
    LET missing == {n \in Len(args) .. Len(params) :
                       \A i \in Len(args) + 1 .. n : HasDefault(params[i])}
    IN  args \o [i \in 1 .. (IF missing = {} THEN 0 ELSE Max(missing) - Len(args)) |-> Null]

----------------------------------------------------------------------------
(* FunctionSignatureParser.  What follows the "(" of a prototype is read as *)
(* a sequence of tokens: words, other characters, texts without either.    *)

Word(name) == <<"word", name>>
Mark(char) == <<char>>
IsWord(token) == token[1] = "word"

Endless == Parameter(-2, "", NoDefault, FALSE)      \* read again and again

\* Faulty variant of Ends: a comma does not end a default.
EndsWithoutComma == {Mark(char) : char \in {")", ";", " "}}

Ends == {Mark(char) : char \in {",", ")", ";", " "}}
EndOfDefault(text, i) == Min({j \in i .. Len(text) + 1 : j > Len(text) \/ text[j] \in Ends})

\* parseParameterList, from each place on.  Two words without a comma are two
\* parameters; at any character not expected the loop makes no progress.
ParametersFrom(text) ==
    LET Defaulted(i) == i < Len(text) /\ text[i + 1] = Mark("=")
        from[i \in 1 .. Len(text) + 1] ==
          IF i > Len(text) THEN <<>>
          ELSE CASE text[i] = Mark(")") -> <<>>
                 [] text[i] \in {Mark(" "), Mark(",")} -> from[i + 1]
                 [] text[i] = Mark("...") -> <<Rest>> \o from[i + 1]
                 [] IsWord(text[i]) ->
                      LET end == IF Defaulted(i) THEN EndOfDefault(text, i + 2) ELSE i + 1
                      IN  <<Parameter(text[i][2], "any", SubSeq(text, i + 2, end - 1), FALSE)>>
                          \o from[end]
                 [] OTHER -> <<Endless>>
    IN  from[1]

\* parseCFormatParams: "..." in the first place ends the list.
ParsePrototype(text) ==
    LET read == {i \in DOMAIN text : text[i] # Mark(" ")}
    IN  IF read # {} /\ text[Min(read)] = Mark("...") THEN <<Rest>> ELSE ParametersFrom(text)

=============================================================================
