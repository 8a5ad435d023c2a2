-------------------------------- MODULE Types --------------------------------
(***************************************************************************)
(* The type system as a script meets it: prototypes, calls, inference and  *)
(* patterns are asked for one at a time, before anything is defined; types *)
(* and their methods are then defined.                                     *)
(***************************************************************************)
EXTENDS ClassTypes, Patterns, Expressions, Generics

CONSTANTS
    ParameterLists,     \* of functions that are declared and called
    SomeExpressions,    \* that are typed and evaluated
    SourceValues,       \* that others are made from
    ParametersOfTypes,  \* lists of parameters of a generic type
    TypeLists,          \* lists of arguments for them
    SomeTypes,          \* that are unified
    SomePatterns,       \* that are matched
    SomeValues          \* with these

VARIABLE asked          \* the question last asked, and its answer

\* A parameter list as scripts write it, up to its ")".
Written(params) ==
    LET Item(p) == CASE p.rest -> <<Mark("...")>>
                     [] ~p.rest /\ HasDefault(p) -> <<Word(p.name), Mark("=")>> \o p.default
                     [] OTHER -> <<Word(p.name)>>
        Join(text, p) == text \o (IF text = <<>> THEN <<>> ELSE <<Mark(","), Mark(" ")>>) \o Item(p)
    IN  Append(FoldLeft(Join, <<>>, params), Mark(")"))

Environment == <<[x \in DOMAIN Known |-> Named(Known[x].type)]>>

Ask(what, arguments, answer) ==
    /\ asked' = <<what, arguments, answer>>
    /\ UNCHANGED typeVars

AskPrototype == \E params \in ParameterLists :
    Ask("prototype", <<params>>, ParsePrototype(Written(params)))
\* A call of a native function, or of a script's, which has its signature's
\* parameters: the defaults are the signature's, the check the function's.
AskCall == \E declared \in ParameterLists, args \in Arguments, native \in BOOLEAN :
    LET signature == IF native THEN SignatureOfNative("f", declared)
                     ELSE SignatureOfPrototype("f", Fixed(declared))
        params == IF native THEN declared ELSE signature.params
    IN  Ask("call", <<params, args>>,
            [fits |-> CanAccept(signature, args),
             callable |-> Callable([i \in DOMAIN params |-> Named(params[i].type)],
                                   [i \in DOMAIN args |-> Named(args[i])]),
             valid |-> ValidArguments(params, FilledArguments(signature.params, args))])
Infer(e) ==
    CASE e.kind \in {"Array", "Set", "Dict", "range"} -> InferCollection(e, Environment)
      [] e.kind \in {"slice", "coalesce", "match", "async", "await", "type check", "cast", "compound"} ->
           InferOther(e, Environment)
      [] OTHER -> InferStatement(<<e>>, Environment)
AskType == \E e \in SomeExpressions : Ask("infer", <<e>>, Infer(e))
AskCheck == \E e \in SomeExpressions, type \in BasicTypes :
    Ask("check", <<e, Named(type)>>, CheckExpression(e, Named(type), Environment))
AskUnify == \E t, u \in SomeTypes : Ask("unify", <<t, u>>, Unify(t, u))
AskValue == \E e \in SomeExpressions : Ask("evaluate", <<e>>, Evaluate(e))
AskCreation == \E type \in BasicTypes \cup {"array", "dict", "A"} :
    \/ \E args \in {<<>>, <<IntValue(1), IntValue(1)>>} \cup {<<x>> : x \in SourceValues} :
          Ask("create", <<type, args>>, CreatedMultiple(type, 1, args))
    \/ \E count \in -1 .. 2 : Ask("create", <<type, <<>>>>, CreatedMultiple(type, count, <<>>))
AskInstance == \E generics \in ParametersOfTypes, args, others \in TypeLists :
    LET definition == Registered([n \in {} |-> {}], GenericDefinition("G", generics))
        function == GenericFunction("g", generics, others, Named("int"))
        functions == Registered([n \in {} |-> {}], function)
    IN  Ask("instance", <<generics, args, others>>,
            [first |-> CreatedInstance(definition, "G", args),
             second |-> CreatedInstance(definition, "G", others),
             inferred |-> CreatedFunction(functions, "g", InferArguments(function, args))])
AskMatch == \E p \in SomePatterns, v \in SomeValues : Ask("match", <<p, v>>, MatchFirst(<<p>>, v))

Init == TypesInit /\ asked = <<>>
Next ==
    \/ asked = <<>> /\ TypesNext /\ UNCHANGED asked
    \/ asked = <<>> /\ types = BuiltinTypes /\ scopes = <<EmptyScope>>
       /\ (\/ AskPrototype \/ AskCall \/ AskType \/ AskCheck \/ AskUnify \/ AskValue
           \/ AskCreation \/ AskInstance \/ AskMatch)
Spec == Init /\ [][Next]_<<typeVars, asked>>

----------------------------------------------------------------------------
(* Questions.                                                              *)

Creations(xs, type) == UNION {CreatedFrom(x, type) : x \in xs}
Through(x, type) == Creations(CreatedFrom(x, type), x.type)

\* What is made of x for a type has that type, but for a double from a text that
\* is no number; x is the same again after a type that holds it; and a text is
\* converted as by its own methods.
Converted(x, type, made) ==
    LET spoilt == type = "double" /\ x.type = "string" /\ ~IsNumber(x.text)
    IN  /\ type \in BasicTypes \cup {"array", "dict"} => made.type = type \/ spoilt
        /\ type = "string" => Through(x, type) = {x} \/ x.type = "bool"
        /\ x.type = "int" /\ type = "double" /\ x.n \in Doubles => Through(x, type) = {x}
        /\ x.type = "string" /\ type \in BasicTypes /\ ~spoilt => made \in StringTo(type, x.text)

\* The arguments of an instance are found by the names of the parameters, and two
\* instances are the same only for the same arguments.
Instantiated(generics, args, instance) ==
    /\ Complete(instance) <=> generics # <<>>
    /\ \A i \in DOMAIN generics :
         LET g == generics[i]
             Is(kind) == ConstraintsHold(<<[kind |-> kind, description |-> g.constraint[1]]>>, args[i])
         IN  /\ TypeArgument(instance, g.name) = args[i]
             /\ ResolveGeneric(g.name, instance.arguments) = args[i]
             /\ g.constraint # NoType => Is("equals") \/ Is("subtype")

\* What was written or given is found again: a parameter list as it is read from
\* its text; a value in what is made of it; the arguments of a generic type in
\* its instance, where its parameters have different names, and those of a
\* generic function in a call that has as many of them.  A call that fits the
\* signature is valid as it is given if it has an argument for every parameter
\* but "...", and by its defaults only if all of them have one: the signature of
\* a native function has its defaults in front (BuiltinFunction::getSignature),
\* so that f(a, b = 1) fits one argument and leaves b without; a script's
\* function has none.
ReadsBack ==
    asked # <<>> =>
    LET given  == asked[2]
        params == given[1]
        answer == asked[3]
    IN  CASE asked[1] = "prototype" ->
               answer = [i \in DOMAIN params |-> [params[i] EXCEPT !.type = "any"]]
          [] asked[1] = "call" ->
               LET fixed == Fixed(params)
               IN  /\ answer.fits =>
                        (answer.valid <=> \/ Len(given[2]) >= Len(fixed)
                                          \/ \A i \in DOMAIN fixed : HasDefault(fixed[i]))
                   /\ answer.callable => answer.fits
          [] asked[1] = "create" ->
               Len(given[2]) = 1 =>
                 \A made \in answer : \A i \in DOMAIN made : Converted(given[2][1], given[1], made[i])
          [] asked[1] = "instance" ->
               LET Alone(g) == Cardinality({i \in DOMAIN params : params[i].name = g.name}) = 1
               IN  /\ NoInstance \notin {answer.first, answer.second}
                        /\ (\A i \in DOMAIN params : Alone(params[i])) =>
                      /\ Instantiated(params, given[2], answer.first)
                      /\ Instantiated(params, given[3], answer.second)
                      /\ SameInstance(answer.first, answer.second) <=> given[2] = given[3]
                   /\ answer.first # NoInstance /\ Len(given[2]) = Len(given[3])
                      => answer.inferred # <<>>
          [] OTHER -> TRUE

\* The values that an expression may have.
ValuesOf(e) == {x \in {r.value : r \in Evaluate(e)} : x.type \in BasicTypes}

Alike(t, u) == t = u \/ {t, u} = {Named("int"), Named("double")}
Fits(x, t) == Named(x.type) = t \/ (x.type = "int" /\ t = Named("double"))

\* The parts of a choice, or of a collection, have types with a common supertype.
RECURSIVE Unmixed(_)
Unmixed(e) ==
    LET first == IF e.kind \in {"ternary", "match"} THEN 2 ELSE 1
        of == [i \in DOMAIN e.parts |-> InferExpression(e.parts[i], Environment)]
    IN  /\ \A i \in DOMAIN e.parts : Unmixed(e.parts[i])
        /\ e.kind \in {"ternary", "match", "Array", "Set"} =>
             \A i, j \in first .. Len(of) : Alike(of[i], of[j])

\* The value of an expression has the type that was inferred for it, or is an int
\* where a double was inferred, and so have the elements of a collection, as long
\* as nothing mixes values of other types; and an expression that is accepted for
\* a type has values that fit the type.
InferredIsEvaluated ==
    asked # <<>> /\ asked[1] \in {"infer", "check"} =>
    LET e == asked[2][1]
        t == IF asked[1] = "infer" THEN asked[3] ELSE asked[2][2]
    IN  t # NoType /\ (asked[1] = "infer" \/ asked[3]) /\ Unmixed(e) =>
        CASE e.kind \in {"Array", "Set"} ->
               \A i \in DOMAIN e.parts : \A x \in ValuesOf(e.parts[i]) : Fits(x, Tail(t))
          [] e.kind = "match" ->
               \A i \in 2 .. Len(e.parts) : \A x \in ValuesOf(e.parts[i]) : Fits(x, t)
          [] OTHER -> \A x \in ValuesOf(e) : Fits(x, t)

\* No operation of an expression has a reason to delete its operands: there are
\* no unary operators and no choices, and the operands of each operator have
\* the same type, which is a basic one.
RECURSIVE Plain(_)
Plain(e) ==
    /\ e.kind \notin {"unary", "ternary"}
    /\ \A i \in DOMAIN e.parts : Plain(e.parts[i])
    /\ e.kind = "binary" =>
         \E type \in BasicTypes : \A i \in 1 .. 2 : \A r \in Evaluate(e.parts[i]) :
            HasValue(r) => r.value.type = type

\* A plain expression only reads its variables: it deletes the value of none, and
\* touches none that is deleted.
PlainOnlyReads ==
    asked # <<>> /\ asked[1] = "evaluate" /\ Plain(asked[2][1]) =>
    \A r \in asked[3] : r.gone = {} /\ r.value.type # "fault"

RECURSIVE Has(_, _)
Has(kind, p) == p.kind = kind \/ \E i \in DOMAIN p.parts : Has(kind, p.parts[i])

\* A pattern with the values that its variables are bound to in their places.
RECURSIVE Filled(_, _)
Filled(p, bindings) ==
    IF p.kind = "variable"
    THEN IF p.name \in DOMAIN bindings THEN Literal(bindings[p.name]) ELSE p
    ELSE [p EXCEPT !.parts = [i \in DOMAIN p.parts |-> Filled(p.parts[i], bindings)]]

\* A match binds all variables of the pattern, of one branch where it has "or",
\* and no others; and a pattern that names none of them twice matches the value
\* also if they are replaced by what they are bound to, so that the value is what
\* a match expression has.
MatchBinds(p, value, answer) ==
    LET bindings == answer.bindings
        variables == Variables(p)
        names == {variables[i] : i \in DOMAIN variables}
    IN  answer.matched =>
        /\ DOMAIN bindings \subseteq names
        /\ ~HasBindings(p) => DOMAIN bindings = {}
        /\ ~Has("or", p) => DOMAIN bindings = names
        /\ Cardinality(names) = Len(variables) /\ ~Has("guard", p) =>
             EvaluateBranch(<<Filled(p, bindings)>>, 1, value) = value

\* Types that unify are related once type variables are replaced by what they are
\* bound to, and types that satisfy a constraint unify.
UnifierBinds(t, u, answer) ==
    LET Bound(type) == IF \E b \in answer.binds : b[1] = type
                       THEN (CHOOSE b \in answer.binds : b[1] = type)[2] ELSE type
        Holds(kind) == Solved(<<[kind |-> kind, left |-> t, right |-> u]>>)
    IN  /\ answer.success =>
             CompatibleWith(Bound(t), Bound(u)) \/ CompatibleWith(Bound(u), Bound(t))
        /\ Holds("equality") \/ Holds("subtype") => answer.success

\* What variables of patterns and of types are bound to solves the question that
\* was asked of them.
BindingsSolve ==
    asked # <<>> =>
    CASE asked[1] = "match" -> MatchBinds(asked[2][1], asked[2][2], asked[3])
      [] asked[1] = "unify" -> UnifierBinds(asked[2][1], asked[2][2], asked[3])
      [] OTHER -> TRUE

=============================================================================
