------------------------------- MODULE Generics -------------------------------
(***************************************************************************)
(* Generic types and functions (generics.cpp): definitions with            *)
(* constrained parameters, their instances, the registry, which knows them *)
(* by name only, and named constraints.                                    *)
(***************************************************************************)
EXTENDS Inference

GenericDefinition(name, generics) == [name |-> name, generics |-> generics]
GenericFunction(name, generics, params, result) ==
    [name |-> name, generics |-> generics, params |-> params, result |-> result]
NoInstance == [base |-> NoType, arguments |-> <<>>]

Compatible(expected, actual) == expected = actual \/ IsSubtype(actual, expected)
Constrained(generic, type) == generic.constraint = NoType \/ Compatible(generic.constraint, type)

ArgumentsFit(generics, args) ==
    /\ Len(args) = Len(generics)
    /\ \A i \in DOMAIN generics : Constrained(generics[i], args[i])

\* The arguments by the names of their parameters; the last one of a name counts.
TypeMap(generics, args) ==
    [n \in {generics[i].name : i \in DOMAIN generics} |->
        args[Max({i \in DOMAIN generics : generics[i].name = n})]]

\* GenericTypeDefinition::instantiate makes a new base type of the name.
Instance(definition, args) ==
    IF ArgumentsFit(definition.generics, args)
    THEN [base |-> Named(definition.name), arguments |-> TypeMap(definition.generics, args)]
    ELSE NoInstance
TypeArgument(instance, name) ==
    IF name \in DOMAIN instance.arguments THEN instance.arguments[name] ELSE NoType
Complete(instance) == DOMAIN instance.arguments # {}
SameInstance(a, b) ==
    /\ a.base = b.base
    /\ Cardinality(DOMAIN a.arguments) = Cardinality(DOMAIN b.arguments)
    /\ \A n \in DOMAIN a.arguments : n \in DOMAIN b.arguments /\ a.arguments[n] = b.arguments[n]

\* GenericFunctionSignature::instantiate checks the arguments, and keeps the types
\* of the parameters and of the result as they were declared.
FunctionInstance(function, args) ==
    IF ArgumentsFit(function.generics, args)
    THEN <<function.name, function.params, function.result>> ELSE <<>>

\* The arguments are taken to be the types of the first arguments of the call.
InferArguments(function, given) ==
    IF Len(given) # Len(function.params) THEN <<>>
    ELSE SubSeq(given, 1, Min({Len(given), Len(function.generics)}))

ResolveGeneric(name, context) == IF name \in DOMAIN context THEN context[name] ELSE Named(name)

----------------------------------------------------------------------------
(* The registry, a function from names to definitions.                     *)

Registered(registry, definition) ==
    [n \in DOMAIN registry \cup {definition.name} |->
        IF n = definition.name THEN definition ELSE registry[n]]
CreatedInstance(registry, name, args) ==
    IF name \in DOMAIN registry THEN Instance(registry[name], args) ELSE NoInstance
CreatedFunction(registry, name, args) ==
    IF name \in DOMAIN registry THEN FunctionInstance(registry[name], args) ELSE <<>>

\* TypeConstraint::checkConstraint; other kinds hold for every type.
ConstraintHolds(constraint, type) ==
    LET described == Named(constraint.description)
    IN  /\ type # NoType
        /\ CASE constraint.kind = "equals"    -> type = described
             [] constraint.kind = "subtype"   -> IsSubtype(type, described)
             [] constraint.kind = "supertype" -> IsSubtype(described, type)
             [] OTHER -> TRUE
ConstraintsHold(constraints, type) ==
    \A i \in DOMAIN constraints : ConstraintHolds(constraints[i], type)

=============================================================================
